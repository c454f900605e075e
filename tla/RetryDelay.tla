----------------------------- MODULE RetryDelay -----------------------------
(***************************************************************************)
(* The delay before a failed job is due again, in seconds, which JobQueue  *)
(* abstracts to `later`: exponential backoff between 10 seconds and 5      *)
(* minutes, computed from the number of the attempt that failed.           *)
(***************************************************************************)
EXTENDS Integers, Sequences

Smaller(m, n) == IF m <= n THEN m ELSE n

\* (attempt - 1).clamp(0, 5)
Exponent(attempt) ==
  IF attempt - 1 < 0 THEN 0 ELSE IF attempt - 1 > 5 THEN 5 ELSE attempt - 1

\* 2_i64.pow(exponent), for the exponents that clamp leaves
PowerOfTwo == <<1, 2, 4, 8, 16, 32>>

retry_delay_seconds(attempt) == Smaller(10 * PowerOfTwo[Exponent(attempt) + 1], 300)
=============================================================================
