------------------------------ MODULE Backoff ------------------------------
(***************************************************************************)
(* The delays between retries (packages/core/src/retry/backoff.ts): pure   *)
(* functions of the strategy and of the number of the attempt that failed, *)
(* counted from 1.  Times are milliseconds, or any unit of them.           *)
(***************************************************************************)
EXTENDS Integers

Uncapped == -1                          \* maxDelayMs: undefined

Smaller(a, b) == IF a <= b THEN a ELSE b

Capped(delay, cap) == IF cap = Uncapped THEN delay ELSE Smaller(delay, cap)

Power(base) ==
    LET pow[n \in Nat] == IF n = 0 THEN 1 ELSE base * pow[n - 1] IN pow

constant(delayMs) == [type |-> "constant", delayMs |-> delayMs]

linear(initial, increment, cap) ==
    [type |-> "linear", initialDelayMs |-> initial,
     incrementMs |-> increment, maxDelayMs |-> cap]

exponential(initial, factor, cap) ==
    [type |-> "exponential", initialDelayMs |-> initial,
     multiplier |-> factor, maxDelayMs |-> cap]

(* Every delay there can be: *)
BackoffStrategy ==
    [type : {"constant"}, delayMs : Nat]
      \union [type : {"linear"}, initialDelayMs : Nat, incrementMs : Nat,
              maxDelayMs : Nat \union {Uncapped}]
      \union [type : {"exponential"}, initialDelayMs : Nat, multiplier : Nat,
              maxDelayMs : Nat \union {Uncapped}]

calculateBackoffDelay(s, attempt) ==
    CASE s.type = "constant" -> s.delayMs
      [] s.type = "linear" ->
           Capped(s.initialDelayMs + s.incrementMs * (attempt - 1), s.maxDelayMs)
      [] s.type = "exponential" ->
           Capped(s.initialDelayMs * Power(s.multiplier)[attempt - 1],
                  s.maxDelayMs)

(* The presets, and the strategy a retry without a delay gets. *)
standard == exponential(1000, 2, 30000)
aggressive == exponential(100, 2, 5000)
patient == exponential(5000, 2, 120000)
simple == constant(1000)

NoDelay == [type |-> "undefined"]

resolveDelay(delay, attempt) ==
    calculateBackoffDelay(IF delay.type = "undefined" THEN standard ELSE delay,
                          attempt)

(* The delays jitter may make of one: ten percent more or less of it. *)
addJitter(delay) == {d \in 0 .. 2 * delay : 10 * d \in 9 * delay .. 11 * delay}

=============================================================================
