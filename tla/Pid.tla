-------------------------------- MODULE Pid ---------------------------------
(***************************************************************************)
(* pid_compute of pid.c.  ki and kd are the gains per sample,              *)
(* ki * sample_time and kd / sample_time in the code, which has one sample *)
(* time for all.  A float is an integer up to FloatMax in size, an         *)
(* infinity beyond it, or NaN.                                             *)
(***************************************************************************)
EXTENDS Integers

CONSTANT FloatMax  \* the largest finite float

ASSUME PidAssumption == FloatMax \in Nat

Inf    == FloatMax + 1
NegInf == -Inf
NaN    == FloatMax + 2  \* only a code for it: every operator tests for it
Finite == -FloatMax..FloatMax

\* The arithmetic of IEEE 754 on them: overflow, inf - inf, 0 * inf, and NaN
\* gives NaN.
Pairs == Int \X Int
Rounded(n) == IF n > FloatMax THEN Inf ELSE IF n < -FloatMax THEN NegInf ELSE n
FloatSum[p \in Pairs] ==
    IF NaN \in {p[1], p[2]} \/ {p[1], p[2]} = {Inf, NegInf} THEN NaN
    ELSE IF Inf \in {p[1], p[2]} THEN Inf
    ELSE IF NegInf \in {p[1], p[2]} THEN NegInf
    ELSE Rounded(p[1] + p[2])
FloatProduct[p \in Pairs] ==
    IF NaN \in {p[1], p[2]} \/ {p[1], p[2]} \in {{0, Inf}, {0, NegInf}} THEN NaN
    ELSE Rounded(p[1] * p[2])
Plus(x, y)    == FloatSum[<<x, y>>]
Minus(x, y)   == FloatSum[<<x, IF y = NaN THEN NaN ELSE -y>>]
Times(x, y)   == FloatProduct[<<x, y>>]
Exceeds(x, y) == NaN \notin {x, y} /\ x > y

\* The two if-else chains of pid_compute.  NaN is neither above nor below.
Clamp(x, lo, hi) ==
    LET limited[v \in Int] == IF Exceeds(v, hi) THEN hi ELSE IF Exceeds(lo, v) THEN lo ELSE v
    IN  limited[x]

\* What the integrator adds up, and the sum of the three parts.
Accumulated(pid, error) == Plus(pid.inte_acc, Times(pid.ki, error))
Drive(pid, error, inte, input) ==
    Minus(Plus(Times(pid.kp, error), inte), Times(pid.kd, Minus(input, pid.last_in)))

\* Mutant: the integrator winds up.
ComputeUnlimited(pid, lo, hi, input) ==
    LET error == Minus(pid.setpoint, input)
        inte  == Accumulated(pid, error)
    IN  [inte_acc |-> inte, last_in |-> input,
         output |-> Clamp(Drive(pid, error, inte, input), lo, hi)]

\* Mutant: a negative error does not lower the integrator.
ComputeRatchet(pid, lo, hi, input) ==
    LET error == Minus(pid.setpoint, input)
        inte  == IF Exceeds(0, error) THEN pid.inte_acc
                 ELSE Clamp(Accumulated(pid, error), lo, hi)
    IN  [inte_acc |-> inte, last_in |-> input,
         output |-> Clamp(Drive(pid, error, inte, input), lo, hi)]

\* What a sample leaves in the controller, and its output.
Compute(pid, lo, hi, input) ==
    LET error == Minus(pid.setpoint, input)
        inte  == Clamp(Accumulated(pid, error), lo, hi)
    IN  [inte_acc |-> inte, last_in |-> input,
         output |-> Clamp(Drive(pid, error, inte, input), lo, hi)]
=============================================================================
