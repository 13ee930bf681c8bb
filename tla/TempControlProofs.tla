------------------------- MODULE TempControlProofs --------------------------
(***************************************************************************)
(* What the controllers and heaters can hold, for every set of clients,    *)
(* commands and temperatures.  The invariant adds what lies between a      *)
(* command and the DAC: every setting and buffer a gain passes through on  *)
(* its way holds a value of V, and the results that wait to be stored one  *)
(* of R.  With V the gains that cannot overflow, R is the heater's range;  *)
(* with V every float, infinities included, R has NaN as well.  The last   *)
(* theorem says what a round does to a front end that is too warm.         *)
(***************************************************************************)
EXTENDS TempControl, TLAPS

\* No client sets a negative DAC value (the code refuses only those above).
NoNegativeDac == \A c \in Clients : \A p \in Allowed[c] : p[1] \in DOMAIN DacChannel => p[2] >= 0

\* No temperature and no value a client sets exceeds g, and the controller's
\* sums and products of such values are finite: with floats, g can be 10^18.
Moderate(g) ==
    /\ DacMax <= g /\ 5 * (g * g) <= FloatMax
    /\ Temps \subseteq -g..g
    /\ \A c \in Clients : \A p \in Allowed[c] : p[2] \in -g..g

\* A controller with gains in V and an integrator in R.
Controllers(V, R) ==
    {pid \in [Members -> Int] : /\ \A m \in Members \ {"inte_acc"} : pid[m] \in V
                              /\ pid["inte_acc"] \in R}

\* Settings in V keep the voltages in R, and these have codes.
Covers(V, R) ==
    /\ V \subseteq Int /\ {0, 1} \subseteq V /\ Temps \subseteq V
    /\ \A c \in Clients : \A p \in Allowed[c] : p[2] \in V
    /\ R \subseteq Int /\ 0..DacMax \subseteq R
    /\ \A v \in R : CodesOf(v) \subseteq 0..Codes
    /\ \A pid \in Controllers(V, R) : \A input \in Temps :
          LET new == Compute(pid, 0, DacMax, input)
          IN  new.inte_acc \in R /\ new.output \in R /\ new.last_in = input

FileTyped(V) == file \in [Fields -> V]

BufTyped(V) ==
    /\ running \in [Clients -> {<< >>} \cup UNION {Allowed[c] : c \in Clients}]
    /\ step \in [Clients -> 1..6]
    /\ buf \in [Clients -> [1..3 -> V]]

ThreadTyped(V, R) ==
    /\ reads \in Nat /\ (pc = "read" => reads < 8)
    /\ ctl \in [Channels -> Controllers(V, R)]

Ranges(R) ==
    /\ dac \in [Channels -> R]
    /\ result \in [Channels -> R]
    /\ out \in [Channels -> 0..Codes]

Inv(V, R) == FileTyped(V) /\ BufTyped(V) /\ ThreadTyped(V, R) /\ Ranges(R)

-----------------------------------------------------------------------------
(* The operators. *)

LEMMA Constants ==
    /\ FloatMax \in Nat /\ DacMax \in Nat \ {0} /\ DacMax <= FloatMax /\ Codes \in Nat
    /\ Inf = FloatMax + 1 /\ NegInf = -FloatMax - 1 /\ NaN = FloatMax + 2
    /\ Inf \in Int /\ NegInf \in Int /\ NaN \in Int
    /\ Finite \subseteq Int /\ Temps \subseteq Finite
  BY PidAssumption, CommandsAssumption, TempAssumption DEF Inf, NegInf, NaN, Finite

\* The arithmetic stays among the integers that stand for floats, ...
LEMMA FloatTyped ==
    ASSUME NEW x \in Int, NEW y \in Int
    PROVE  Plus(x, y) \in Int /\ Minus(x, y) \in Int /\ Times(x, y) \in Int
<1>1. \A n \in Int : Rounded(n) \in Int
  BY Constants DEF Rounded
<1>2. \A a, b \in Int : Plus(a, b) \in Int
  BY <1>1, Constants DEF Plus, FloatSum, Pairs
<1>3. Minus(x, y) \in Int
  BY <1>2, Constants DEF Minus, Plus
<1>4. x * y \in Int
  OBVIOUS
<1>5. Times(x, y) \in Int
  BY <1>1, <1>4, Constants DEF Times, FloatProduct, Pairs
<1> QED BY <1>2, <1>3, <1>5

\* ... and is exact where the result is finite.
LEMMA FloatExact ==
    ASSUME NEW x \in Finite, NEW y \in Finite
    PROVE  /\ x + y \in Finite => Plus(x, y) = x + y
           /\ x - y \in Finite => Minus(x, y) = x - y
           /\ x * y \in Finite => Times(x, y) = x * y
<1>1. \A n \in Finite : Rounded(n) = n /\ n \in Int /\ n \notin {Inf, NegInf, NaN}
  BY Constants DEF Rounded, Finite
<1>2. \A a, b \in Finite : a + b \in Finite => Plus(a, b) = a + b
  BY <1>1 DEF Plus, FloatSum, Pairs
<1>3. x - y \in Finite => Minus(x, y) = x - y
  <2>1. -y \in Finite /\ x - y = x + -y
    BY Constants DEF Finite
  <2> QED BY <1>1, <1>2, <2>1 DEF Minus, Plus
<1>4. x * y \in Finite => Times(x, y) = x * y
  <2>1. {x, y} \notin {{0, Inf}, {0, NegInf}}
    BY <1>1
  <2> QED BY <1>1, <2>1 DEF Times, FloatProduct, Pairs
<1> QED BY <1>2, <1>3, <1>4

\* Only NaN passes the two comparisons.
LEMMA ClampInRange ==
    ASSUME NEW x \in Int
    PROVE  /\ Clamp(x, 0, DacMax) \in 0..DacMax \cup {NaN}
           /\ x # NaN => Clamp(x, 0, DacMax) \in 0..DacMax
           /\ x # NaN /\ x <= 0 => Clamp(x, 0, DacMax) = 0
           /\ x # NaN => Clamp(x, 0, DacMax) = 0 \/ Clamp(x, 0, DacMax) <= x
  BY Constants DEF Clamp, Exceeds

\* A sample keeps the integrator and the output between the limits, or NaN.
LEMMA AnySample ==
    ASSUME NEW pid \in [Members -> Int], NEW input \in Int
    PROVE  /\ Compute(pid, 0, DacMax, input).inte_acc \in 0..DacMax \cup {NaN}
           /\ Compute(pid, 0, DacMax, input).output \in 0..DacMax \cup {NaN}
           /\ Compute(pid, 0, DacMax, input).last_in = input
<1> DEFINE error == Minus(pid["setpoint"], input)
           inte  == Clamp(Accumulated(pid, error), 0, DacMax)
<1>1. /\ pid["setpoint"] \in Int /\ pid["inte_acc"] \in Int /\ pid["ki"] \in Int
      /\ pid["kp"] \in Int /\ pid["kd"] \in Int /\ pid["last_in"] \in Int
  BY DEF Members
<1>2. error \in Int
  BY <1>1, FloatTyped
<1>3. Accumulated(pid, error) \in Int
  <2> HIDE DEF error
  <2> QED BY <1>1, <1>2, FloatTyped DEF Accumulated
<1>4. inte \in 0..DacMax \cup {NaN} /\ inte \in Int
  <2> HIDE DEF error
  <2> QED BY <1>3, ClampInRange, Constants
<1>5. Drive(pid, error, inte, input) \in Int
  <2> HIDE DEF error, inte
  <2> QED BY <1>1, <1>2, <1>4, FloatTyped DEF Drive
<1>6. Clamp(Drive(pid, error, inte, input), 0, DacMax) \in 0..DacMax \cup {NaN}
  <2> HIDE DEF error, inte
  <2> QED BY <1>5, ClampInRange
<1> QED BY <1>4, <1>6 DEF Compute

LEMMA ProductInRange ==
    ASSUME NEW g \in Nat, NEW a \in -g..g, NEW b \in Int, -2 * g <= b, b <= 2 * g
    PROVE  a * b \in Int /\ -2 * (g * g) <= a * b /\ a * b <= 2 * (g * g)
<1>1. \A m, n \in Nat : m * n \in Nat
  OBVIOUS
<1>2. (g - a) * (2 * g + b) \in Nat /\ (g + a) * (2 * g - b) \in Nat
      /\ (g - a) * (2 * g - b) \in Nat /\ (g + a) * (2 * g + b) \in Nat
  <2>1. g - a \in Nat /\ g + a \in Nat /\ 2 * g - b \in Nat /\ 2 * g + b \in Nat
    OBVIOUS
  <2> QED BY <1>1, <2>1
<1>3. (g - a) * (2 * g + b) = 2 * (g * g) + g * b - 2 * (a * g) - a * b
  OBVIOUS
<1>4. (g + a) * (2 * g - b) = 2 * (g * g) - g * b + 2 * (a * g) - a * b
  OBVIOUS
<1>5. (g - a) * (2 * g - b) = 2 * (g * g) - g * b - 2 * (a * g) + a * b
  OBVIOUS
<1>6. (g + a) * (2 * g + b) = 2 * (g * g) + g * b + 2 * (a * g) + a * b
  OBVIOUS
<1> QED BY <1>2, <1>3, <1>4, <1>5, <1>6

\* Where nothing can overflow, a sample is what it is in exact arithmetic.
LEMMA ModerateSample ==
    ASSUME NEW g \in Nat, Moderate(g),
           NEW pid \in Controllers(-g..g, 0..DacMax), NEW input \in -g..g
    PROVE  LET error == pid["setpoint"] - input
               inte  == Clamp(pid["inte_acc"] + pid["ki"] * error, 0, DacMax)
               drive == pid["kp"] * error + inte - pid["kd"] * (input - pid["last_in"])
           IN  /\ Compute(pid, 0, DacMax, input) =
                     [inte_acc |-> inte, last_in |-> input, output |-> Clamp(drive, 0, DacMax)]
               /\ pid["inte_acc"] + pid["ki"] * error \in Finite /\ drive \in Finite
<1> DEFINE error == pid["setpoint"] - input
           drop  == pid["ki"] * error
           inte  == Clamp(pid["inte_acc"] + drop, 0, DacMax)
           react == pid["kp"] * error
           din   == input - pid["last_in"]
           brake == pid["kd"] * din
<1>1. /\ pid["setpoint"] \in -g..g /\ pid["inte_acc"] \in 0..DacMax /\ pid["ki"] \in -g..g
      /\ pid["kp"] \in -g..g /\ pid["kd"] \in -g..g /\ pid["last_in"] \in -g..g
  BY DEF Controllers, Members
<1>2. g * g \in Nat /\ DacMax <= g /\ g <= g * g /\ 5 * (g * g) <= FloatMax
  <2>1. \A m, n \in Nat : m * n \in Nat
    OBVIOUS
  <2>2. g = 0 \/ g - 1 \in Nat
    OBVIOUS
  <2>3. g * (g - 1) = g * g - g
    OBVIOUS
  <2> QED BY <2>1, <2>2, <2>3 DEF Moderate
<1>3. \A n \in Int : -5 * (g * g) <= n /\ n <= 5 * (g * g) => n \in Finite
  BY <1>2, Constants DEF Finite
<1>4. \A n \in -g..g : n \in Finite
  <2>1. ASSUME NEW n \in -g..g PROVE n \in Finite
    <3> DEFINE s == g * g
    <3>1. s \in Nat /\ g <= s
      BY <1>2
    <3> HIDE DEF s
    <3>2. -5 * s <= n /\ n <= 5 * s
      BY <3>1
    <3> USE DEF s
    <3> QED BY <1>3, <3>2
  <2> QED BY <2>1
<1>5. error \in Int /\ -2 * g <= error /\ error <= 2 * g
      /\ din \in Int /\ -2 * g <= din /\ din <= 2 * g
  BY <1>1
<1>6. /\ drop \in Int /\ -2 * (g * g) <= drop /\ drop <= 2 * (g * g)
      /\ react \in Int /\ -2 * (g * g) <= react /\ react <= 2 * (g * g)
      /\ brake \in Int /\ -2 * (g * g) <= brake /\ brake <= 2 * (g * g)
  <2> HIDE DEF error, din
  <2> QED BY <1>1, <1>5, ProductInRange
<1> DEFINE s == g * g
           sum == pid["inte_acc"] + drop
           drive == react + inte - brake
<1>7. s \in Nat /\ g <= s /\ DacMax <= g /\ DacMax \in Nat
  BY <1>2, Constants
<1>8. sum \in Int /\ -5 * s <= sum /\ sum <= 5 * s
  <2>1. -2 * s <= drop /\ drop <= 2 * s /\ drop \in Int
    BY <1>6
  <2> HIDE DEF drop, s
  <2> QED BY <1>1, <1>7, <2>1
<1>9. sum \in Finite /\ sum # NaN
  <2> HIDE DEF sum
  <2> QED BY <1>3, <1>8, Constants DEF Finite
<1>10. inte \in 0..DacMax
  <2>1. inte = Clamp(sum, 0, DacMax)
    OBVIOUS
  <2> HIDE DEF sum, inte
  <2> QED BY <1>8, <1>9, <2>1, ClampInRange
<1>11. /\ react + inte \in Int /\ -5 * s <= react + inte /\ react + inte <= 5 * s
       /\ drive \in Int /\ -5 * s <= drive /\ drive <= 5 * s
  <2>1. -2 * s <= react /\ react <= 2 * s /\ react \in Int /\ -2 * s <= brake /\ brake <= 2 * s /\ brake \in Int
    BY <1>6
  <2> HIDE DEF react, brake, s, inte
  <2> QED BY <1>7, <1>10, <2>1
<1>12. /\ error \in Finite /\ din \in Finite /\ drop \in Finite /\ react \in Finite /\ brake \in Finite
       /\ react + inte \in Finite /\ drive \in Finite /\ inte \in Finite /\ pid["inte_acc"] \in Finite
  <2>1. \A n \in Int : -2 * g <= n /\ n <= 2 * g => n \in Finite
    <3>1. \A n \in Int : -2 * g <= n /\ n <= 2 * g => -5 * s <= n /\ n <= 5 * s
      <4> HIDE DEF s
      <4> QED BY <1>7
    <3> QED BY <1>3, <3>1
  <2>2. \A n \in Int : -2 * s <= n /\ n <= 2 * s => n \in Finite
    <3>1. \A n \in Int : -2 * s <= n /\ n <= 2 * s => -5 * s <= n /\ n <= 5 * s
      <4> HIDE DEF s
      <4> QED BY <1>7
    <3> QED BY <1>3, <3>1
  <2>3. inte \in -g..g /\ pid["inte_acc"] \in -g..g
    <3> HIDE DEF inte
    <3> QED BY <1>1, <1>7, <1>10
  <2>4. react + inte \in Finite /\ drive \in Finite
    <3> HIDE DEF drive, react, inte
    <3> QED BY <1>3, <1>11
  <2>5. error \in Finite /\ din \in Finite
    <3> HIDE DEF error, din
    <3> QED BY <1>5, <2>1
  <2>6. drop \in Finite /\ react \in Finite /\ brake \in Finite
    <3> HIDE DEF drop, react, brake
    <3> QED BY <1>6, <2>2
  <2> HIDE DEF error, din, drop, react, brake, inte, drive
  <2> QED BY <1>4, <2>3, <2>4, <2>5, <2>6
<1>13. Minus(pid["setpoint"], input) = error /\ Minus(input, pid["last_in"]) = din
  BY <1>1, <1>4, <1>12, FloatExact
<1>14. Times(pid["ki"], error) = drop /\ Times(pid["kp"], error) = react /\ Times(pid["kd"], din) = brake
  <2> HIDE DEF error, din
  <2> QED BY <1>1, <1>4, <1>12, FloatExact
<1>15. Accumulated(pid, error) = sum
  <2> HIDE DEF error, drop
  <2> QED BY <1>1, <1>9, <1>12, <1>14, FloatExact DEF Accumulated
<1>16. Drive(pid, error, inte, input) = drive
  <2>1. \A a, b, c \in Finite : a + b \in Finite /\ a + b - c \in Finite
                                 => Minus(Plus(a, b), c) = a + b - c
    <3> SUFFICES ASSUME NEW a \in Finite, NEW b \in Finite, NEW c \in Finite,
                        a + b \in Finite, a + b - c \in Finite
                 PROVE  Minus(Plus(a, b), c) = a + b - c
      OBVIOUS
    <3>1. Plus(a, b) = a + b
      BY FloatExact
    <3>2. \A x \in Finite : x - c \in Finite => Minus(x, c) = x - c
      BY FloatExact
    <3> DEFINE p == Plus(a, b)
    <3>3. p \in Finite /\ p - c \in Finite /\ p - c = a + b - c
      BY <3>1, Constants
    <3> HIDE DEF p
    <3>4. Minus(p, c) = p - c
      BY <3>2, <3>3
    <3>5. Minus(p, c) = a + b - c
      BY <3>3, <3>4
    <3> QED BY <3>5 DEF p
  <2>2. Minus(Plus(react, inte), brake) = drive
    <3> HIDE DEF react, inte, brake
    <3> QED BY <1>12, <2>1
  <2>3. Drive(pid, error, inte, input) = Minus(Plus(Times(pid["kp"], error), inte), Times(pid["kd"], Minus(input, pid["last_in"])))
    BY DEF Drive
  <2> HIDE DEF error, din, react, brake, inte, drive
  <2> QED BY <1>13, <1>14, <2>1, <2>2, <2>3
<1>17. Compute(pid, 0, DacMax, input) =
         [inte_acc |-> inte, last_in |-> input, output |-> Clamp(drive, 0, DacMax)]
  <2>1. Compute(pid, 0, DacMax, input) =
          [inte_acc |-> Clamp(Accumulated(pid, Minus(pid["setpoint"], input)), 0, DacMax), last_in |-> input,
           output |-> Clamp(Drive(pid, Minus(pid["setpoint"], input),
                                  Clamp(Accumulated(pid, Minus(pid["setpoint"], input)), 0, DacMax), input), 0, DacMax)]
    BY DEF Compute
  <2>2. inte = Clamp(sum, 0, DacMax)
    OBVIOUS
  <2> HIDE DEF error, sum, inte, drive
  <2> QED BY <1>13, <1>15, <1>16, <2>1, <2>2
<1> QED BY <1>9, <1>12, <1>17

\* A voltage in range has a code in range.
LEMMA CodeInRange ==
    ASSUME NEW v \in 0..DacMax
    PROVE  CodesOf(v) \subseteq 0..Codes
<1> DEFINE q == (v * Codes) \div DacMax
<1>1. v \in Nat /\ DacMax \in Nat /\ DacMax > 0 /\ Codes \in Nat /\ v <= DacMax
  BY CommandsAssumption, TempAssumption
<1>2. v * Codes \in Nat /\ v * Codes <= DacMax * Codes
  <2>1. DacMax - v \in Nat
    BY <1>1
  <2>2. (DacMax - v) * Codes \in Nat /\ v * Codes \in Nat
    BY <1>1, <2>1
  <2>3. (DacMax - v) * Codes = DacMax * Codes - v * Codes
    BY <1>1
  <2> QED BY <2>2, <2>3, <1>1
<1>3. q \in Nat /\ DacMax * q <= v * Codes
  BY <1>1, <1>2
<1>4. q <= Codes
  <2>1. SUFFICES ASSUME q > Codes PROVE FALSE
    BY <1>1, <1>3
  <2>2. q = Codes + 1 + (q - Codes - 1) /\ q - Codes - 1 \in Nat
    BY <1>1, <1>3, <2>1
  <2>3. DacMax * q = DacMax * Codes + DacMax + DacMax * (q - Codes - 1)
    BY <1>1, <1>3
  <2>4. DacMax * (q - Codes - 1) \in Nat
    BY <1>1, <2>2
  <2> QED BY <1>1, <1>2, <1>3, <2>3, <2>4
<1>5. v \notin {NaN, NegInf}
  BY <1>1, Constants
<1> QED BY <1>1, <1>3, <1>4, <1>5 DEF CodesOf

\* NaN is written as 0, so every float keeps the codes in range ...
LEMMA AnyGainCovers == Covers(Int, 0..DacMax \cup {NaN})
<1> DEFINE R == 0..DacMax \cup {NaN}
<1>1. /\ Temps \subseteq Int /\ R \subseteq Int /\ 0..DacMax \subseteq R
      /\ \A c \in Clients : \A p \in Allowed[c] : p[2] \in Int
  BY Constants, CommandsAssumption
<1>2. \A v \in R : CodesOf(v) \subseteq 0..Codes
  <2>1. CodesOf(NaN) \subseteq 0..Codes
    BY Constants DEF CodesOf
  <2> QED BY <2>1, CodeInRange
<1>3. ASSUME NEW pid \in Controllers(Int, R), NEW input \in Temps
      PROVE  LET new == Compute(pid, 0, DacMax, input)
             IN  new.inte_acc \in R /\ new.output \in R /\ new.last_in = input
  <2>1. pid \in [Members -> Int] /\ input \in Int
    BY Constants DEF Controllers
  <2> QED BY <2>1, AnySample
<1>4. Covers(Int, R)
  <2> HIDE DEF R
  <2> QED BY <1>1, <1>2, <1>3 DEF Covers
<1> QED BY <1>4

\* ... and settings that cannot overflow keep NaN out.
LEMMA ModerateCovers ==
    ASSUME NEW g \in Nat, Moderate(g)
    PROVE  Covers(-g..g, 0..DacMax)
<1> DEFINE V == -g..g
<1>1. /\ V \subseteq Int /\ {0, 1} \subseteq V /\ Temps \subseteq V /\ 0..DacMax \subseteq Int
      /\ \A c \in Clients : \A p \in Allowed[c] : p[2] \in V
  BY Constants DEF Moderate
<1>2. ASSUME NEW pid \in Controllers(V, 0..DacMax), NEW input \in Temps
      PROVE  LET new == Compute(pid, 0, DacMax, input)
             IN  new.inte_acc \in 0..DacMax /\ new.output \in 0..DacMax /\ new.last_in = input
  <2> DEFINE error == pid["setpoint"] - input
             sum   == pid["inte_acc"] + pid["ki"] * error
             inte  == Clamp(sum, 0, DacMax)
             drive == pid["kp"] * error + inte - pid["kd"] * (input - pid["last_in"])
  <2>1. input \in -g..g
    BY <1>1
  <2>2. /\ Compute(pid, 0, DacMax, input) =
              [inte_acc |-> inte, last_in |-> input, output |-> Clamp(drive, 0, DacMax)]
        /\ sum \in Finite /\ drive \in Finite
    BY <2>1, ModerateSample
  <2>3. inte \in 0..DacMax /\ Clamp(drive, 0, DacMax) \in 0..DacMax
    <3>1. \A n \in Finite : Clamp(n, 0, DacMax) \in 0..DacMax
      BY Constants, ClampInRange DEF Finite
    <3> HIDE DEF sum, drive
    <3> QED BY <2>2, <3>1
  <2> HIDE DEF inte, drive
  <2> QED BY <2>2, <2>3
<1> HIDE DEF V
<1> QED BY <1>1, <1>2, CodeInRange DEF Covers, V

-----------------------------------------------------------------------------
(* The commands. *)

\* A command's value is one of V, and not negative for a DAC value.
LEMMA Values ==
    ASSUME NoNegativeDac, NEW V, NEW R, Covers(V, R), NEW c \in Clients, NEW p \in Allowed[c]
    PROVE  p[2] \in V /\ (p[1] \in DOMAIN DacChannel => p[2] \in Nat)
<1>1. p[2] \in V /\ p[2] \in Int
  BY CommandsAssumption DEF Covers
<1> QED BY <1>1 DEF NoNegativeDac

\* The settings read and written for a PID command are settings.
LEMMA GroupOfFields ==
    ASSUME NEW f \in PidFields, NEW i \in 1..3
    PROVE  Group(f)[i] \in Fields
<1>1. PidGroup["ac"][i] \in PidFields /\ PidGroup["bd"][i] \in PidFields
  <2>1. i = 1 \/ i = 2 \/ i = 3
    OBVIOUS
  <2>2. DOMAIN PidGroup["ac"] = 1..3 /\ DOMAIN PidGroup["bd"] = 1..3
    BY DEF PidGroup
  <2> QED BY <2>2 DEF PidFields, Range
<1>2. \E ch \in Channels : f \in Range(PidGroup[ch])
  BY DEF Channels, PidFields
<1>3. Group(f) = PidGroup["ac"] \/ Group(f) = PidGroup["bd"]
  BY <1>2 DEF Group, Channels
<1> QED BY <1>1, <1>3 DEF Fields

LEMMA CommandKeepsInv ==
    ASSUME NoNegativeDac, NEW V, NEW R, Covers(V, R), Inv(V, R), NEW c \in Clients, ClientStep(c)
    PROVE  Inv(V, R)'
<1> DEFINE AllCommands == {<< >>} \cup UNION {Allowed[d] : d \in Clients}
<1>1. ThreadTyped(V, R)' /\ result' = result /\ out' = out /\ ctl' = ctl
  BY DEF ClientStep, threadVars, Inv, ThreadTyped
<1>2. \A d \in Clients : running[d] # << >> => running[d][2] \in V
  <2> SUFFICES ASSUME NEW d \in Clients, running[d] # << >> PROVE running[d][2] \in V
    OBVIOUS
  <2>1. PICK e \in Clients : running[d] \in Allowed[e]
    BY DEF Inv, BufTyped
  <2> QED BY <2>1, Values
<1>3. CASE \E p \in Allowed[c] : SetPlain(c, p[1], p[2])
  <2>1. PICK p \in Allowed[c] : SetPlain(c, p[1], p[2])
    BY <1>3
  <2>2. p[2] \in V
    BY Values
  <2> QED BY <1>1, <2>1, <2>2 DEF SetPlain, Write, Inv, FileTyped, BufTyped, Ranges
<1>4. CASE \E p \in Allowed[c] : PidBegin(c, p[1], p[2])
  <2>1. PICK p \in Allowed[c] : PidBegin(c, p[1], p[2])
    BY <1>4
  <2>2. <<p[1], p[2]>> \in AllCommands
    BY <2>1 DEF PidBegin
  <2> QED BY <1>1, <2>1, <2>2 DEF PidBegin, Inv, FileTyped, BufTyped, Ranges
<1>5. CASE \E p \in Allowed[c] : SetDac(c, p[1], p[2])
  <2>1. PICK p \in Allowed[c] : SetDac(c, p[1], p[2])
    BY <1>5
  <2>2. p[2] \in 0..DacMax
    BY <2>1, Values, CommandsAssumption DEF SetDac
  <2>3. dac' \in [Channels -> R]
    BY <2>1, <2>2 DEF Covers, SetDac, Inv, Ranges
  <2> QED BY <1>1, <2>1, <2>3 DEF SetDac, Inv, FileTyped, BufTyped, Ranges
<1>6. CASE \E p \in Allowed[c] : p[1] = "attenuation" /\ Attenuate(c, p[2])
  <2>1. PICK p \in Allowed[c] : p[1] = "attenuation" /\ Attenuate(c, p[2])
    BY <1>6
  <2>2. <<"attenuation", p[2]>> \in AllCommands
    BY <2>1 DEF Attenuate
  <2> QED BY <1>1, <2>1, <2>2 DEF Attenuate, Inv, FileTyped, BufTyped, Ranges
<1>7. CASE StoreAttenuation(c)
  <2>1. running[c][2] \in V
    BY <1>2, <1>7 DEF StoreAttenuation, Idle
  <2> QED BY <1>1, <1>7, <2>1 DEF StoreAttenuation, Write, Inv, FileTyped, BufTyped, Ranges
<1>8. CASE PidRead(c)
  <2>1. running[c][2] \in V
    BY <1>2, <1>8 DEF PidRead, Idle
  <2>2. \A f \in Fields : file[f] \in V
    BY DEF Inv, FileTyped
  <2>3. step[c] \in 1..3
    <3>1. step[c] \in 1..6 BY DEF Inv, BufTyped
    <3>2. step[c] <= 3 BY <1>8 DEF PidRead
    <3> QED BY <3>1, <3>2
  <2>4. Group(running[c][1])[step[c]] \in Fields
    <3>1. running[c][1] \in PidFields BY <1>8 DEF PidRead
    <3> QED BY <2>3, <3>1, GroupOfFields
  <2> DEFINE f == Group(running[c][1])[step[c]]
             v == IF f = running[c][1] THEN running[c][2] ELSE file[f]
  <2>5. v \in V
    BY <2>1, <2>2, <2>4
  <2>6. buf' = [buf EXCEPT ![c][step[c]] = v]
    BY <1>8 DEF PidRead
  <2>7. buf' \in [Clients -> [1..3 -> V]]
    <3> HIDE DEF v
    <3> QED BY <2>3, <2>5, <2>6 DEF Inv, BufTyped
  <2>8. step' \in [Clients -> 1..6]
    BY <1>8, <2>3 DEF PidRead, Inv, BufTyped
  <2> QED BY <1>1, <1>8, <2>7, <2>8 DEF PidRead, Inv, FileTyped, BufTyped, Ranges
<1>9. CASE PidWrite(c)
  <2>1. step[c] - 3 \in 1..3
    <3>1. step[c] \in 1..6 BY DEF Inv, BufTyped
    <3>2. step[c] > 3 BY <1>9 DEF PidWrite
    <3> QED BY <3>1, <3>2
  <2>2. buf[c][step[c] - 3] \in V
    BY <2>1 DEF Inv, BufTyped
  <2>3. file' \in [Fields -> V]
    BY <1>9, <2>2 DEF PidWrite, Write, Inv, FileTyped
  <2>4. step' \in [Clients -> 1..6] /\ running' \in [Clients -> AllCommands]
    <3>1. step \in [Clients -> 1..6] /\ running \in [Clients -> AllCommands]
      BY DEF Inv, BufTyped
    <3>2. CASE step[c] < 6
      <4>1. step' = [step EXCEPT ![c] = step[c] + 1] /\ running' = running
        BY <1>9, <3>2 DEF PidWrite
      <4> QED BY <2>1, <3>1, <3>2, <4>1
    <3>3. CASE ~(step[c] < 6)
      <4>1. step' = [step EXCEPT ![c] = 1] /\ running' = [running EXCEPT ![c] = << >>]
        BY <1>9, <3>3 DEF PidWrite
      <4> QED BY <3>1, <4>1
    <3> QED BY <3>2, <3>3
  <2> QED BY <1>1, <1>9, <2>3, <2>4 DEF PidWrite, Inv, FileTyped, BufTyped, Ranges
<1> QED BY <1>3, <1>4, <1>5, <1>6, <1>7, <1>8, <1>9 DEF ClientStep, Command

-----------------------------------------------------------------------------
(* The thread. *)

\* Every read changes one member that is a gain or a set point.
LEMMA ReadListTyped ==
    ASSUME NEW i \in 1..8
    PROVE  /\ ReadList[i][1] \in Channels
           /\ ReadList[i][2] \in Members \ {"inte_acc"}
           /\ ReadList[i][3] \in Fields
<1>1. \/ i = 1 \/ i = 2 \/ i = 3 \/ i = 4 \/ i = 5 \/ i = 6 \/ i = 7 \/ i = 8
  OBVIOUS
<1>2. Range(PidGroup["ac"]) = {"pid_ac_kc", "pid_ac_ti", "pid_ac_td"}
  BY DEF PidGroup, Range
<1>3. Range(PidGroup["bd"]) = {"pid_bd_kc", "pid_bd_ti", "pid_bd_td"}
  BY DEF PidGroup, Range
<1>4. Range(Setpoint) = {"pid_ac_set_point", "pid_bd_set_point"}
  BY DEF Setpoint, Range
<1>5. {"pid_ac_kc", "pid_ac_ti", "pid_ac_td", "pid_bd_kc", "pid_bd_ti", "pid_bd_td",
       "pid_ac_set_point", "pid_bd_set_point"} \subseteq Fields
  BY <1>2, <1>3, <1>4 DEF Fields, PidFields, PlainFields
<1> QED BY <1>1, <1>5 DEF ReadList, Channels, Members

LEMMA ThreadKeepsInv ==
    ASSUME NEW V, NEW R, Covers(V, R), Inv(V, R), Thread
    PROVE  Inv(V, R)'
<1>1. CASE ReadMode
  BY <1>1 DEF ReadMode, commandVars, Inv, FileTyped, BufTyped, ThreadTyped, Ranges
<1>2. CASE ReadParameter
  <2> DEFINE r == ReadList[reads + 1]
  <2>1. reads + 1 \in 1..8
    BY <1>2 DEF ReadParameter, Inv, ThreadTyped
  <2>2. r[1] \in Channels /\ r[2] \in Members /\ r[2] # "inte_acc" /\ file[r[3]] \in V
    BY <2>1, ReadListTyped DEF Inv, FileTyped
  <2>3. ctl' = [ctl EXCEPT ![r[1]][r[2]] = file[r[3]]] /\ reads' = reads + 1
    BY <1>2 DEF ReadParameter
  <2>4. ctl' \in [Channels -> Controllers(V, R)]
    <3>1. ASSUME NEW ch \in Channels, NEW m \in Members \ {"inte_acc"}, NEW v \in V
          PROVE  [ctl[ch] EXCEPT ![m] = v] \in Controllers(V, R)
      BY DEF Controllers, Members, Inv, ThreadTyped, Covers
    <3>2. ctl' = [ctl EXCEPT ![r[1]] = [ctl[r[1]] EXCEPT ![r[2]] = file[r[3]]]]
      BY <2>3
    <3> HIDE DEF r
    <3> QED BY <2>2, <3>1, <3>2 DEF Inv, ThreadTyped
  <2>6. reads' \in Nat /\ (pc' = "read" => reads' < 8)
    <3>1. Len(ReadList) = 8
      BY DEF ReadList
    <3>2. pc' = "read" => reads' # 8
      BY <1>2, <3>1 DEF ReadParameter
    <3> QED BY <2>1, <2>3, <3>2
  <2> QED BY <1>2, <2>4, <2>6
          DEF ReadParameter, commandVars, Inv, FileTyped, BufTyped, ThreadTyped, Ranges
<1>3. CASE ComputeBoth
  <2>1. PICK t \in [Channels -> Temps] :
           /\ ctl' = [ch \in Channels |->
                        [ctl[ch] EXCEPT !["inte_acc"] = Compute(ctl[ch], 0, DacMax, t[ch]).inte_acc,
                                        !["last_in"] = Compute(ctl[ch], 0, DacMax, t[ch]).last_in]]
           /\ result' = [ch \in Channels |-> Compute(ctl[ch], 0, DacMax, t[ch]).output]
    BY <1>3 DEF ComputeBoth
  <2>2. ASSUME NEW ch \in Channels
        PROVE  LET new == Compute(ctl[ch], 0, DacMax, t[ch])
               IN  /\ [ctl[ch] EXCEPT !["inte_acc"] = new.inte_acc, !["last_in"] = new.last_in]
                         \in Controllers(V, R)
                   /\ new.output \in R
    <3> DEFINE new == Compute(ctl[ch], 0, DacMax, t[ch])
    <3>1. ctl[ch] \in Controllers(V, R) /\ t[ch] \in Temps
      BY DEF Inv, ThreadTyped
    <3>2. /\ new.inte_acc \in R /\ new.output \in R /\ new.last_in \in V
          /\ new.inte_acc \in Int /\ new.last_in \in Int
      BY <3>1 DEF Covers
    <3> HIDE DEF new
    <3>3. [ctl[ch] EXCEPT !["inte_acc"] = new.inte_acc, !["last_in"] = new.last_in]
             \in Controllers(V, R)
      BY <3>1, <3>2 DEF Controllers, Members
    <3> QED BY <3>2, <3>3 DEF new
  <2>4. result' \in [Channels -> R]
    BY <2>1, <2>2
  <2>5. ctl' \in [Channels -> Controllers(V, R)]
    BY <2>1, <2>2
  <2> QED BY <1>3, <2>4, <2>5
          DEF ComputeBoth, commandVars, Inv, FileTyped, BufTyped, ThreadTyped, Ranges
<1>4. CASE Store("ac", "store_ac", "store_bd") \/ Store("bd", "store_bd", "write_ac")
  BY <1>4 DEF Store, Channels, Inv, FileTyped, BufTyped, ThreadTyped, Ranges
<1>5. ASSUME NEW ch \in Channels, NEW here, NEW next, WriteDac(ch, here, next), next # "read"
      PROVE  Inv(V, R)'
  <2>1. dac[ch] \in R /\ CodesOf(dac[ch]) \subseteq 0..Codes
    BY DEF Inv, Ranges, Covers
  <2>2. PICK code \in CodesOf(dac[ch]) : out' = [out EXCEPT ![ch] = code]
    BY <1>5 DEF WriteDac
  <2>3. out' \in [Channels -> 0..Codes]
    BY <2>1, <2>2 DEF Inv, Ranges
  <2> QED BY <1>5, <2>3
          DEF WriteDac, commandVars, Inv, FileTyped, BufTyped, ThreadTyped, Ranges
<1> QED BY <1>1, <1>2, <1>3, <1>4, <1>5 DEF Thread, Channels

LEMMA RestartKeepsInv ==
    ASSUME NEW V, NEW R, Covers(V, R), Inv(V, R), RestartAll
    PROVE  Inv(V, R)'
<1>1. 0 \in R /\ 0 \in V
  BY Constants DEF Covers
<1>2. /\ file' = file /\ dac' = [ch \in Channels |-> 0] /\ out' = out
      /\ running' = [c \in Clients |-> << >>]
      /\ step' = [c \in Clients |-> 1] /\ buf' = [c \in Clients |-> [i \in 1..3 |-> 0]]
      /\ reads' = 0 /\ ctl' = [ch \in Channels |-> NewController]
      /\ result' = [ch \in Channels |-> 0]
  BY DEF RestartAll, Restart, ThreadsGone, ThreadRestart
<1>3. NewController \in Controllers(V, R)
  BY <1>1 DEF NewController, Members, Controllers
<1>4. FileTyped(V)' /\ BufTyped(V)'
  BY <1>1, <1>2 DEF Inv, FileTyped, BufTyped
<1> QED BY <1>1, <1>2, <1>3, <1>4 DEF Inv, ThreadTyped, Ranges

-----------------------------------------------------------------------------

LEMMA InitInv ==
    ASSUME NEW V, NEW R, Covers(V, R)
    PROVE  TempInit => Inv(V, R)
<1> SUFFICES ASSUME TempInit PROVE Inv(V, R)
  OBVIOUS
<1>1. 0 \in R /\ 0 \in V /\ 1 \in V /\ Codes \in Nat
  BY Constants DEF Covers
<1>2. NewController \in Controllers(V, R)
  BY <1>1 DEF NewController, Members, Controllers
<1>3. FileTyped(V) /\ BufTyped(V)
  BY <1>1 DEF TempInit, Init, FileTyped, BufTyped
<1>4. ThreadTyped(V, R) /\ Ranges(R)
  BY <1>1, <1>2 DEF TempInit, Init, ThreadInit, ThreadTyped, Ranges
<1> QED BY <1>3, <1>4 DEF Inv

LEMMA StepKeepsInv ==
    ASSUME NoNegativeDac, NEW V, NEW R, Covers(V, R)
    PROVE  Inv(V, R) /\ [TempNext]_vars => Inv(V, R)'
<1>1. Inv(V, R) /\ TempNext => Inv(V, R)'
  BY ThreadKeepsInv, RestartKeepsInv, CommandKeepsInv DEF TempNext
<1>2. Inv(V, R) /\ UNCHANGED vars => Inv(V, R)'
  BY DEF vars, commandVars, threadVars, Inv, FileTyped, BufTyped, ThreadTyped, Ranges
<1> QED BY <1>1, <1>2

\* With temperatures and parameters that cannot overflow, neither a heater's
\* voltage, nor the code the DAC gets, nor an integrator ever leaves its range,
\* whoever changes which parameter in the middle of a round.
THEOREM HeatersInRange ==
    ASSUME NoNegativeDac, NEW g \in Nat, Moderate(g)
    PROVE  TempSpec => []OutputsInRange
<1> DEFINE I == Inv(-g..g, 0..DacMax)
<1>1. I => OutputsInRange
  BY DEF Inv, Ranges, ThreadTyped, Controllers, OutputsInRange
<1>2. TempInit => I
  BY ModerateCovers, InitInv
<1>3. I /\ [TempNext]_vars => I'
  BY ModerateCovers, StepKeepsInv
<1> QED BY <1>1, <1>2, <1>3, PTL DEF TempSpec

\* A voltage in the heater's range, or the NaN that an infinite gain leaves.
InRangeOrNaN ==
    \A ch \in Channels :
        /\ dac[ch] \in 0..DacMax \cup {NaN} /\ out[ch] \in 0..Codes
        /\ ctl[ch].inte_acc \in 0..DacMax \cup {NaN}

\* Whatever values the clients set, infinite ones included, the two clamps of
\* pid_compute let nothing but NaN through, and no code exceeds the DAC's range.
THEOREM OnlyNaNPassesTheClamps ==
    ASSUME NoNegativeDac
    PROVE  TempSpec => []InRangeOrNaN
<1> DEFINE I == Inv(Int, 0..DacMax \cup {NaN})
<1>1. I => InRangeOrNaN
  BY DEF Inv, Ranges, ThreadTyped, Controllers, InRangeOrNaN
<1>2. TempInit => I
  BY AnyGainCovers, InitInv
<1>3. I /\ [TempNext]_vars => I'
  BY AnyGainCovers, StepKeepsInv
<1> QED BY <1>1, <1>2, <1>3, PTL DEF TempSpec

-----------------------------------------------------------------------------
(* What one round does to a warm front end. *)

\* A sample above the set point lowers the integrator until it is 0, and with
\* the integrator at 0 a controller without derivative part puts out 0.
LEMMA WarmSample ==
    ASSUME NEW g \in Nat, Moderate(g),
           NEW pid \in Controllers(-g..g, 0..DacMax), NEW input \in -g..g,
           pid["setpoint"] < input, pid["ki"] > 0
    PROVE  LET new == Compute(pid, 0, DacMax, input)
           IN  /\ new.inte_acc = 0 \/ new.inte_acc < pid["inte_acc"]
               /\ new.inte_acc = 0 /\ pid["kp"] >= 0 /\ pid["kd"] = 0 => new.output = 0
<1> DEFINE error == pid["setpoint"] - input
           drop  == pid["ki"] * error
           inte  == Clamp(pid["inte_acc"] + drop, 0, DacMax)
           react == pid["kp"] * error
           brake == pid["kd"] * (input - pid["last_in"])
           drive == react + inte - brake
<1>1. /\ pid["setpoint"] \in Int /\ pid["inte_acc"] \in 0..DacMax /\ pid["ki"] \in Int
      /\ pid["kp"] \in Int /\ pid["kd"] \in Int /\ pid["last_in"] \in Int
  BY DEF Controllers, Members
<1>2. error \in Int /\ error < 0 /\ -error \in Nat
  BY <1>1
<1>3. \A a, b \in Int : a >= 0 /\ b < 0 => a * b \in Int /\ a * b <= 0 /\ (a > 0 => a * b < 0)
  OBVIOUS
<1>4. drop \in Int /\ drop < 0
  <2> HIDE DEF error
  <2> QED BY <1>1, <1>2, <1>3
<1>5. /\ Compute(pid, 0, DacMax, input) =
            [inte_acc |-> inte, last_in |-> input, output |-> Clamp(drive, 0, DacMax)]
      /\ pid["inte_acc"] + drop \in Finite /\ drive \in Finite
  BY ModerateSample
<1>6. \A n \in Finite : n \in Int /\ n # NaN
  BY Constants DEF Finite
<1>7. inte = 0 \/ inte < pid["inte_acc"]
  <2> DEFINE sum == pid["inte_acc"] + drop
  <2>1. sum \in Int /\ sum # NaN /\ sum < pid["inte_acc"]
    <3> HIDE DEF drop
    <3> QED BY <1>1, <1>4, <1>5, <1>6
  <2> HIDE DEF sum
  <2>2. Clamp(sum, 0, DacMax) = 0 \/ Clamp(sum, 0, DacMax) <= sum
    BY <2>1, ClampInRange
  <2>3. Clamp(sum, 0, DacMax) \in 0..DacMax
    BY <2>1, ClampInRange
  <2>4. Clamp(sum, 0, DacMax) = 0 \/ Clamp(sum, 0, DacMax) < pid["inte_acc"]
    BY <1>1, <2>1, <2>2, <2>3
  <2> QED BY <2>4 DEF sum
<1>8. ASSUME inte = 0, pid["kp"] >= 0, pid["kd"] = 0
      PROVE  Clamp(drive, 0, DacMax) = 0
  <2>1. react \in Int /\ react <= 0
    <3> HIDE DEF error
    <3> QED BY <1>1, <1>2, <1>3, <1>8
  <2>2. brake = 0
    BY <1>1, <1>8
  <2>3. drive \in Int /\ drive <= 0
    <3> HIDE DEF react, brake, inte
    <3> QED BY <1>8, <2>1, <2>2
  <2> HIDE DEF drive
  <2> QED BY <1>5, <1>6, <2>3, ClampInRange
<1> HIDE DEF inte, drive
<1> QED BY <1>5, <1>7, <1>8

\* The round computes from a temperature above the channel's set point.
Warm(ch) == ctl[ch]["setpoint"] < ctl'[ch]["last_in"] /\ ctl[ch]["ki"] > 0

\* In a round that finds a front end warm the integrator falls, or is 0, and then
\* the result is no heating: the step that HotMeansOff repeats (pid.c:48-72).
WarmIsTurnedDown ==
    ComputeBoth => \A ch \in Channels : Warm(ch) =>
        /\ ctl'[ch]["inte_acc"] = 0 \/ ctl'[ch]["inte_acc"] < ctl[ch]["inte_acc"]
        /\ ctl'[ch]["inte_acc"] = 0 /\ ctl[ch]["kp"] >= 0 /\ ctl[ch]["kd"] = 0 => result'[ch] = 0

LEMMA WarmRound ==
    ASSUME NEW g \in Nat, Moderate(g), Inv(-g..g, 0..DacMax)
    PROVE  WarmIsTurnedDown
<1> SUFFICES ASSUME ComputeBoth, NEW ch \in Channels, Warm(ch)
             PROVE  /\ ctl'[ch]["inte_acc"] = 0 \/ ctl'[ch]["inte_acc"] < ctl[ch]["inte_acc"]
                    /\ ctl'[ch]["inte_acc"] = 0 /\ ctl[ch]["kp"] >= 0 /\ ctl[ch]["kd"] = 0 => result'[ch] = 0
  BY DEF WarmIsTurnedDown
<1>1. PICK t \in [Channels -> Temps] :
        LET new == [c \in Channels |-> Compute(ctl[c], 0, DacMax, t[c])]
        IN  /\ ctl' = [c \in Channels |->
                         [ctl[c] EXCEPT !.inte_acc = new[c].inte_acc, !.last_in = new[c].last_in]]
            /\ result' = [c \in Channels |-> new[c].output]
  BY DEF ComputeBoth
<1>2. ctl[ch] \in Controllers(-g..g, 0..DacMax) /\ t[ch] \in Temps /\ t[ch] \in -g..g
  BY DEF Inv, ThreadTyped, Moderate
<1> DEFINE new == Compute(ctl[ch], 0, DacMax, t[ch])
<1>3. new.last_in = t[ch]
  BY <1>2, ModerateCovers DEF Covers
<1>4. /\ ctl'[ch]["inte_acc"] = new.inte_acc /\ ctl'[ch]["last_in"] = new.last_in
      /\ result'[ch] = new.output
  BY <1>1, <1>2 DEF Members, Controllers
<1>5. ctl[ch]["setpoint"] < t[ch] /\ ctl[ch]["ki"] > 0
  BY <1>3, <1>4 DEF Warm
<1> QED BY <1>2, <1>4, <1>5, WarmSample

\* Whoever changes which parameter meanwhile, every round that measures more than
\* the set point it has read turns the heater down, until it is off, with
\* temperatures and parameters that cannot overflow.
THEOREM WarmFrontEndIsTurnedDown ==
    ASSUME NoNegativeDac, NEW g \in Nat, Moderate(g)
    PROVE  TempSpec => [][WarmIsTurnedDown]_vars
<1> DEFINE I == Inv(-g..g, 0..DacMax)
<1>1. I /\ [TempNext]_vars => [WarmIsTurnedDown]_vars
  BY WarmRound
<1>2. TempInit => I
  BY ModerateCovers, InitInv
<1>3. I /\ [TempNext]_vars => I'
  BY ModerateCovers, StepKeepsInv
<1> QED BY <1>1, <1>2, <1>3, PTL DEF TempSpec
=============================================================================
