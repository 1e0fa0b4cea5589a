--------------------------- MODULE AutoGainProofs ---------------------------
(***************************************************************************)
(* Proofs about AutoGain, for any number of lines and any order of frames, *)
(* and about the regular sweep of AutoGainSweep.                           *)
(***************************************************************************)
EXTENDS AutoGainSweep, TLAPS

\* A remainder lies below its divisor.
LEMMA ModType ==
    ASSUME NEW a \in Int, NEW n \in Nat, n > 0
    PROVE  a % n \in 0..n - 1
OBVIOUS

\* A quotient of natural numbers is one.
LEMMA DivType ==
    ASSUME NEW a \in Nat, NEW n \in Nat, n > 0
    PROVE  a \div n \in Nat
OBVIOUS

\* One weakening keeps the gain within the limits.
LEMMA WeakenedRange ==
    ASSUME NEW g \in MinimalGain..NominalGain
    PROVE  Weakened(g) \in MinimalGain..NominalGain
BY AutoGainAssumption DEF AutoGainAssumption, Weakened, MinimalGain, NominalGain

\* A frame of any line, saturated or not, keeps the types of the table.
LEMMA FillingType ==
    ASSUME TypeOK, NEW line \in Nat, NEW saturated \in BOOLEAN,
           Filling(line, saturated)
    PROVE  /\ counter_repetition' \in [Index -> 0..CounterMod - 1]
           /\ flag_cgange' \in [Index -> BOOLEAN]
           /\ curent_gain' \in [Index -> MinimalGain..NominalGain]
<1> DEFINE marked == Marked(line, saturated)
           count == [l \in Index |-> IF l \in marked
                                     THEN (counter_repetition[l] + 1) % CounterMod
                                     ELSE counter_repetition[l]]
           flag == [l \in Index |-> flag_cgange[l] \/ l \in marked]
           gain == [l \in Index |-> IF l \in marked /\ count[l] > Permissible
                                    THEN Weakened(curent_gain[l])
                                    ELSE curent_gain[l]]
           b == Boundary(line)
<1>1. /\ counter_repetition' = [count EXCEPT ![b] = IF flag[b] THEN @ ELSE 0]
      /\ curent_gain' = [gain EXCEPT ![b] = IF flag[b] THEN @ ELSE NominalGain]
      /\ flag_cgange' = [flag EXCEPT ![b] = FALSE]
  BY DEF Filling
<1>2. b \in Index
  BY ModType, AutoGainAssumption DEF Boundary, AutoGainAssumption, Index
<1>3. count \in [Index -> 0..CounterMod - 1] /\ 0 \in 0..CounterMod - 1
  <2>1. ASSUME NEW l \in Index PROVE count[l] \in 0..CounterMod - 1
    BY ModType, AutoGainAssumption DEF TypeOK, AutoGainAssumption
  <2> QED BY <2>1, AutoGainAssumption DEF AutoGainAssumption
<1>4. gain \in [Index -> MinimalGain..NominalGain]
  BY WeakenedRange DEF TypeOK
<1>5. NominalGain \in MinimalGain..NominalGain
  BY DEF NominalGain, MinimalGain
<1>6. flag \in [Index -> BOOLEAN]
  OBVIOUS
<1> HIDE DEF count, flag, gain, b
<1> QED BY <1>1, <1>2, <1>3, <1>4, <1>5, <1>6

\* A frame of any azimuth keeps the types.
LEMMA TypeFrame ==
    ASSUME TypeOK, NEW azimuth \in Nat, NEW saturated \in BOOLEAN,
           auto_gain_control(azimuth, saturated)
    PROVE  TypeOK'
<1> DEFINE line == LineOf(azimuth)
<1>1. line \in Nat
  BY DivType, AutoGainAssumption DEF LineOf, AutoGainAssumption
<1>2. /\ counter_repetition' \in [Index -> 0..CounterMod - 1]
      /\ flag_cgange' \in [Index -> BOOLEAN]
      /\ curent_gain' \in [Index -> MinimalGain..NominalGain]
  BY <1>1, FillingType DEF auto_gain_control
<1>3. (line + 1) % Lines \in Index
  BY <1>1, ModType, AutoGainAssumption DEF AutoGainAssumption, Index
<1>4. curent_gain'[(line + 1) % Lines] \in MinimalGain..NominalGain
  BY <1>2, <1>3
<1>5. MinimalGain..NominalGain \subseteq 1..127
  BY DEF MinimalGain, NominalGain
<1>6. /\ old_gain_value' \in MinimalGain..NominalGain
      /\ pl' \in 1..127
  BY <1>4, <1>5 DEF auto_gain_control, Update, TypeOK
<1>7. active' \in BOOLEAN /\ line_index' \in Nat
  BY <1>1 DEF auto_gain_control, Update, TypeOK
<1> QED BY <1>2, <1>6, <1>7 DEF TypeOK

\* Frames and commands keep the types.
LEMMA TypeNext == TypeOK /\ [Next]_vars => TypeOK'
<1> SUFFICES ASSUME TypeOK, [Next]_vars PROVE TypeOK'
  OBVIOUS
<1>1. ASSUME NEW azimuth \in Azimuths, NEW saturated \in BOOLEAN,
             auto_gain_control(azimuth, saturated)
      PROVE  TypeOK'
  <2>1. azimuth \in Nat
    BY AutoGainAssumption DEF AutoGainAssumption
  <2> QED BY <1>1, <2>1, TypeFrame
<1>2. CASE AutoGainOn
  BY <1>2 DEF AutoGainOn, TypeOK, table, NominalGain
<1>3. ASSUME NEW v \in ManualGains, ManualGain(v)
      PROVE  TypeOK'
  <2>1. v \in 1..127
    BY AutoGainAssumption DEF AutoGainAssumption
  <2> QED BY <1>3, <2>1 DEF ManualGain, TypeOK, table
<1>4. CASE UNCHANGED vars
  BY <1>4 DEF vars, table, TypeOK
<1> QED BY <1>1, <1>2, <1>3, <1>4 DEF Next, Commands

\* The types hold at the start.
LEMMA TypeInit == Init => TypeOK
<1> SUFFICES ASSUME Init PROVE TypeOK
  OBVIOUS
<1>1. 0 \in 0..CounterMod - 1
  BY AutoGainAssumption DEF AutoGainAssumption
<1>2. NominalGain \in MinimalGain..NominalGain /\ NominalGain \in 1..127
  BY DEF NominalGain, MinimalGain
<1>3. /\ counter_repetition \in [Index -> 0..CounterMod - 1]
      /\ flag_cgange \in [Index -> BOOLEAN]
      /\ curent_gain \in [Index -> MinimalGain..NominalGain]
  BY <1>1, <1>2 DEF Init
<1> QED BY <1>2, <1>3 DEF Init, TypeOK

\* No frame order, number of lines or zone drives a gain out of
\* MINIMAL_GAIN_VALUE..127 or the repetition counter out of its byte.
THEOREM GainBounded == Spec => []TypeOK
BY TypeInit, TypeNext, PTL DEF Spec

\* The strengthening: what gain control remembers is the gain of the line to
\* come, and only the nominal gain may have been written over it.
LogicInv ==
    /\ old_gain_value = curent_gain[(line_index + 1) % Lines]
    /\ active => pl \in {old_gain_value, NominalGain}

\* The table is nominal, whichever line comes first.
LEMMA LogicInit == Init => LogicInv
<1> SUFFICES ASSUME Init PROVE LogicInv
  OBVIOUS
<1>1. (line_index + 1) % Lines \in Index
  BY ModType, AutoGainAssumption DEF Init, AutoGainAssumption, Index
<1> QED BY <1>1 DEF Init, LogicInv

\* A frame of any azimuth serves the line that follows it.
LEMMA LogicFrame ==
    ASSUME LogicInv, NEW azimuth, NEW saturated, auto_gain_control(azimuth, saturated)
    PROVE  LogicInv'
<1>1. PICK gain : gain = curent_gain'[(line_index' + 1) % Lines]
  OBVIOUS
<1>2. Update(gain) /\ active' = active
  BY <1>1 DEF auto_gain_control
<1>3. old_gain_value' = gain
  BY <1>2 DEF Update
<1>4. active => pl' \in {gain, NominalGain}
  BY <1>2 DEF Update, LogicInv
<1> QED BY <1>1, <1>2, <1>3, <1>4 DEF LogicInv

\* A command leaves an operator's amplitude only while gain control is suspended.
LEMMA LogicCommand == ASSUME LogicInv, Commands PROVE LogicInv'
<1>1. CASE AutoGainOn
  BY <1>1 DEF LogicInv, AutoGainOn, table
<1>2. ASSUME NEW v \in ManualGains, ManualGain(v) PROVE LogicInv'
  BY <1>2 DEF LogicInv, ManualGain, table
<1> QED BY <1>1, <1>2 DEF Commands

\* Frames and commands in any order keep it.
LEMMA LogicNext == LogicInv /\ [Next]_vars => LogicInv'
<1>1. UNCHANGED vars /\ LogicInv => LogicInv'
  BY DEF vars, table, LogicInv
<1> QED BY <1>1, LogicFrame, LogicCommand DEF Next

\* While gain control is active the logic has the gain of the line to come or
\* the nominal one, for every order of frames and commands, the azimuths beyond
\* the table included.
THEOREM LogicServed == Spec => []LogicServesNextLine
<1>1. LogicInv => LogicServesNextLine
  BY DEF LogicInv, LogicServesNextLine
<1> QED BY <1>1, LogicInit, LogicNext, PTL DEF Spec

-----------------------------------------------------------------------------
(***************************************************************************)
(* The regular sweep.  For each line, Age is the number of frames since it *)
(* was cleaned; the invariant describes its row of the table by the frames *)
(* of the history, seen from that moment: the flag by the frames of the    *)
(* zone since then, counter and gain by the revolutions before.            *)
(***************************************************************************)

\* Remainders that the modules need: of numbers below three times the divisor.
LEMMA ModSmall ==
    ASSUME NEW n \in Nat, NEW a \in 0..3 * n - 1
    PROVE  a % n = IF a < n THEN a ELSE IF a < 2 * n THEN a - n ELSE a - 2 * n
<1>1. a < n => a % n = a
  OBVIOUS
<1>2. n <= a /\ a < 2 * n => a % n = a - n
  OBVIOUS
<1>3. 2 * n <= a => a % n = a - 2 * n
  OBVIOUS
<1> QED BY <1>1, <1>2, <1>3

\* The line of a frame is read back from its azimuth.
LEMMA DivExact ==
    ASSUME NEW n \in Nat \ {0}, NEW a \in Nat
    PROVE  (a * n) \div n = a
OBVIOUS

\* A product grows with its factor, and by one factor at a time.
LEMMA Products ==
    ASSUME NEW d \in Nat, NEW a \in Int, NEW b \in Int
    PROVE  /\ a <= b => d * a <= d * b /\ a * d <= b * d
           /\ d * (a + 1) = d * a + d
           /\ (a + 1) * d = a * d + d
OBVIOUS

\* A frame is put in front of the history and the oldest one dropped.
LEMMA Shift ==
    ASSUME NEW h \in Seq(BOOLEAN), NEW s \in BOOLEAN, Len(h) >= 1
    PROVE  LET r == <<s>> \o SubSeq(h, 1, Len(h) - 1)
           IN  /\ r \in Seq(BOOLEAN) /\ Len(r) = Len(h)
               /\ r[1] = s /\ \A x \in 2..Len(h) : r[x] = h[x - 1]
OBVIOUS

AgeAt(line, l) ==
    LET d == line - l - Zone - 1
    IN  IF d >= 0 THEN d ELSE IF d + Lines >= 0 THEN d + Lines ELSE d + 2 * Lines
Age(l) == AgeAt(line_index, l)

\* The history covers the zone of the line, j revolutions before its cleaning.
InReach(l, j) == Age(l) + j * Lines + 2 * Zone + 2 <= HistoryLength

Since(l, j) == \E i \in 2..2 * Zone + 2 : history[Age(l) + j * Lines + i] = TRUE

\* The flag: a saturated frame in the part of the zone passed since the cleaning.
Passing(l) ==
    flag_cgange[l] = TRUE <=>
        \E i \in 1..Age(l) + 2 * Zone + 2 - Lines : history[i] = TRUE

\* The zone saturated in exactly k revolutions in a row, as far as one can see.
Streak(l, k) ==
    \A j \in Nat : InReach(l, j) =>
        (j < k => Since(l, j)) /\ (j = k => ~Since(l, j))

\* Counter and gain after n revolutions; the counter is not known once it wraps.
Counted(l, n) ==
    /\ n < CounterMod => counter_repetition[l] = n
    /\ curent_gain[l] = ReferenceGain(n)

LineInv(l) ==
    /\ Passing(l)
    /\ \E k \in Nat : /\ Streak(l, k)
                       /\ Counted(l, IF flag_cgange[l] = TRUE THEN k + 1 ELSE k)

SweepInv ==
    history # <<>> =>
        /\ history \in Seq(BOOLEAN) /\ Len(history) = HistoryLength
        /\ line_index \in Index
        /\ \A l \in Index : LineInv(l)

\* What the assumptions say, linearly.
LEMMA Sizes ==
    /\ Lines \in Nat /\ Zone \in Nat /\ Lines >= 2 * Zone + 2
    /\ Revolutions \in Nat /\ Revolutions >= 1
    /\ HistoryLength \in Nat /\ HistoryLength >= Lines
    /\ HistoryLength = (Revolutions - 1) * Lines + Lines
<1>1. /\ Lines \in Nat /\ Zone \in Nat /\ Lines >= 2 * Zone + 2
      /\ Decrement \in Nat /\ Permissible \in Nat /\ Revolutions \in Nat
  BY AutoGainAssumption, SweepAssumption DEF AutoGainAssumption, SweepAssumption
<1>2. Decrement * (Revolutions - Permissible) >= 27
  BY <1>1, SweepAssumption DEF SweepAssumption, NominalGain, MinimalGain
<1>3. Decrement * 0 = 0
  BY <1>1
<1>4. Revolutions - Permissible > 0
  <2>1. Revolutions - Permissible <= 0 => Decrement * (Revolutions - Permissible) <= Decrement * 0
    BY <1>1, Products
  <2> QED BY <1>1, <1>2, <1>3, <2>1
<1>5. Revolutions * Lines = (Revolutions - 1) * Lines + Lines
  BY <1>1, Products
<1>6. (Revolutions - 1) * Lines \in Nat
  <2>1. 0 * Lines <= (Revolutions - 1) * Lines
    BY <1>1, <1>4, Products
  <2>2. 0 * Lines = 0
    BY <1>1
  <2> QED BY <1>1, <2>1, <2>2
<1> QED BY <1>1, <1>4, <1>5, <1>6 DEF HistoryLength

\* One more saturated revolution beyond the permissible number weakens the gain.
LEMMA GainSteps ==
    ASSUME NEW n \in Nat
    PROVE  ReferenceGain(n + 1) = IF n + 1 > Permissible THEN Weakened(ReferenceGain(n))
                                  ELSE ReferenceGain(n)
<1>1. Decrement \in Nat /\ Permissible \in Nat
  BY AutoGainAssumption DEF AutoGainAssumption
<1> DEFINE x == Decrement * (n - Permissible)
           y == Decrement * (n + 1 - Permissible)
<1>2. x \in Int /\ y \in Int
  BY <1>1
<1>3. y = x + Decrement
  <2>1. Decrement * ((n - Permissible) + 1) = Decrement * (n - Permissible) + Decrement
    BY <1>1, Products
  <2>2. n + 1 - Permissible = (n - Permissible) + 1
    BY <1>1
  <2> QED BY <2>1, <2>2
<1>4. n = Permissible => x = 0
  BY <1>1
<1>5. ReferenceGain(n) = IF n <= Permissible THEN 127
                         ELSE IF 127 - x < 100 THEN 100 ELSE 127 - x
  BY SMT DEF ReferenceGain, NominalGain, MinimalGain
<1>6. ReferenceGain(n + 1) = IF n + 1 <= Permissible THEN 127
                             ELSE IF 127 - y < 100 THEN 100 ELSE 127 - y
  BY <1>1, SMT DEF ReferenceGain, NominalGain, MinimalGain
<1> HIDE DEF x, y
<1> QED BY <1>1, <1>2, <1>3, <1>4, <1>5, <1>6 DEF Weakened, MinimalGain

\* The gain has reached its minimum when the history ends or the counter wraps.
LEMMA GainFloor ==
    ASSUME NEW n \in Nat, n >= Revolutions \/ n >= CounterMod - 1
    PROVE  ReferenceGain(n) = MinimalGain
<1>1. /\ Decrement \in Nat /\ Permissible \in Nat /\ CounterMod \in Nat
      /\ Revolutions \in Nat
      /\ 127 - Decrement * (Revolutions - Permissible) <= 100
      /\ 127 - Decrement * (CounterMod - 1 - Permissible) <= 100
  BY AutoGainAssumption, SweepAssumption
     DEF AutoGainAssumption, SweepAssumption, NominalGain, MinimalGain
<1>2. Decrement * (n - Permissible) >= 27
  <2>1. CASE n >= Revolutions
    <3>1. Decrement * (Revolutions - Permissible) <= Decrement * (n - Permissible)
      BY <1>1, <2>1, Products
    <3> QED BY <1>1, <3>1
  <2>2. CASE n >= CounterMod - 1
    <3>1. Decrement * (CounterMod - 1 - Permissible) <= Decrement * (n - Permissible)
      BY <1>1, <2>2, Products
    <3> QED BY <1>1, <3>1
  <2> QED BY <2>1, <2>2
<1>3. n > Permissible
  <2>1. n - Permissible <= 0 => Decrement * (n - Permissible) <= Decrement * 0
    BY <1>1, Products
  <2>2. Decrement * 0 = 0
    BY <1>1
  <2> QED BY <1>1, <1>2, <2>1, <2>2
<1> QED BY <1>1, <1>2, <1>3 DEF ReferenceGain, NominalGain, MinimalGain

\* Marking a line counts one more revolution, also when the counter wraps.
LEMMA Marking ==
    ASSUME NEW n \in Nat, NEW c \in 0..CounterMod - 1,
           n < CounterMod => c = n
    PROVE  LET d == (c + 1) % CounterMod
           IN  /\ n + 1 < CounterMod => d = n + 1
               /\ (IF d > Permissible THEN Weakened(ReferenceGain(n)) ELSE ReferenceGain(n))
                     = ReferenceGain(n + 1)
<1> DEFINE d == (c + 1) % CounterMod
<1>1. Decrement \in Nat /\ Permissible \in Nat /\ CounterMod \in Nat
  BY AutoGainAssumption DEF AutoGainAssumption
<1>2. CASE n + 1 < CounterMod
  <2>1. d = n + 1
    <3>1. c + 1 = n + 1 /\ n + 1 \in 0..3 * CounterMod - 1
      BY <1>1, <1>2
    <3> DEFINE a == n + 1
    <3> HIDE DEF a
    <3>2. a \in 0..3 * CounterMod - 1
      BY <3>1 DEF a
    <3>3. a < CounterMod => a % CounterMod = a
      BY <1>1, <3>2, ModSmall
    <3> QED BY <1>2, <3>1, <3>3 DEF a
  <2>2. ReferenceGain(n + 1) = IF n + 1 > Permissible THEN Weakened(ReferenceGain(n))
                               ELSE ReferenceGain(n)
    BY GainSteps
  <2> QED BY <2>1, <2>2
<1>3. CASE n + 1 >= CounterMod
  <2>1. ReferenceGain(n) = MinimalGain /\ ReferenceGain(n + 1) = MinimalGain
    BY <1>1, <1>3, GainFloor
  <2>2. Weakened(MinimalGain) = MinimalGain
    BY <1>1 DEF Weakened, MinimalGain
  <2> QED BY <1>1, <1>3, <2>1, <2>2
<1> QED BY <1>1, <1>2, <1>3

\* The boundary line is the one that has just been cleaned.
LEMMA BoundaryAge ==
    ASSUME NEW line \in Index, NEW l \in Index
    PROVE  l = Boundary(line) <=> AgeAt(line, l) = 0
<1>1. /\ Lines \in Nat /\ Zone \in Nat /\ Lines >= 2 * Zone + 2
      /\ line \in 0..Lines - 1 /\ l \in 0..Lines - 1
  BY Sizes DEF Index
<1> DEFINE a == (line + Lines) - (Zone + 1)
<1>2. a \in 0..3 * Lines - 1
  BY <1>1
<1>3. a % Lines = IF a < Lines THEN a ELSE IF a < 2 * Lines THEN a - Lines ELSE a - 2 * Lines
  BY <1>1, <1>2, ModSmall
<1>4. Boundary(line) = IF line - Zone - 1 >= 0 THEN line - Zone - 1
                       ELSE line + Lines - Zone - 1
  BY <1>1, <1>3 DEF Boundary
<1> QED BY <1>1, <1>4 DEF AgeAt

\* The frame of the next line: a line grows older by one frame, is cleaned when
\* its revolution ends, and is in the zone at the end of its revolution.
LEMMA Turn ==
    ASSUME NEW line \in Index, NEW l \in Index
    PROVE  LET next == (line + 1) % Lines
           IN  /\ next \in Index /\ LineOf(next * AngularStep) = next
               /\ AgeAt(line, l) \in 0..Lines - 1
               /\ AgeAt(next, l) = IF AgeAt(line, l) = Lines - 1 THEN 0
                                   ELSE AgeAt(line, l) + 1
               /\ l = Boundary(next) <=> AgeAt(next, l) = 0
               /\ l \in ZoneOf(next) <=> AgeAt(next, l) >= Lines - 2 * Zone - 1
<1>1. /\ Lines \in Nat /\ Zone \in Nat /\ Lines >= 2 * Zone + 2
      /\ AngularStep \in Nat \ {0} /\ line \in 0..Lines - 1 /\ l \in 0..Lines - 1
  BY AutoGainAssumption DEF AutoGainAssumption, Index
<1> DEFINE next == (line + 1) % Lines
<1>2. next = IF line = Lines - 1 THEN 0 ELSE line + 1
  <2>1. line + 1 \in 0..3 * Lines - 1
    BY <1>1
  <2> DEFINE a == line + 1
  <2> HIDE DEF a
  <2>2. a \in 0..3 * Lines - 1
    BY <2>1 DEF a
  <2>3. a % Lines = IF a < Lines THEN a ELSE IF a < 2 * Lines THEN a - Lines ELSE a - 2 * Lines
    BY <1>1, <2>2, ModSmall
  <2> QED BY <1>1, <2>3 DEF a
<1>3. next \in 0..Lines - 1
  BY <1>1, <1>2
<1>4. LineOf(next * AngularStep) = next
  BY <1>1, <1>3, DivExact DEF LineOf
<1> HIDE DEF next
<1>5. AgeAt(line, l) \in 0..Lines - 1
  BY <1>1 DEF AgeAt
<1>6. AgeAt(next, l) = IF AgeAt(line, l) = Lines - 1 THEN 0 ELSE AgeAt(line, l) + 1
  BY <1>1, <1>2 DEF AgeAt
<1>7. l = Boundary(next) <=> AgeAt(next, l) = 0
  BY <1>3, BoundaryAge DEF Index
<1>8. ASSUME l \in ZoneOf(next) PROVE AgeAt(next, l) >= Lines - 2 * Zone - 1
  <2>1. PICK w \in -Zone..Zone : l = ((next + Lines) + w) % Lines
    BY <1>8 DEF ZoneOf
  <2>2. l = IF next + w < 0 THEN next + w + Lines
            ELSE IF next + w < Lines THEN next + w ELSE next + w - Lines
    <3>1. (next + Lines) + w \in 0..3 * Lines - 1
      BY <1>1, <1>3
    <3> DEFINE a == (next + Lines) + w
    <3>2. a % Lines = IF a < Lines THEN a ELSE IF a < 2 * Lines THEN a - Lines ELSE a - 2 * Lines
      BY <1>1, <3>1, ModSmall
    <3> QED BY <1>1, <1>3, <2>1, <3>2
  <2> QED BY <1>1, <1>3, <2>2 DEF AgeAt
<1>9. ASSUME AgeAt(next, l) >= Lines - 2 * Zone - 1 PROVE l \in ZoneOf(next)
  <2>1. PICK w \in -Zone..Zone : l = IF next + w < 0 THEN next + w + Lines
                 ELSE IF next + w < Lines THEN next + w ELSE next + w - Lines
    <3>1. \/ l - next \in -Zone..Zone
          \/ l - next - Lines \in -Zone..Zone
          \/ l - next + Lines \in -Zone..Zone
      BY <1>1, <1>3, <1>9 DEF AgeAt
    <3>2. CASE l - next \in -Zone..Zone
      <4> WITNESS l - next \in -Zone..Zone
      <4> QED BY <1>1, <1>3, <3>2
    <3>3. CASE l - next - Lines \in -Zone..Zone
      <4> WITNESS l - next - Lines \in -Zone..Zone
      <4> QED BY <1>1, <1>3, <3>3
    <3>4. CASE l - next + Lines \in -Zone..Zone
      <4> WITNESS l - next + Lines \in -Zone..Zone
      <4> QED BY <1>1, <1>3, <3>4
    <3> QED BY <3>1, <3>2, <3>3, <3>4
  <2>2. l = ((next + Lines) + w) % Lines
    <3>1. (next + Lines) + w \in 0..3 * Lines - 1
      BY <1>1, <1>3
    <3> DEFINE a == (next + Lines) + w
    <3>2. a % Lines = IF a < Lines THEN a ELSE IF a < 2 * Lines THEN a - Lines ELSE a - 2 * Lines
      BY <1>1, <3>1, ModSmall
    <3> QED BY <1>1, <1>3, <2>1, <3>2
  <2> QED BY <2>2 DEF ZoneOf
<1> QED BY <1>3, <1>4, <1>5, <1>6, <1>7, <1>8, <1>9 DEF next, Index

\* What a frame does to one row of the table.
LEMMA RowStep ==
    ASSUME TypeOK, NEW line \in Nat, NEW l \in Index, NEW saturated \in BOOLEAN,
           Filling(line, saturated),
           l = Boundary(line) => l \notin ZoneOf(line)
    PROVE  /\ l = Boundary(line) =>
                 /\ flag_cgange'[l] = FALSE
                 /\ counter_repetition'[l] = IF flag_cgange[l] = TRUE THEN counter_repetition[l] ELSE 0
                 /\ curent_gain'[l] = IF flag_cgange[l] = TRUE THEN curent_gain[l] ELSE NominalGain
           /\ l # Boundary(line) =>
                 /\ flag_cgange'[l] = TRUE <=>
                       flag_cgange[l] = TRUE \/ (saturated = TRUE /\ l \in ZoneOf(line))
                 /\ flag_cgange'[l] = flag_cgange[l] =>
                       /\ counter_repetition'[l] = counter_repetition[l]
                       /\ curent_gain'[l] = curent_gain[l]
                 /\ flag_cgange'[l] # flag_cgange[l] =>
                       LET c == (counter_repetition[l] + 1) % CounterMod
                       IN  /\ counter_repetition'[l] = c
                           /\ curent_gain'[l] = IF c > Permissible THEN Weakened(curent_gain[l])
                                                ELSE curent_gain[l]
<1> DEFINE marked == Marked(line, saturated)
           count == [x \in Index |-> IF x \in marked
                                     THEN (counter_repetition[x] + 1) % CounterMod
                                     ELSE counter_repetition[x]]
           flag == [x \in Index |-> flag_cgange[x] \/ x \in marked]
           gain == [x \in Index |-> IF x \in marked /\ count[x] > Permissible
                                    THEN Weakened(curent_gain[x])
                                    ELSE curent_gain[x]]
           b == Boundary(line)
           m == l \in marked
<1>1. /\ counter_repetition' = [count EXCEPT ![b] = IF flag[b] THEN @ ELSE 0]
      /\ curent_gain' = [gain EXCEPT ![b] = IF flag[b] THEN @ ELSE NominalGain]
      /\ flag_cgange' = [flag EXCEPT ![b] = FALSE]
  BY DEF Filling
<1>2. flag_cgange[l] \in BOOLEAN
  BY DEF TypeOK
<1>3. m <=> saturated = TRUE /\ l \in ZoneOf(line) /\ flag_cgange[l] = FALSE
  BY <1>2 DEF Marked
<1>4. /\ count[l] = IF m THEN (counter_repetition[l] + 1) % CounterMod
                    ELSE counter_repetition[l]
      /\ flag[l] = (flag_cgange[l] \/ m)
      /\ gain[l] = IF m /\ count[l] > Permissible THEN Weakened(curent_gain[l])
                   ELSE curent_gain[l]
  OBVIOUS
<1>5. l \in DOMAIN count /\ l \in DOMAIN flag /\ l \in DOMAIN gain
  OBVIOUS
<1> HIDE DEF count, flag, gain, m
<1>6. /\ counter_repetition'[l] = IF l = b THEN (IF flag[l] THEN count[l] ELSE 0) ELSE count[l]
      /\ curent_gain'[l] = IF l = b THEN (IF flag[l] THEN gain[l] ELSE NominalGain) ELSE gain[l]
      /\ flag_cgange'[l] = IF l = b THEN FALSE ELSE flag[l]
  BY <1>1, <1>5
<1>7. CASE l = b
  <2>1. ~m
    BY <1>3, <1>7
  <2> QED BY <1>2, <1>4, <1>6, <1>7, <2>1
<1>8. CASE l # b /\ m
  <2>1. flag_cgange[l] = FALSE /\ flag_cgange'[l] = TRUE
    BY <1>3, <1>4, <1>6, <1>8
  <2>2. saturated = TRUE /\ l \in ZoneOf(line)
    BY <1>3, <1>8
  <2>3. /\ counter_repetition'[l] = count[l] /\ curent_gain'[l] = gain[l]
        /\ count[l] = (counter_repetition[l] + 1) % CounterMod
        /\ gain[l] = IF count[l] > Permissible THEN Weakened(curent_gain[l])
                     ELSE curent_gain[l]
    BY <1>4, <1>6, <1>8
  <2> QED BY <1>8, <2>1, <2>2, <2>3
<1>9. CASE l # b /\ ~m
  <2>1. flag_cgange'[l] = flag_cgange[l]
    BY <1>2, <1>4, <1>6, <1>9
  <2>2. counter_repetition'[l] = counter_repetition[l] /\ curent_gain'[l] = curent_gain[l]
    BY <1>4, <1>6, <1>9
  <2>3. saturated = TRUE /\ l \in ZoneOf(line) => flag_cgange[l] = TRUE
    BY <1>2, <1>3, <1>9
  <2> QED BY <1>9, <2>1, <2>2, <2>3
<1> QED BY <1>7, <1>8, <1>9

\* A frame of the sweep keeps the description of every line.
LEMMA LineStep ==
    ASSUME TypeOK, SweepInv, NEW saturated \in BOOLEAN, Sweep(saturated), NEW l \in Index
    PROVE  LineInv(l)'
<1> DEFINE a == Age(l)
           H == HistoryLength
           next == (line_index + 1) % Lines
<1>0. /\ Lines \in Nat /\ Zone \in Nat /\ Lines >= 2 * Zone + 2
      /\ H \in Nat /\ H >= Lines
  BY Sizes
<1>1. /\ history \in Seq(BOOLEAN) /\ Len(history) = H /\ line_index \in Index
      /\ LineInv(l)
  BY DEF Sweep, Regular, SweepInv
<1>2. /\ next \in Index /\ LineOf(next * AngularStep) = next
      /\ a \in 0..Lines - 1
      /\ AgeAt(next, l) = IF a = Lines - 1 THEN 0 ELSE a + 1
      /\ l = Boundary(next) <=> AgeAt(next, l) = 0
      /\ l \in ZoneOf(next) <=> AgeAt(next, l) >= Lines - 2 * Zone - 1
  BY <1>1, Turn DEF Age
<1>3. line_index' = next /\ Filling(next, saturated)
  BY <1>2 DEF Sweep, auto_gain_control
<1>4. Age(l)' = IF a = Lines - 1 THEN 0 ELSE a + 1
  BY <1>2, <1>3 DEF Age
<1>5. history'[1] = saturated /\ \A x \in 2..H : history'[x] = history[x - 1]
  <2>1. history' = <<saturated>> \o SubSeq(history, 1, Len(history) - 1)
    BY <1>1 DEF Sweep
  <2> QED BY <1>0, <1>1, <2>1, Shift
<1>6. PICK k \in Nat : /\ Streak(l, k)
                       /\ Counted(l, IF flag_cgange[l] = TRUE THEN k + 1 ELSE k)
  BY <1>1 DEF LineInv
<1>7. /\ flag_cgange[l] \in BOOLEAN /\ flag_cgange'[l] \in BOOLEAN
      /\ counter_repetition[l] \in 0..CounterMod - 1
  <2>1. next \in Nat
    BY <1>0, <1>2 DEF Index
  <2> QED BY <1>3, <2>1, FillingType DEF TypeOK
<1>8. /\ l = Boundary(next) <=> a = Lines - 1
      /\ l \in ZoneOf(next) <=> a # Lines - 1 /\ a + 1 >= Lines - 2 * Zone - 1
      /\ l = Boundary(next) => l \notin ZoneOf(next)
      /\ next \in Nat
  BY <1>0, <1>2 DEF Index
<1>9. \A j \in Nat : j * Lines \in Nat /\ (j + 1) * Lines = j * Lines + Lines
  BY <1>0, Products
<1>10. /\ a \in 0..Lines - 1
       /\ Passing(l)
  BY <1>1, <1>2 DEF LineInv
<1> HIDE DEF a, H, next
<1>11. CASE a # Lines - 1
  <2>1. Age(l)' = a + 1 /\ l # Boundary(next)
    BY <1>4, <1>8, <1>11
  <2>2. ASSUME NEW j \in Nat, InReach(l, j)'
        PROVE  InReach(l, j) /\ (Since(l, j)' <=> Since(l, j))
    <3> DEFINE r == j * Lines
    <3>1. r \in Nat /\ a + 1 + r + 2 * Zone + 2 <= H
      BY <1>9, <2>1, <2>2 DEF InReach, H
    <3>2. InReach(l, j)
      BY <1>0, <1>10, <3>1 DEF InReach, a, H
    <3>3. \A i \in 2..2 * Zone + 2 : history'[a + 1 + r + i] = history[a + r + i]
      <4> SUFFICES ASSUME NEW i \in 2..2 * Zone + 2
                   PROVE  history'[a + 1 + r + i] = history[a + r + i]
        OBVIOUS
      <4> DEFINE x == a + 1 + r + i
      <4>1. x \in 2..H /\ x - 1 = a + r + i
        <5> HIDE DEF r
        <5> QED BY <1>0, <1>10, <3>1
      <4>2. history'[x] = history[x - 1]
        <5> HIDE DEF x
        <5> QED BY <1>5, <4>1
      <4> QED BY <4>1, <4>2
    <3>4. /\ Since(l, j) <=> \E i \in 2..2 * Zone + 2 : history[a + r + i] = TRUE
          /\ Since(l, j)' <=> \E i \in 2..2 * Zone + 2 : history'[a + 1 + r + i] = TRUE
      BY <2>1 DEF Since, a
    <3> QED BY <3>2, <3>3, <3>4
  <2>3. Streak(l, k)'
    BY <1>6, <2>2 DEF Streak
  <2>4. flag_cgange'[l] = TRUE <=>
          flag_cgange[l] = TRUE \/ (saturated = TRUE /\ a + 1 >= Lines - 2 * Zone - 1)
    BY <1>3, <1>8, <1>11, RowStep
  <2>5. Passing(l)'
    <3>1. flag_cgange[l] = TRUE <=> \E i \in 1..a + 2 * Zone + 2 - Lines : history[i] = TRUE
      BY <1>10 DEF Passing, a
    <3>2. ASSUME flag_cgange'[l] = TRUE
          PROVE  \E i \in 1..a + 1 + 2 * Zone + 2 - Lines : history'[i] = TRUE
      <4>1. CASE flag_cgange[l] = TRUE
        <5>1. PICK i \in 1..a + 2 * Zone + 2 - Lines : history[i] = TRUE
          BY <3>1, <4>1
        <5>2. i + 1 \in 2..H /\ i + 1 - 1 = i /\ i + 1 \in 1..a + 1 + 2 * Zone + 2 - Lines
          BY <1>0, <1>10, <5>1
        <5>3. history'[i + 1] = TRUE
          BY <1>5, <5>1, <5>2
        <5> QED BY <5>2, <5>3
      <4>2. CASE saturated = TRUE /\ a + 1 >= Lines - 2 * Zone - 1
        <5>1. 1 \in 1..a + 1 + 2 * Zone + 2 - Lines
          BY <1>0, <1>10, <4>2
        <5> QED BY <1>5, <4>2, <5>1
      <4> QED BY <2>4, <3>2, <4>1, <4>2
    <3>3. ASSUME NEW i \in 1..a + 1 + 2 * Zone + 2 - Lines, history'[i] = TRUE
          PROVE  flag_cgange'[l] = TRUE
      <4>1. CASE i = 1
        <5>1. saturated = TRUE /\ a + 1 >= Lines - 2 * Zone - 1
          BY <1>0, <1>5, <1>10, <3>3, <4>1
        <5> QED BY <2>4, <5>1
      <4>2. CASE i # 1
        <5>1. i \in 2..H /\ i - 1 \in 1..a + 2 * Zone + 2 - Lines
          BY <1>0, <1>10, <4>2
        <5>2. history[i - 1] = TRUE
          BY <1>5, <3>3, <5>1
        <5> QED BY <2>4, <3>1, <5>1, <5>2
      <4> QED BY <4>1, <4>2
    <3> QED BY <2>1, <3>2, <3>3 DEF Passing
  <2>6. Counted(l, IF flag_cgange[l] = TRUE THEN k + 1 ELSE k)'
    <3>1. CASE flag_cgange'[l] = flag_cgange[l]
      <4>1. counter_repetition'[l] = counter_repetition[l] /\ curent_gain'[l] = curent_gain[l]
        BY <1>3, <1>8, <1>11, <3>1, RowStep
      <4> QED BY <1>6, <3>1, <4>1 DEF Counted, ReferenceGain
    <3>2. CASE flag_cgange'[l] # flag_cgange[l]
      <4> DEFINE c == (counter_repetition[l] + 1) % CounterMod
      <4>1. flag_cgange[l] = FALSE /\ flag_cgange'[l] = TRUE
        BY <1>7, <2>4, <3>2
      <4>2. /\ counter_repetition'[l] = c
            /\ curent_gain'[l] = IF c > Permissible THEN Weakened(curent_gain[l])
                                 ELSE curent_gain[l]
        BY <1>3, <1>8, <1>11, <3>2, RowStep
      <4>3. (k < CounterMod => counter_repetition[l] = k) /\ curent_gain[l] = ReferenceGain(k)
        BY <1>6, <4>1 DEF Counted
      <4>4. /\ k + 1 < CounterMod => c = k + 1
            /\ (IF c > Permissible THEN Weakened(ReferenceGain(k)) ELSE ReferenceGain(k))
                  = ReferenceGain(k + 1)
        BY <1>7, <4>3, Marking
      <4> HIDE DEF c
      <4>5. curent_gain'[l] = ReferenceGain(k + 1)
        BY <4>2, <4>3, <4>4
      <4>6. ReferenceGain(k + 1)' = ReferenceGain(k + 1)
        BY DEF ReferenceGain
      <4> QED BY <4>1, <4>2, <4>4, <4>5, <4>6 DEF Counted
    <3> QED BY <3>1, <3>2
  <2> QED BY <2>3, <2>5, <2>6 DEF LineInv
<1>12. CASE a = Lines - 1
  <2>0. PICK n \in Nat : n = IF flag_cgange[l] = TRUE THEN k + 1 ELSE 0
    OBVIOUS
  <2>1. Age(l)' = 0 /\ flag_cgange'[l] = FALSE
    BY <1>3, <1>4, <1>8, <1>12, RowStep
  <2>2. Passing(l)'
    <3>1. 1..2 * Zone + 2 - Lines = {} /\ 0 + 2 * Zone + 2 - Lines = 2 * Zone + 2 - Lines
      BY <1>0
    <3> QED BY <2>1, <3>1 DEF Passing
  <2>3. Since(l, 0)' <=> flag_cgange[l] = TRUE
    <3>1. Since(l, 0)' <=> \E i \in 2..2 * Zone + 2 : history'[i] = TRUE
      <4>1. \A i \in 2..2 * Zone + 2 : 0 + 0 * Lines + i = i
        BY <1>0
      <4> QED BY <2>1, <4>1 DEF Since
    <3>2. \A i \in 2..2 * Zone + 2 : history'[i] = history[i - 1]
      BY <1>0, <1>5
    <3>3. flag_cgange[l] = TRUE <=> \E i \in 1..2 * Zone + 1 : history[i] = TRUE
      <4>1. a + 2 * Zone + 2 - Lines = 2 * Zone + 1
        BY <1>0, <1>12
      <4> QED BY <1>10, <4>1 DEF Passing, a
    <3>4. ASSUME NEW i \in 2..2 * Zone + 2, history'[i] = TRUE
          PROVE  \E x \in 1..2 * Zone + 1 : history[x] = TRUE
      <4>1. i - 1 \in 1..2 * Zone + 1
        BY <1>0
      <4> QED BY <3>2, <3>4, <4>1
    <3>5. ASSUME NEW x \in 1..2 * Zone + 1, history[x] = TRUE
          PROVE  \E i \in 2..2 * Zone + 2 : history'[i] = TRUE
      <4>1. x + 1 \in 2..2 * Zone + 2 /\ x + 1 - 1 = x
        BY <1>0
      <4>2. history'[x + 1] = TRUE
        BY <3>2, <3>5, <4>1
      <4> QED BY <4>1, <4>2
    <3> QED BY <3>1, <3>3, <3>4, <3>5
  <2>4. ASSUME NEW j \in Nat, InReach(l, j + 1)'
        PROVE  InReach(l, j) /\ (Since(l, j + 1)' <=> Since(l, j))
    <3> DEFINE r == j * Lines
               t == (j + 1) * Lines
    <3>1. r \in Nat /\ t = r + Lines
      BY <1>9
    <3>2. t + 2 * Zone + 2 <= H
      <4>1. 0 + t + 2 * Zone + 2 <= H
        BY <2>1, <2>4 DEF InReach, H
      <4> HIDE DEF t, r
      <4> QED BY <1>0, <3>1, <4>1
    <3>3. InReach(l, j)
      <4>1. a + r + 2 * Zone + 2 <= H
        <5> HIDE DEF t, r
        <5> QED BY <1>0, <1>12, <3>1, <3>2
      <4> QED BY <4>1 DEF InReach, a, H
    <3>4. \A i \in 2..2 * Zone + 2 : history'[0 + t + i] = history[a + r + i]
      <4> SUFFICES ASSUME NEW i \in 2..2 * Zone + 2
                   PROVE  history'[0 + t + i] = history[a + r + i]
        OBVIOUS
      <4> DEFINE x == 0 + t + i
      <4>1. x \in 2..H /\ x - 1 = a + r + i
        <5> HIDE DEF r, t
        <5> QED BY <1>0, <1>12, <3>1, <3>2
      <4>2. history'[x] = history[x - 1]
        <5> HIDE DEF x
        <5> QED BY <1>5, <4>1
      <4> QED BY <4>1, <4>2
    <3>5. /\ Since(l, j) <=> \E i \in 2..2 * Zone + 2 : history[a + r + i] = TRUE
          /\ Since(l, j + 1)' <=> \E i \in 2..2 * Zone + 2 : history'[0 + t + i] = TRUE
      BY <2>1 DEF Since, a
    <3> QED BY <3>3, <3>4, <3>5
  <2>5. Streak(l, n)'
    <3>1. ASSUME NEW j \in Nat, InReach(l, j)'
          PROVE  (j < n => Since(l, j)') /\ (j = n => ~Since(l, j)')
      <4>1. CASE j = 0
        BY <2>0, <2>3, <4>1
      <4>2. CASE j # 0
        <5> DEFINE i == j - 1
        <5>1. i \in Nat /\ j = i + 1
          BY <4>2
        <5> HIDE DEF i
        <5>2. InReach(l, i) /\ (Since(l, j)' <=> Since(l, i))
          BY <2>4, <3>1, <5>1
        <5>3. (i < k => Since(l, i)) /\ (i = k => ~Since(l, i))
          BY <1>6, <5>1, <5>2 DEF Streak
        <5>4. (j < n => i < k) /\ (j = n => i = k)
          BY <2>0, <5>1
        <5> QED BY <5>2, <5>3, <5>4
      <4> QED BY <4>1, <4>2
    <3> QED BY <3>1 DEF Streak
  <2>6. /\ n < CounterMod => counter_repetition'[l] = n
        /\ curent_gain'[l] = ReferenceGain(n)
    <3>1. CASE flag_cgange[l] = TRUE
      <4>1. counter_repetition'[l] = counter_repetition[l] /\ curent_gain'[l] = curent_gain[l]
        BY <1>3, <1>8, <1>12, <3>1, RowStep
      <4> QED BY <1>6, <2>0, <3>1, <4>1 DEF Counted
    <3>2. CASE flag_cgange[l] # TRUE
      <4>1. counter_repetition'[l] = 0 /\ curent_gain'[l] = NominalGain
        BY <1>3, <1>8, <1>12, <3>2, RowStep
      <4>2. ReferenceGain(0) = NominalGain
        BY AutoGainAssumption DEF AutoGainAssumption, ReferenceGain
      <4> QED BY <2>0, <3>2, <4>1, <4>2
    <3> QED BY <3>1, <3>2
  <2>7. Counted(l, IF flag_cgange[l] = TRUE THEN n + 1 ELSE n)'
    BY <2>1, <2>6 DEF Counted, ReferenceGain
  <2> QED BY <2>2, <2>5, <2>7 DEF LineInv
<1> QED BY <1>11, <1>12

\* Before the first frame no line has been marked.
LEMMA SweepStart == SweepInit => SweepInv
<1> SUFFICES ASSUME SweepInit PROVE SweepInv
  OBVIOUS
<1>0. /\ Lines \in Nat /\ Zone \in Nat /\ Lines >= 2 * Zone + 2
      /\ HistoryLength \in Nat /\ HistoryLength >= Lines
      /\ Permissible \in Nat
  BY Sizes, AutoGainAssumption DEF AutoGainAssumption
<1>1. /\ history \in Seq(BOOLEAN) /\ Len(history) = HistoryLength
      /\ \A x \in 1..HistoryLength : history[x] = FALSE
  BY <1>0 DEF SweepInit
<1>2. line_index = 0 /\ 0 \in Index
  BY <1>0 DEF SweepInit, Init, Index
<1>3. ASSUME NEW l \in Index PROVE LineInv(l)
  <2>1. Age(l) \in 0..Lines - 1
    BY <1>2, Turn DEF Age
  <2>2. /\ flag_cgange[l] = FALSE /\ counter_repetition[l] = 0
        /\ curent_gain[l] = ReferenceGain(0)
    BY <1>0 DEF SweepInit, Init, ReferenceGain
  <2>3. Passing(l)
    <3>1. \A i \in 1..Age(l) + 2 * Zone + 2 - Lines : i \in 1..HistoryLength
      BY <1>0, <2>1
    <3> QED BY <1>1, <2>2, <3>1 DEF Passing
  <2>4. Streak(l, 0)
    <3>1. InReach(l, 0) => ~Since(l, 0)
      <4>1. 0 * Lines = 0
        BY <1>0
      <4>2. InReach(l, 0) =>
              \A i \in 2..2 * Zone + 2 : Age(l) + 0 * Lines + i \in 1..HistoryLength
        BY <1>0, <2>1, <4>1 DEF InReach
      <4> QED BY <1>1, <4>2 DEF Since
    <3> QED BY <3>1 DEF Streak
  <2> QED BY <2>2, <2>3, <2>4 DEF LineInv, Counted
<1> QED BY <1>1, <1>2, <1>3 DEF SweepInv

\* The inductive invariant of the sweep.
LEMMA SweepInvariant == SweepSpec => [](TypeOK /\ SweepInv)
<1>1. SweepInit => TypeOK /\ SweepInv
  BY TypeInit, SweepStart DEF SweepInit
<1>2. TypeOK /\ SweepInv /\ [SweepNext]_sweepVars => TypeOK' /\ SweepInv'
  <2> SUFFICES ASSUME TypeOK, SweepInv, [SweepNext]_sweepVars
               PROVE  TypeOK' /\ SweepInv'
    OBVIOUS
  <2>1. ASSUME NEW saturated \in BOOLEAN, Sweep(saturated)
        PROVE  TypeOK' /\ SweepInv'
    <3> DEFINE next == (line_index + 1) % Lines
    <3>1. /\ history \in Seq(BOOLEAN) /\ Len(history) = HistoryLength
          /\ line_index \in Index /\ Lines \in Nat /\ HistoryLength >= 1
          /\ AngularStep \in Nat
      BY <2>1, Sizes, AutoGainAssumption DEF Sweep, Regular, SweepInv, AutoGainAssumption
    <3>2. next \in Index /\ LineOf(next * AngularStep) = next
      BY <3>1, Turn
    <3>3. next * AngularStep \in Nat /\ auto_gain_control(next * AngularStep, saturated)
      BY <2>1, <3>1, <3>2 DEF Sweep, Index
    <3>4. TypeOK'
      BY <3>3, TypeFrame
    <3>5. line_index' \in Index
      BY <3>2, <3>3 DEF auto_gain_control
    <3>6. history' \in Seq(BOOLEAN) /\ Len(history') = HistoryLength
      <4>1. history' = <<saturated>> \o SubSeq(history, 1, Len(history) - 1)
        BY <2>1, <3>1 DEF Sweep
      <4> QED BY <3>1, <4>1, Shift
    <3>7. \A l \in Index : LineInv(l)'
      BY <2>1, LineStep
    <3> QED BY <3>4, <3>5, <3>6, <3>7 DEF SweepInv, Index
  <2>2. CASE Disturbed
    BY <2>2, TypeNext DEF Disturbed, SweepInv
  <2>3. CASE UNCHANGED sweepVars
    <3>1. UNCHANGED vars /\ history' = history /\ UNCHANGED <<table, line_index>>
      BY <2>3 DEF sweepVars, vars
    <3>2. TypeOK'
      BY <3>1, TypeNext
    <3>3. ASSUME NEW l \in Index, LineInv(l) PROVE LineInv(l)'
      BY <3>1, <3>3 DEF LineInv, Passing, Streak, Counted, InReach, Since, Age, AgeAt,
                        ReferenceGain, table
    <3> QED BY <3>1, <3>2, <3>3 DEF SweepInv
  <2> QED BY <2>1, <2>2, <2>3 DEF SweepNext
<1> QED BY <1>1, <1>2, PTL DEF SweepSpec

\* In a regular sweep the table is what the history of the last revolutions says,
\* for any number of lines, any zone and any width of the counter that lets a
\* gain reach its minimum before it wraps.
THEOREM TableMatchesHistory == SweepSpec => []GainMatchesReference
<1>1. TypeOK /\ SweepInv => GainMatchesReference
  <2> SUFFICES ASSUME SweepInv, Regular
               PROVE  curent_gain[Boundary(line_index)] = ReferenceGain(InARow)
    BY DEF GainMatchesReference
  <2> DEFINE b == Boundary(line_index)
             Fits(k) == /\ \A j \in 0..k - 1 : SaturatedIn(j)
                        /\ k = Revolutions \/ ~SaturatedIn(k)
  <2>0. /\ Lines \in Nat /\ Zone \in Nat /\ Lines >= 2 * Zone + 2
        /\ Revolutions \in Nat /\ Revolutions >= 1
        /\ HistoryLength = (Revolutions - 1) * Lines + Lines
    BY Sizes
  <2>1. history \in Seq(BOOLEAN) /\ Len(history) = HistoryLength /\ line_index \in Index
    BY DEF Regular, SweepInv
  <2>2. b \in Index
    BY <2>0, <2>1, ModType DEF Boundary, Index
  <2>3. Age(b) = 0 /\ LineInv(b)
    BY <2>1, <2>2, BoundaryAge DEF Age, Regular, SweepInv
  <2>4. flag_cgange[b] # TRUE
    <3>1. 1..0 + 2 * Zone + 2 - Lines = {}
      BY <2>0
    <3> QED BY <2>3, <3>1 DEF LineInv, Passing
  <2> HIDE DEF b
  <2>5. PICK k \in Nat : Streak(b, k) /\ curent_gain[b] = ReferenceGain(k)
    BY <2>3, <2>4 DEF LineInv, Counted
  <2>6. ASSUME NEW j \in 0..Revolutions - 1
        PROVE  (j < k => SaturatedIn(j)) /\ (j = k => ~SaturatedIn(j))
    <3> DEFINE r == j * Lines
               t == (Revolutions - 1) * Lines
    <3>1. r \in Nat /\ t \in Nat /\ r <= t
      <4>1. 0 * Lines <= j * Lines /\ j * Lines <= (Revolutions - 1) * Lines
        BY <2>0, Products
      <4>2. 0 * Lines = 0 /\ j * Lines \in Int /\ (Revolutions - 1) * Lines \in Int
        BY <2>0
      <4> QED BY <4>1, <4>2
    <3>2. HistoryLength = t + Lines
      BY <2>0
    <3>3. 0 + r + 2 * Zone + 2 <= HistoryLength
      <4> HIDE DEF r, t
      <4> QED BY <2>0, <3>1, <3>2
    <3>4. InReach(b, j)
      BY <2>3, <3>3 DEF InReach
    <3>5. Since(b, j) <=> SaturatedIn(j)
      <4>1. \A i \in 2..2 * Zone + 2 : 0 + r + i = r + i /\ r + i \in 1..HistoryLength
        <5> HIDE DEF r, t
        <5> QED BY <2>0, <3>1, <3>2
      <4>2. \A i \in 2..2 * Zone + 2 : history[r + i] \in BOOLEAN
        BY <2>1, <4>1
      <4>3. SaturatedIn(j) <=> \E i \in 2..2 * Zone + 2 : history[r + i]
        BY DEF SaturatedIn
      <4>4. Since(b, j) <=> \E i \in 2..2 * Zone + 2 : history[0 + r + i] = TRUE
        BY <2>3 DEF Since
      <4> HIDE DEF r
      <4> QED BY <4>1, <4>2, <4>3, <4>4
    <3>6. (j < k => Since(b, j)) /\ (j = k => ~Since(b, j))
      BY <2>5, <3>4 DEF Streak
    <3> QED BY <3>5, <3>6
  <2>7. PICK n \in 0..Revolutions : n = IF k <= Revolutions THEN k ELSE Revolutions
    BY <2>0
  <2>8. Fits(n)
    <3>1. \A j \in 0..n - 1 : j \in 0..Revolutions - 1 /\ j < k
      BY <2>0, <2>7
    <3>2. n = Revolutions \/ (n \in 0..Revolutions - 1 /\ n = k)
      BY <2>0, <2>7
    <3> QED BY <2>6, <3>1, <3>2
  <2>9. InARow \in 0..Revolutions /\ Fits(InARow)
    <3>1. InARow = CHOOSE x \in 0..Revolutions : Fits(x)
      BY DEF InARow
    <3> HIDE DEF Fits
    <3> QED BY <2>8, <3>1
  <2>10. InARow = n
    <3> DEFINE m == InARow
    <3>1. m \in 0..Revolutions /\ Fits(m)
      BY <2>9
    <3> HIDE DEF m
    <3>2. ~(m < n)
      <4> SUFFICES ASSUME m < n PROVE FALSE
        OBVIOUS
      <4>1. m \in 0..n - 1 /\ m # Revolutions
        BY <2>0, <3>1
      <4> QED BY <2>8, <3>1, <4>1
    <3>3. ~(n < m)
      <4> SUFFICES ASSUME n < m PROVE FALSE
        OBVIOUS
      <4>1. n \in 0..m - 1 /\ n # Revolutions
        BY <2>0, <3>1
      <4> QED BY <2>8, <3>1, <4>1
    <3>4. m = n
      BY <2>0, <3>1, <3>2, <3>3
    <3> QED BY <3>4 DEF m
  <2>11. ReferenceGain(k) = ReferenceGain(n)
    <3>1. CASE k <= Revolutions
      BY <2>7, <3>1
    <3>2. CASE k > Revolutions
      <4>1. n = Revolutions /\ ReferenceGain(n) = MinimalGain
        BY <2>0, <2>7, <3>2, GainFloor
      <4>2. ReferenceGain(k) = MinimalGain
        BY <2>0, <3>2, GainFloor
      <4> QED BY <4>1, <4>2
    <3> QED BY <2>0, <3>1, <3>2
  <2> QED BY <2>5, <2>10, <2>11 DEF b
<1> QED BY <1>1, SweepInvariant, PTL

\* The limits of the gain, and the gain the logic works with, hold in the sweep,
\* too, and after it has been disturbed.
THEOREM SweepBounded == SweepSpec => [](TypeOK /\ LogicServesNextLine)
<1>1. SweepInit => LogicInv
  BY LogicInit DEF SweepInit
<1>2. LogicInv /\ [SweepNext]_sweepVars => LogicInv'
  <2>1. ASSUME LogicInv, Disturbed PROVE LogicInv'
    BY <2>1, LogicNext DEF Disturbed
  <2>2. ASSUME LogicInv, NEW saturated \in BOOLEAN, Sweep(saturated) PROVE LogicInv'
    BY <2>2, LogicFrame DEF Sweep
  <2>3. ASSUME LogicInv, UNCHANGED sweepVars PROVE LogicInv'
    BY <2>3, LogicNext DEF sweepVars
  <2> QED BY <2>1, <2>2, <2>3 DEF SweepNext
<1>3. LogicInv => LogicServesNextLine
  BY DEF LogicInv, LogicServesNextLine
<1> QED BY <1>1, <1>2, <1>3, SweepInvariant, PTL DEF SweepSpec
=============================================================================
