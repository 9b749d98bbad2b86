---------------------------- MODULE SupportProofs ----------------------------
(***************************************************************************)
(* Proofs about the support code, for every size of its buffers and tables *)
(* and for every input: the copying of memory, the keyboard, the console's *)
(* input buffer and the echo of a line, formats and what is put out, the   *)
(* search in a table of stabs, and numbers as they are printed and read.   *)
(***************************************************************************)
EXTENDS Support, SequenceTheorems, FiniteSetTheorems, WellFoundedInduction, TLAPS

-----------------------------------------------------------------------------
(* Numbers.                                                                *)

\* A set of natural numbers has a least element.
LEMMA HasLeast ==
    ASSUME NEW S, S \subseteq Nat, S # {}
    PROVE  \E x \in S : \A y \in S : x <= y
  <1> DEFINE R == OpToRel(<, Nat)
  <1>1. IsWellFoundedOn(R, Nat)
    BY NatLessThanWellFounded
  <1>2. \A a, b \in Nat : <<a, b>> \in R <=> a < b
    BY DEF OpToRel
  <1> HIDE DEF R
  <1>3. PICK x \in S : \A y \in S : ~(<<y, x>> \in R)
    BY <1>1, WFMin
  <1>4. ASSUME NEW y \in S PROVE x <= y
    <2>1. x \in Nat /\ y \in Nat /\ ~(y < x)
      BY <1>2, <1>3
    <2> QED BY <2>1
  <1> QED BY <1>3, <1>4

\* A set of integers below a bound has a greatest one.
LEMMA HasGreatest ==
    ASSUME NEW b \in Int, NEW S, S # {}, \A k \in S : k \in Int /\ k <= b
    PROVE  \E x \in S : \A y \in S : y <= x
  <1> DEFINE T == {n \in Nat : \E k \in S : n = b - k}
  <1>1. T # {}
    <2>1. PICK k \in S : TRUE
      OBVIOUS
    <2>2. b - k \in T
      BY <2>1
    <2> QED BY <2>2
  <1>2. PICK n \in T : \A i \in T : n <= i
    BY <1>1, HasLeast
  <1>3. PICK x \in S : n = b - x
    OBVIOUS
  <1>4. ASSUME NEW y \in S PROVE y <= x
    <2>1. b - y \in T
      OBVIOUS
    <2> QED BY <1>2, <1>3, <2>1
  <1> QED BY <1>4

\* A multiple is counted exactly.
LEMMA DivExact ==
    ASSUME NEW n \in Nat, NEW u \in Nat \ {0}, n % u = 0
    PROVE  n \div u \in Nat /\ (n \div u) * u = n
  OBVIOUS

\* One iteration less.
LEMMA OneLess ==
    ASSUME NEW x \in Nat, NEW u \in Nat, x > 0
    PROVE  x - 1 \in Nat /\ (x - 1) * u = x * u - u /\ x * u \in Nat /\ x * u >= u
  OBVIOUS

\* The remainder of what is less than twice the divisor.
LEMMA ModSmall ==
    ASSUME NEW n \in Nat \ {0}, NEW x \in 0..(n - 1)
    PROVE  x % n = x /\ (x + n) % n = x
  OBVIOUS

-----------------------------------------------------------------------------
(* memmove.                                                                *)

\* The memory when the bytes from lo up to hi of the destination are in place.
Placed(lo, hi) ==
    [a \in Address |-> IF a \in (call.dst + lo)..(call.dst + hi - 1)
                       THEN a - call.dst + call.src ELSE a]

\* The bytes that the instruction has still to move.
Left == rep.count * rep.unit

\* From the front what is done lies below the registers, from the end above.
MvInv ==
    rep.on =>
        /\ call \in [dst : Nat, src : Nat, n : Nat]
        /\ call.dst + call.n <= MEMSIZE /\ call.src + call.n <= MEMSIZE
        /\ rep \in [on : BOOLEAN, s : Int, d : Int, count : Nat,
                    unit : Nat \ {0}, step : Int]
        /\ Left <= call.n
        /\ \/ /\ ~Overlaps(call) /\ rep.step = rep.unit
              /\ rep.s = call.src + (call.n - Left)
              /\ rep.d = call.dst + (call.n - Left)
              /\ mem = Placed(0, call.n - Left)
           \/ /\ Overlaps(call) /\ rep.step = -rep.unit
              /\ rep.s = call.src + Left - rep.unit
              /\ rep.d = call.dst + Left - rep.unit
              /\ mem = Placed(Left, call.n)

\* A call of memmove begins with nothing moved.
LEMMA MvStarts == MvInit => MvInv
  <1> SUFFICES ASSUME MvInit PROVE MvInv
    OBVIOUS
  <1>1. /\ call \in [dst : Nat, src : Nat, n : Nat]
        /\ call.dst + call.n <= MEMSIZE /\ call.src + call.n <= MEMSIZE
    BY MemMoveAssumption DEF MvInit, Address
  <1>2. PICK u : u = IF Overlaps(call)
                     THEN IF Aligned(call.src + call.n, call.dst + call.n, call.n)
                          THEN WORD ELSE 1
                     ELSE IF Aligned(call.src, call.dst, call.n) THEN WORD ELSE 1
    OBVIOUS
  <1>3. u \in Nat \ {0} /\ call.n % u = 0
    BY <1>1, <1>2, MemMoveAssumption DEF Aligned
  <1>4. PICK k : k = call.n \div u
    OBVIOUS
  <1>5. k \in Nat /\ k * u = call.n
    BY <1>1, <1>3, <1>4, DivExact
  <1>6. rep = IF Overlaps(call)
              THEN [on |-> TRUE, s |-> call.src + call.n - u,
                    d |-> call.dst + call.n - u, count |-> k, unit |-> u, step |-> -u]
              ELSE [on |-> TRUE, s |-> call.src, d |-> call.dst, count |-> k,
                    unit |-> u, step |-> u]
    BY <1>2, <1>4 DEF MvInit, memmove
  <1>7. rep \in [on : BOOLEAN, s : Int, d : Int, count : Nat, unit : Nat \ {0}, step : Int]
    BY <1>1, <1>3, <1>5, <1>6
  <1>8. Left = call.n
    BY <1>5, <1>6 DEF Left
  <1>9. mem = Placed(0, 0) /\ mem = Placed(call.n, call.n)
    BY <1>1, MemMoveAssumption DEF MvInit, Placed, Address
  <1>10. CASE Overlaps(call)
    BY <1>1, <1>6, <1>7, <1>8, <1>9, <1>10 DEF MvInv
  <1>11. CASE ~Overlaps(call)
    BY <1>1, <1>6, <1>7, <1>8, <1>9, <1>11 DEF MvInv
  <1> QED BY <1>10, <1>11

\* An iteration reads bytes that no earlier one has written.
LEMMA MovsKeeps == MvInv /\ Movs => MvInv'
  <1> SUFFICES ASSUME MvInv, Movs PROVE MvInv'
    OBVIOUS
  <1>1. /\ rep.on /\ rep.count > 0
        /\ rep' = [rep EXCEPT !.s = @ + rep.step, !.d = @ + rep.step, !.count = @ - 1]
        /\ mem' = [a \in Address |->
                     IF a \in rep.d..(rep.d + rep.unit - 1)
                     THEN mem[a - rep.d + rep.s] ELSE mem[a]]
        /\ call' = call
    BY DEF Movs
  <1>2. /\ call \in [dst : Nat, src : Nat, n : Nat]
        /\ call.dst + call.n <= MEMSIZE /\ call.src + call.n <= MEMSIZE
        /\ rep \in [on : BOOLEAN, s : Int, d : Int, count : Nat,
                    unit : Nat \ {0}, step : Int]
        /\ Left <= call.n
    BY <1>1 DEF MvInv
  <1>3. PICK u : u = rep.unit
    OBVIOUS
  <1>4. PICK left : left = Left
    OBVIOUS
  <1>5. u \in Nat /\ u > 0 /\ left \in Nat /\ left >= u /\ left <= call.n
    BY <1>1, <1>2, <1>3, <1>4, OneLess DEF Left
  <1>6. /\ rep'.on = rep.on /\ rep'.unit = u /\ rep'.step = rep.step
        /\ rep'.s = rep.s + rep.step /\ rep'.d = rep.d + rep.step
        /\ rep'.count = rep.count - 1
        /\ rep' \in [on : BOOLEAN, s : Int, d : Int, count : Nat,
                     unit : Nat \ {0}, step : Int]
    <2>1. PICK s1, d1, c1 : s1 = rep.s + rep.step /\ d1 = rep.d + rep.step
                            /\ c1 = rep.count - 1
      OBVIOUS
    <2>2. s1 \in Int /\ d1 \in Int /\ c1 \in Nat
      BY <1>1, <1>2, <2>1
    <2>3. rep' = [rep EXCEPT !.s = s1, !.d = d1, !.count = c1]
      BY <1>1, <2>1
    <2>4. rep' \in [on : BOOLEAN, s : Int, d : Int, count : Nat,
                    unit : Nat \ {0}, step : Int]
      BY <1>2, <2>2, <2>3
    <2> QED BY <1>2, <1>3, <2>1, <2>3, <2>4
  <1>7. Left' = left - u
    <2>1. (rep.count - 1) * u = rep.count * u - u
      BY <1>1, <1>2, <1>5, OneLess
    <2> QED BY <1>3, <1>4, <1>6, <2>1 DEF Left
  <1>8. PICK dst, src, n : dst = call.dst /\ src = call.src /\ n = call.n
    OBVIOUS
  <1>9. dst \in Nat /\ src \in Nat /\ n \in Nat /\ MEMSIZE \in Nat
        /\ dst + n <= MEMSIZE /\ src + n <= MEMSIZE /\ left <= n
    BY <1>2, <1>5, <1>8, MemMoveAssumption
  <1>10. CASE /\ ~Overlaps(call) /\ rep.step = u
              /\ rep.s = src + (n - left) /\ rep.d = dst + (n - left)
              /\ mem = Placed(0, n - left)
    <2>1. ~(src < dst /\ src + n > dst)
      BY <1>8, <1>10 DEF Overlaps
    <2>2. mem = [a \in Address |-> IF a \in dst..(dst + (n - left) - 1)
                                   THEN a - dst + src ELSE a]
      BY <1>8, <1>9, <1>10 DEF Placed
    <2>3. mem' = [a \in Address |-> IF a \in dst..(dst + (n - (left - u)) - 1)
                                    THEN a - dst + src ELSE a]
      <3> SUFFICES ASSUME NEW a \in Address
                   PROVE  mem'[a] = IF a \in dst..(dst + (n - (left - u)) - 1)
                                    THEN a - dst + src ELSE a
        BY <1>1
      <3>1. a \in Nat /\ a < MEMSIZE
        BY <1>9 DEF Address
      <3>2. CASE a \in rep.d..(rep.d + u - 1)
        <4>1. PICK x : x = a - rep.d + rep.s
          OBVIOUS
        <4>2. x = a - dst + src /\ x \in Address /\ x \notin dst..(dst + (n - left) - 1)
          BY <1>5, <1>9, <1>10, <2>1, <3>1, <3>2, <4>1 DEF Address
        <4>3. mem'[a] = mem[x]
          BY <1>1, <1>3, <3>2, <4>1
        <4>4. mem[x] = x
          BY <2>2, <4>2
        <4>5. a \in dst..(dst + (n - (left - u)) - 1)
          BY <1>5, <1>9, <1>10, <3>1, <3>2
        <4> QED BY <4>2, <4>3, <4>4, <4>5
      <3>3. CASE a \notin rep.d..(rep.d + u - 1)
        <4>1. mem'[a] = mem[a]
          BY <1>1, <1>3, <3>3
        <4>2. a \in dst..(dst + (n - left) - 1) <=> a \in dst..(dst + (n - (left - u)) - 1)
          BY <1>5, <1>9, <1>10, <3>1, <3>3
        <4> QED BY <2>2, <4>1, <4>2
      <3> QED BY <3>2, <3>3
    <2>4. mem' = Placed(0, n - (left - u))'
      BY <1>1, <1>8, <1>9, <2>3 DEF Placed
    <2>5. rep'.s = src + (n - (left - u)) /\ rep'.d = dst + (n - (left - u)) /\ left - u <= n
      BY <1>5, <1>6, <1>9, <1>10
    <2>6. ~Overlaps(call)' /\ rep'.step = rep'.unit
      BY <1>1, <1>6, <1>10 DEF Overlaps
    <2> QED BY <1>1, <1>2, <1>6, <1>7, <1>8, <2>4, <2>5, <2>6 DEF MvInv
  <1>11. CASE /\ Overlaps(call) /\ rep.step = -u
              /\ rep.s = src + left - u /\ rep.d = dst + left - u
              /\ mem = Placed(left, n)
    <2>1. src < dst
      BY <1>8, <1>11 DEF Overlaps
    <2>2. mem = [a \in Address |-> IF a \in (dst + left)..(dst + n - 1)
                                   THEN a - dst + src ELSE a]
      BY <1>8, <1>11 DEF Placed
    <2>3. mem' = [a \in Address |-> IF a \in (dst + (left - u))..(dst + n - 1)
                                    THEN a - dst + src ELSE a]
      <3> SUFFICES ASSUME NEW a \in Address
                   PROVE  mem'[a] = IF a \in (dst + (left - u))..(dst + n - 1)
                                    THEN a - dst + src ELSE a
        BY <1>1
      <3>1. a \in Nat /\ a < MEMSIZE
        BY <1>9 DEF Address
      <3>2. CASE a \in rep.d..(rep.d + u - 1)
        <4>1. PICK x : x = a - rep.d + rep.s
          OBVIOUS
        <4>2. x = a - dst + src /\ x \in Address /\ x \notin (dst + left)..(dst + n - 1)
          BY <1>5, <1>9, <1>11, <2>1, <3>1, <3>2, <4>1 DEF Address
        <4>3. mem'[a] = mem[x]
          BY <1>1, <1>3, <3>2, <4>1
        <4>4. mem[x] = x
          BY <2>2, <4>2
        <4>5. a \in (dst + (left - u))..(dst + n - 1)
          BY <1>5, <1>9, <1>11, <3>1, <3>2
        <4> QED BY <4>2, <4>3, <4>4, <4>5
      <3>3. CASE a \notin rep.d..(rep.d + u - 1)
        <4>1. mem'[a] = mem[a]
          BY <1>1, <1>3, <3>3
        <4>2. a \in (dst + left)..(dst + n - 1) <=> a \in (dst + (left - u))..(dst + n - 1)
          BY <1>5, <1>9, <1>11, <3>1, <3>3
        <4> QED BY <2>2, <4>1, <4>2
      <3> QED BY <3>2, <3>3
    <2>4. mem' = Placed(left - u, n)'
      BY <1>1, <1>8, <2>3 DEF Placed
    <2>5. rep'.s = src + (left - u) - u /\ rep'.d = dst + (left - u) - u /\ left - u <= n
      BY <1>5, <1>6, <1>9, <1>11
    <2>6. Overlaps(call)' /\ rep'.step = -rep'.unit
      BY <1>1, <1>6, <1>11 DEF Overlaps
    <2> QED BY <1>1, <1>2, <1>6, <1>7, <1>8, <2>4, <2>5, <2>6 DEF MvInv
  <1>12. \/ /\ ~Overlaps(call) /\ rep.step = u
            /\ rep.s = src + (n - left) /\ rep.d = dst + (n - left)
            /\ mem = Placed(0, n - left)
         \/ /\ Overlaps(call) /\ rep.step = -u
            /\ rep.s = src + left - u /\ rep.d = dst + left - u
            /\ mem = Placed(left, n)
    BY <1>1, <1>3, <1>4, <1>8 DEF MvInv
  <1> QED BY <1>10, <1>11, <1>12

\* MvInv is an invariant of memmove, whatever the size of memory and words.
THEOREM MvSafe == Spec => []MvInv
  <1>1. Init => MvInv
    <2>1. MvIdle => MvInv
      BY DEF MvIdle, Idle, MvInv
    <2> QED BY <2>1, MvStarts DEF Init
  <1>2. MvInv /\ [Next]_vars => MvInv'
    <2>1. MvInv /\ UNCHANGED mvVars => MvInv'
      BY DEF mvVars, MvInv, Left, Placed, Overlaps
    <2> QED BY <2>1, MovsKeeps DEF Next, Routine, MvNext, vars
  <1> QED BY <1>1, <1>2, PTL DEF Spec

\* memmove copies exactly, however the areas overlap, for every size of memory
\* and of the words that movsl moves.
THEOREM MemmoveCopies == Spec => []CopyIsExact
  <1>1. MvInv => CopyIsExact
    <2> SUFFICES ASSUME MvInv, rep.on, rep.count = 0
                 PROVE  mem = [a \in Address |->
                                 IF a \in call.dst..(call.dst + call.n - 1)
                                 THEN a - call.dst + call.src ELSE a]
      BY DEF CopyIsExact
    <2>1. Left = 0 /\ call.dst \in Nat /\ call.n \in Nat
      BY DEF MvInv, Left
    <2>2. mem = Placed(0, call.n)
      BY <2>1 DEF MvInv
    <2> QED BY <2>1, <2>2 DEF Placed
  <1> QED BY <1>1, MvSafe, PTL
-----------------------------------------------------------------------------
(* The keyboard.                                                           *)

ShiftFlag == {"SHIFT", "CTL", "ALT", "E0ESC", "CAPSLOCK", "NUMLOCK", "SCROLLLOCK"}
Modifier == {"SHIFT", "CTL", "ALT"}

\* What kbd_proc_data makes of shift for a scan code.
Processed(sh, data) == kbd_proc_data(sh, data[1], data[2]).shift

\* The values of shift while the codes of q are processed one after the other.
Path(f, q, sh) ==
    /\ f \in [0..Len(q) -> SUBSET ShiftFlag]
    /\ f[0] = sh
    /\ \A i \in 1..Len(q) : f[i] = Processed(f[i - 1], q[i])

\* The modifiers that are on come from keys held down.
ComesFrom(sh, keys) ==
    /\ "E0ESC" \notin sh
    /\ \A x \in Modifier : x \in sh => \E k \in keys : x \in shiftcode(k)

ScanCode == {<<"E0", TRUE>>} \cup ({k[1] : k \in Key} \X BOOLEAN)

\* Once the codes that wait are processed, shift agrees with the keys held.
KeyInv ==
    /\ held \subseteq Key
    /\ kbd \in Seq(ScanCode)
    /\ \E f : Path(f, kbd, shift) /\ ComesFrom(f[Len(kbd)], held)

\* shift has only its own bits, whatever is processed.
LEMMA ProcessedIsShift ==
    ASSUME NEW sh \in SUBSET ShiftFlag, NEW d
    PROVE  Processed(sh, d) \in SUBSET ShiftFlag
  <1>1. shiftcode(<<d[1], "E0ESC" \in sh>>) \subseteq ShiftFlag
    BY DEF shiftcode, ShiftFlag
  <1>2. togglecode(<<d[1], "E0ESC" \in sh>>) \subseteq ShiftFlag
    BY DEF togglecode, ShiftFlag
  <1> QED BY <1>1, <1>2 DEF Processed, kbd_proc_data, KeyReleased, SymDiff, ShiftFlag

\* The codes of a key are one code, or two with an escape before it.
LEMMA CodesAre ==
    ASSUME NEW k \in Key, NEW b \in BOOLEAN
    PROVE  /\ k[2] \in BOOLEAN
           /\ k[2] => Codes(k, b) = <<<<"E0", TRUE>>, <<k[1], b>>>>
           /\ ~k[2] => Codes(k, b) = <<<<k[1], b>>>>
           /\ <<"E0", TRUE>> \in ScanCode /\ <<k[1], b>> \in ScanCode
  <1>1. k[2] \in BOOLEAN
    BY ConsoleAssumption
  <1>2. <<"E0", TRUE>> \in ScanCode /\ <<k[1], b>> \in ScanCode
    BY DEF ScanCode
  <1>3. k[2] => Codes(k, b) = <<<<"E0", TRUE>>, <<k[1], b>>>>
    BY Zenon DEF Codes
  <1>4. ~k[2] => Codes(k, b) = <<<<k[1], b>>>>
    BY Zenon DEF Codes
  <1> QED BY <1>1, <1>2, <1>3, <1>4

\* A code of a key, after its escape if it has one, switches its modifier and
\* no other, and takes the escape away.
LEMMA KeyCode ==
    ASSUME NEW k \in Key, NEW sh \in SUBSET ShiftFlag, NEW b \in BOOLEAN,
           "E0ESC" \in sh <=> k[2]
    PROVE  /\ "E0ESC" \notin Processed(sh, <<k[1], b>>)
           /\ \A x \in Modifier :
                 x \in Processed(sh, <<k[1], b>>)
                    => /\ x \in sh \/ x \in shiftcode(k)
                       /\ b => x \in sh /\ x \notin shiftcode(k)
  <1>1. k = <<k[1], k[2]>> /\ k[1] # "E0" /\ k[2] \in BOOLEAN
    BY ConsoleAssumption
  <1>2. ("E0ESC" \in sh) = k[2]
    BY <1>1
  <1>3. <<k[1], "E0ESC" \in sh>> = k
    BY <1>1, <1>2
  <1>4. "E0ESC" \notin shiftcode(k)
    BY DEF shiftcode
  <1>5. \A x \in Modifier \cup {"E0ESC"} : x \notin togglecode(k)
    BY DEF togglecode, Modifier
  <1>6. Processed(sh, <<k[1], b>>) =
           IF b THEN KeyReleased(sh, k[1])
           ELSE SymDiff((sh \ {"E0ESC"}) \cup shiftcode(k), togglecode(k))
    BY <1>1, <1>3 DEF Processed, kbd_proc_data
  <1>7. KeyReleased(sh, k[1]) = sh \ (shiftcode(k) \cup {"E0ESC"})
    BY <1>3 DEF KeyReleased
  <1>8. CASE b
    BY <1>6, <1>7, <1>8 DEF Modifier
  <1>9. CASE ~b
    BY <1>4, <1>5, <1>6, <1>9 DEF SymDiff, Modifier
  <1> QED BY <1>8, <1>9

\* The escape changes nothing else.
LEMMA EscapeCode ==
    ASSUME NEW sh \in SUBSET ShiftFlag
    PROVE  Processed(sh, <<"E0", TRUE>>) = sh \cup {"E0ESC"}
  BY DEF Processed, kbd_proc_data

\* One more code at the end of those that wait.
LEMMA PathGrows ==
    ASSUME NEW q \in Seq(ScanCode), NEW sh, NEW f, Path(f, q, sh), NEW d \in ScanCode
    PROVE  \E g : /\ Path(g, Append(q, d), sh)
                  /\ g[Len(Append(q, d))] = Processed(f[Len(q)], d)
  <1>1. PICK n : n = Len(q)
    OBVIOUS
  <1>2. PICK q2 : q2 = Append(q, d)
    OBVIOUS
  <1>3. n \in Nat /\ Len(q2) = n + 1 /\ q2[n + 1] = d /\ \A i \in 1..n : q2[i] = q[i]
    BY <1>1, <1>2
  <1>4. /\ f \in [0..n -> SUBSET ShiftFlag] /\ f[0] = sh
        /\ \A i \in 1..n : f[i] = Processed(f[i - 1], q[i])
    BY <1>1 DEF Path
  <1> DEFINE g == [i \in 0..(n + 1) |-> IF i = n + 1 THEN Processed(f[n], d) ELSE f[i]]
  <1>5. Processed(f[n], d) \in SUBSET ShiftFlag
    BY <1>3, <1>4, ProcessedIsShift
  <1>6. g \in [0..(n + 1) -> SUBSET ShiftFlag]
    BY <1>3, <1>4, <1>5
  <1>7. g[0] = sh /\ g[n + 1] = Processed(f[n], d) /\ \A i \in 0..n : g[i] = f[i]
    BY <1>3, <1>4
  <1> HIDE DEF g
  <1>8. ASSUME NEW i \in 1..(n + 1)
        PROVE  g[i] = Processed(g[i - 1], q2[i])
    <2>1. CASE i = n + 1
      BY <1>3, <1>7, <2>1
    <2>2. CASE i # n + 1
      <3>1. i \in 1..n /\ i \in 0..n /\ i - 1 \in 0..n
        BY <1>3, <2>2
      <3> QED BY <1>3, <1>4, <1>7, <3>1
    <2> QED BY <2>1, <2>2
  <1>9. Path(g, q2, sh) /\ g[Len(q2)] = Processed(f[n], d)
    BY <1>3, <1>6, <1>7, <1>8 DEF Path
  <1> QED BY <1>1, <1>2, <1>9

\* The first code is processed.
LEMMA PathShrinks ==
    ASSUME NEW q \in Seq(ScanCode), q # <<>>, NEW sh, NEW f, Path(f, q, sh)
    PROVE  \E g : /\ Path(g, Tail(q), Processed(sh, q[1]))
                  /\ g[Len(Tail(q))] = f[Len(q)]
  <1>1. PICK n : n = Len(Tail(q))
    OBVIOUS
  <1>2. PICK t : t = Tail(q)
    OBVIOUS
  <1>3. n \in Nat /\ Len(q) = n + 1 /\ Len(t) = n /\ \A i \in 1..n : t[i] = q[i + 1]
    BY <1>1, <1>2
  <1>4. /\ f \in [0..(n + 1) -> SUBSET ShiftFlag] /\ f[0] = sh
        /\ \A i \in 1..(n + 1) : f[i] = Processed(f[i - 1], q[i])
    BY <1>3 DEF Path
  <1> DEFINE g == [i \in 0..n |-> f[i + 1]]
  <1>5. g \in [0..n -> SUBSET ShiftFlag]
    BY <1>3, <1>4
  <1>6. \A i \in 0..n : g[i] = f[i + 1]
    OBVIOUS
  <1> HIDE DEF g
  <1>7. g[0] = Processed(sh, q[1])
    BY <1>3, <1>4, <1>6
  <1>8. ASSUME NEW i \in 1..n
        PROVE  g[i] = Processed(g[i - 1], t[i])
    <2>1. i \in 0..n /\ i - 1 \in 0..n /\ (i - 1) + 1 = i /\ i + 1 \in 1..(n + 1) /\ (i + 1) - 1 = i
      BY <1>3
    <2> QED BY <1>3, <1>4, <1>6, <2>1
  <1>9. Path(g, t, Processed(sh, q[1])) /\ g[n] = f[n + 1]
    BY <1>3, <1>5, <1>6, <1>7, <1>8 DEF Path
  <1> QED BY <1>2, <1>3, <1>9

\* Two sequences of one code are one of two codes.
LEMMA TwoCodes ==
    ASSUME NEW S, NEW d \in S, NEW e \in S
    PROVE  <<e>> \o <<d>> = <<e, d>> /\ <<e>> \in Seq(S) /\ <<d>> \in Seq(S)
  <1>1. <<e>> \in Seq(S) /\ <<d>> \in Seq(S) /\ <<e, d>> \in Seq(S)
    OBVIOUS
  <1>2. Len(<<e>>) = 1 /\ Len(<<d>>) = 1 /\ Len(<<e, d>>) = 2
    OBVIOUS
  <1>3. PICK t : t = <<e>> \o <<d>>
    OBVIOUS
  <1>4. t \in Seq(S) /\ Len(t) = 2
    BY <1>1, <1>2, <1>3, ConcatProperties
  <1>5. \A i \in 1..2 : t[i] = IF i <= 1 THEN <<e>>[i] ELSE <<d>>[i - 1]
    BY <1>1, <1>2, <1>3, ConcatProperties
  <1>6. \A i \in 1..2 : t[i] = <<e, d>>[i]
    BY <1>5
  <1> QED BY <1>1, <1>2, <1>3, <1>4, <1>6, SeqEqual

\* The codes of a key at the end of those that wait.
LEMMA KeyIsSent ==
    ASSUME KeyInv, NEW k \in Key, NEW b \in BOOLEAN, NEW keys,
           kbd' = kbd \o Codes(k, b), shift' = shift, held' = keys, keys \subseteq Key,
           b => keys = held \ {k}, ~b => keys = held \cup {k}
    PROVE  KeyInv'
  <1>1. PICK f : Path(f, kbd, shift) /\ ComesFrom(f[Len(kbd)], held)
    BY DEF KeyInv
  <1>2. kbd \in Seq(ScanCode)
    BY DEF KeyInv
  <1>3. PICK last : last = f[Len(kbd)]
    OBVIOUS
  <1>4. last \in SUBSET ShiftFlag /\ ComesFrom(last, held)
    BY <1>1, <1>2, <1>3 DEF Path
  <1> DEFINE sent(sh, q, g) == /\ q \in Seq(ScanCode)
                               /\ Path(g, q, shift) /\ g[Len(q)] = Processed(sh, <<k[1], b>>)
  <1>5. PICK pre : pre = IF k[2] THEN last \cup {"E0ESC"} ELSE last
    OBVIOUS
  <1>6. \E g : sent(pre, kbd \o Codes(k, b), g)
    <2>1. PICK d, e : d = <<k[1], b>> /\ e = <<"E0", TRUE>>
      OBVIOUS
    <2>2. /\ d \in ScanCode /\ e \in ScanCode /\ k[2] \in BOOLEAN
          /\ k[2] => Codes(k, b) = <<e, d>>
          /\ ~k[2] => Codes(k, b) = <<d>>
      BY <2>1, CodesAre
    <2>3. CASE k[2]
      <3>1. PICK q1 : q1 = Append(kbd, e)
        OBVIOUS
      <3>2. PICK g1 : Path(g1, q1, shift) /\ g1[Len(q1)] = Processed(last, e)
        BY <1>1, <1>2, <1>3, <2>2, <3>1, PathGrows
      <3>3. q1 \in Seq(ScanCode) /\ kbd \o Codes(k, b) = Append(q1, d)
        <4>1. q1 \in Seq(ScanCode) /\ q1 = kbd \o <<e>> /\ Append(q1, d) = q1 \o <<d>>
          BY <1>2, <2>2, <3>1, AppendIsConcat
        <4>2. <<e>> \o <<d>> = <<e, d>> /\ <<e>> \in Seq(ScanCode) /\ <<d>> \in Seq(ScanCode)
          BY <2>2, TwoCodes
        <4>3. (kbd \o <<e>>) \o <<d>> = kbd \o (<<e>> \o <<d>>)
          BY <1>2, <4>2, ConcatAssociative
        <4> QED BY <2>2, <2>3, <4>1, <4>2, <4>3
      <3>4. g1[Len(q1)] = pre
        BY <1>4, <1>5, <2>1, <2>3, <3>2, EscapeCode
      <3>5. PICK g : /\ Path(g, Append(q1, d), shift)
                     /\ g[Len(Append(q1, d))] = Processed(g1[Len(q1)], d)
        BY <2>2, <3>2, <3>3, PathGrows
      <3>6. Append(q1, d) \in Seq(ScanCode)
        BY <2>2, <3>3
      <3> QED BY <2>1, <3>3, <3>4, <3>5, <3>6
    <2>4. CASE ~k[2]
      <3>1. kbd \o Codes(k, b) = Append(kbd, d)
        BY <1>2, <2>2, <2>4, AppendIsConcat
      <3>2. PICK g : /\ Path(g, Append(kbd, d), shift)
                     /\ g[Len(Append(kbd, d))] = Processed(last, d)
        BY <1>1, <1>2, <1>3, <2>2, PathGrows
      <3>3. Append(kbd, d) \in Seq(ScanCode)
        BY <1>2, <2>2
      <3> QED BY <1>5, <2>1, <2>4, <3>1, <3>2, <3>3
    <2> QED BY <2>2, <2>3, <2>4
  <1>7. PICK g : sent(pre, kbd', g)
    BY <1>6
  <1>8. ComesFrom(Processed(pre, <<k[1], b>>), keys)
    <2>1. pre \in SUBSET ShiftFlag /\ ("E0ESC" \in pre <=> k[2])
      BY <1>4, <1>5 DEF ShiftFlag, ComesFrom
    <2>2. \A x \in Modifier : x \in pre => x \in last
      BY <1>5 DEF Modifier
    <2>3. ASSUME NEW x \in Modifier, x \in Processed(pre, <<k[1], b>>)
          PROVE  \E j \in keys : x \in shiftcode(j)
      <3>1. /\ x \in last \/ x \in shiftcode(k)
            /\ b => x \in last /\ x \notin shiftcode(k)
        BY <2>1, <2>2, <2>3, KeyCode
      <3>2. x \in last => \E j \in held : x \in shiftcode(j)
        BY <1>4 DEF ComesFrom
      <3>3. CASE b
        BY <3>1, <3>2, <3>3
      <3>4. CASE ~b
        BY <3>1, <3>2, <3>4
      <3> QED BY <3>3, <3>4
    <2> QED BY <2>1, <2>3, KeyCode DEF ComesFrom
  <1> QED BY <1>7, <1>8 DEF KeyInv

\* KeyInv is an invariant: keys pressed and released in any order.
THEOREM KeysSafe == Spec => []KeyInv
  <1>1. Init => KeyInv
    <2> SUFFICES ASSUME kbd = <<>>, held = {}, shift = {} PROVE KeyInv
      BY DEF Init, CsInit, CsIdle, CsState
    <2> DEFINE f == [i \in 0..0 |-> {}]
    <2>1. f[0] = {} /\ f \in [0..0 -> SUBSET ShiftFlag]
      OBVIOUS
    <2> HIDE DEF f
    <2>2. Path(f, kbd, shift) /\ ComesFrom(f[Len(kbd)], held)
      BY <2>1 DEF Path, ComesFrom
    <2> QED BY <2>2 DEF KeyInv
  <1>2. KeyInv /\ [Next]_vars => KeyInv'
    <2> SUFFICES ASSUME KeyInv, [Next]_vars PROVE KeyInv'
      OBVIOUS
    <2>1. CASE UNCHANGED <<kbd, held, shift>>
      BY <2>1 DEF KeyInv, Path
    <2>2. ASSUME NEW k \in Key, KeyDown(k) PROVE KeyInv'
      <3>1. kbd' = kbd \o Codes(k, FALSE) /\ shift' = shift /\ held' = held \cup {k}
        BY <2>2 DEF KeyDown
      <3>2. held \cup {k} \subseteq Key
        BY DEF KeyInv
      <3> QED BY <3>1, <3>2, KeyIsSent
    <2>3. ASSUME NEW k \in Key, KeyUp(k) PROVE KeyInv'
      <3>1. kbd' = kbd \o Codes(k, TRUE) /\ shift' = shift /\ held' = held \ {k}
        BY <2>3 DEF KeyUp
      <3>2. held \ {k} \subseteq Key
        BY DEF KeyInv
      <3> QED BY <3>1, <3>2, KeyIsSent
    <2>4. CASE KbdIntr /\ kbd # <<>>
      <3>1. /\ kbd' = Tail(kbd) /\ held' = held
            /\ shift' = Processed(shift, kbd[1])
        BY <2>4 DEF KbdIntr, Processed
      <3>2. PICK f : Path(f, kbd, shift) /\ ComesFrom(f[Len(kbd)], held)
        BY DEF KeyInv
      <3>3. kbd \in Seq(ScanCode)
        BY DEF KeyInv
      <3>4. PICK g : /\ Path(g, Tail(kbd), Processed(shift, kbd[1]))
                     /\ g[Len(Tail(kbd))] = f[Len(kbd)]
        BY <2>4, <3>2, <3>3, PathShrinks
      <3>5. Tail(kbd) \in Seq(ScanCode)
        BY <2>4, <3>3
      <3> QED BY <3>1, <3>2, <3>4, <3>5 DEF KeyInv
    <2>5. CASE KbdIntr /\ kbd = <<>>
      <3>1. UNCHANGED <<kbd, held, shift>>
        BY <2>5 DEF KbdIntr
      <3> QED BY <2>1, <3>1
    <2>6. CASE Cpu /\ ~KbdIntr
      <3>1. UNCHANGED <<kbd, held, shift>>
        BY <2>6 DEF Cpu, ConsPutc, SerialIntr, Take, SysCgetc, UserReturn, ProgramEnds,
                    KbdIrq, Erase, Store, EndLine, Ignore, devVars
      <3> QED BY <2>1, <3>1
    <2>7. CASE Input
      <3>1. ASSUME NEW ch \in SerialChar, SerialIn(ch) PROVE KeyInv'
        <4>1. UNCHANGED <<kbd, held, shift>>
          BY <3>1 DEF SerialIn
        <4> QED BY <2>1, <4>1
      <3> QED BY <2>2, <2>3, <2>7, <3>1 DEF Input
    <2>8. ASSUME NEW ch \in UserChar, SysCputs(ch) PROVE KeyInv'
      <3>1. UNCHANGED <<kbd, held, shift>>
        BY <2>8 DEF SysCputs
      <3> QED BY <2>1, <3>1
    <2>9. CASE UNCHANGED csVars
      <3>1. UNCHANGED <<kbd, held, shift>>
        BY <2>9 DEF csVars, devVars
      <3> QED BY <2>1, <3>1
    <2>10. CsNext \/ UNCHANGED csVars
      BY DEF Next, Routine, vars
    <2> QED BY <2>4, <2>5, <2>6, <2>7, <2>8, <2>9, <2>10 DEF CsNext
  <1> QED BY <1>1, <1>2, PTL DEF Spec

\* kbd_proc_data: whichever keys there are, and in whatever order they go down and
\* up, no modifier stays on and no escape stays pending once they are up.
THEOREM NothingSticks == Spec => []NoStuckModifier
  <1>1. KeyInv => NoStuckModifier
    <2> SUFFICES ASSUME KeyInv, kbd = <<>>, \A k \in held : shiftcode(k) = {}
                 PROVE  shift \cap {"SHIFT", "CTL", "ALT", "E0ESC"} = {}
      BY DEF NoStuckModifier
    <2>1. PICK f : Path(f, kbd, shift) /\ ComesFrom(f[Len(kbd)], held)
      BY DEF KeyInv
    <2>2. ComesFrom(shift, held)
      BY <2>1 DEF Path
    <2> QED BY <2>2 DEF ComesFrom, Modifier
  <1> QED BY <1>1, KeysSafe, PTL
-----------------------------------------------------------------------------
(* The input buffer.                                                       *)

Pos == 0..(CONSBUFSIZE - 1)
Stored == Char \cup {NoChar}

\* cons is a circular buffer, and what the serial port has is a character.
QInv ==
    /\ cons \in [buf : [Pos -> Stored], rpos : Pos, wpos : Pos]
    /\ rx \in SerialChar \cup {NoData}

\* The n-th place after a position, counted around the buffer.
Place(from, n) == IF from + n < CONSBUFSIZE THEN from + n ELSE from + n - CONSBUFSIZE

\* How many characters wait.
Count(q) == IF q.rpos <= q.wpos THEN q.wpos - q.rpos ELSE q.wpos - q.rpos + CONSBUFSIZE

\* The buffer has at least two places.
LEMMA BufferSize == CONSBUFSIZE \in Nat /\ CONSBUFSIZE > 1
  <1>1. CONSBUFSIZE \in Nat \ {0, 1}
    BY ConsoleAssumption, Zenon
  <1> QED BY <1>1

\* Content, without remainders.
LEMMA ContentIs ==
    ASSUME NEW q \in [buf : [Pos -> Stored], rpos : Pos, wpos : Pos]
    PROVE  /\ Content(q) \in Seq(Stored) /\ Len(Content(q)) = Count(q)
           /\ Count(q) \in Nat /\ Count(q) < CONSBUFSIZE
           /\ \A n \in 1..Count(q) : Content(q)[n] = q.buf[Place(q.rpos, n - 1)]
  <1>1. PICK r0, w0, size : r0 = q.rpos /\ w0 = q.wpos /\ size = CONSBUFSIZE
    OBVIOUS
  <1>2. size \in Nat \ {0} /\ r0 \in 0..(size - 1) /\ w0 \in 0..(size - 1)
    BY <1>1, BufferSize DEF Pos
  <1>3. PICK k : k = Count(q)
    OBVIOUS
  <1>4. k \in Nat /\ k < size
    BY <1>1, <1>2, <1>3 DEF Count
  <1>5. (w0 - r0 + size) % size = k
    <2>1. CASE r0 <= w0
      <3>1. w0 - r0 \in 0..(size - 1) /\ k = w0 - r0
        BY <1>1, <1>2, <1>3, <2>1 DEF Count
      <3> QED BY <1>2, <3>1, ModSmall
    <2>2. CASE ~(r0 <= w0)
      <3>1. k \in 0..(size - 1) /\ k = w0 - r0 + size
        BY <1>1, <1>2, <1>3, <2>2 DEF Count
      <3> QED BY <1>2, <3>1, ModSmall
    <2> QED BY <2>1, <2>2
  <1>6. ASSUME NEW n \in 1..k
        PROVE  (r0 + n - 1) % size = Place(r0, n - 1) /\ Place(r0, n - 1) \in Pos
    <2>1. CASE r0 + (n - 1) < size
      <3>1. r0 + n - 1 \in 0..(size - 1) /\ r0 + n - 1 = r0 + (n - 1)
        BY <1>2, <1>4, <1>6, <2>1
      <3>2. (r0 + n - 1) % size = r0 + n - 1
        BY <1>2, <3>1, ModSmall
      <3>3. Place(r0, n - 1) = r0 + (n - 1)
        BY <1>1, <2>1 DEF Place
      <3> QED BY <1>1, <3>1, <3>2, <3>3 DEF Pos
    <2>2. CASE ~(r0 + (n - 1) < size)
      <3>1. PICK x : x = r0 + (n - 1) - size
        OBVIOUS
      <3>2. x \in 0..(size - 1) /\ x + size = r0 + n - 1
        BY <1>2, <1>4, <1>6, <2>2, <3>1
      <3>3. (x + size) % size = x
        BY <1>2, <3>2, ModSmall
      <3>4. Place(r0, n - 1) = x
        BY <1>1, <2>2, <3>1 DEF Place
      <3> QED BY <1>1, <3>2, <3>3, <3>4 DEF Pos
    <2> QED BY <2>1, <2>2
  <1>7. Content(q) = [n \in 1..k |-> q.buf[(r0 + n - 1) % size]]
    BY <1>1, <1>5 DEF Content
  <1>8. \A n \in 1..k : Content(q)[n] = q.buf[Place(r0, n - 1)] /\ Content(q)[n] \in Stored
    BY <1>6, <1>7
  <1>9. Content(q) \in [1..k -> Stored]
    BY <1>7, <1>8
  <1>10. Content(q) \in Seq(Stored)
    BY <1>4, <1>9, SeqDef
  <1>11. Len(Content(q)) = k
    BY <1>4, <1>9, <1>10, LenProperties
  <1> QED BY <1>1, <1>3, <1>4, <1>8, <1>10, <1>11

\* The places of what waits are not the place of the next character.
LEMMA PlacesWaiting ==
    ASSUME NEW from \in Pos, NEW to \in Pos, NEW k \in Nat, NEW n \in 1..k,
           k = IF from <= to THEN to - from ELSE to - from + CONSBUFSIZE
    PROVE  Place(from, n - 1) \in Pos /\ Place(from, n - 1) # to
  BY BufferSize DEF Place, Pos

\* Counted from the second place everything is one place nearer.
LEMMA PlaceNext ==
    ASSUME NEW from \in Pos, NEW n \in 1..(CONSBUFSIZE - 1)
    PROVE  Place(Wrap(from), n - 1) = Place(from, n)
  BY BufferSize DEF Place, Wrap, Pos

\* cons_intr: a character goes behind those that wait, or a full buffer empties.
LEMMA StashPuts ==
    ASSUME NEW q \in [buf : [Pos -> Stored], rpos : Pos, wpos : Pos], NEW ch \in Char
    PROVE  /\ Stash(q, ch) \in [buf : [Pos -> Stored], rpos : Pos, wpos : Pos]
           /\ Content(Stash(q, ch)) = IF Len(Content(q)) = CONSBUFSIZE - 1 THEN <<>>
                                      ELSE Append(Content(q), ch)
  <1>1. PICK s : s = Stash(q, ch)
    OBVIOUS
  <1>2. ch # NoChar /\ ch \in Stored
    BY DEF Char, NoChar, Stored
  <1>3. CONSBUFSIZE \in Nat /\ CONSBUFSIZE > 1
    BY BufferSize
  <1>4. q.rpos \in Pos /\ q.wpos \in Pos /\ q.buf \in [Pos -> Stored] /\ Wrap(q.wpos) \in Pos
    BY <1>3 DEF Pos, Wrap
  <1>5. /\ s \in [buf : [Pos -> Stored], rpos : Pos, wpos : Pos]
        /\ s.rpos = q.rpos /\ s.wpos = Wrap(q.wpos)
        /\ s.buf = [q.buf EXCEPT ![q.wpos] = ch]
    <2>1. PICK b1, w1 : b1 = [q.buf EXCEPT ![q.wpos] = ch] /\ w1 = Wrap(q.wpos)
      OBVIOUS
    <2>2. b1 \in [Pos -> Stored] /\ w1 \in Pos
      BY <1>2, <1>4, <2>1
    <2>3. s = [q EXCEPT !.buf = b1, !.wpos = w1]
      BY <1>1, <1>2, <2>1 DEF Stash
    <2>4. s \in [buf : [Pos -> Stored], rpos : Pos, wpos : Pos]
      BY <2>2, <2>3
    <2> QED BY <2>1, <2>3, <2>4
  <1>6. PICK k : k = Count(q)
    OBVIOUS
  <1>7. /\ Content(q) \in Seq(Stored) /\ Len(Content(q)) = k
        /\ k \in Nat /\ k < CONSBUFSIZE
        /\ \A n \in 1..k : Content(q)[n] = q.buf[Place(q.rpos, n - 1)]
    BY <1>6, ContentIs
  <1>8. /\ Content(s) \in Seq(Stored) /\ Len(Content(s)) = Count(s)
        /\ \A n \in 1..Count(s) : Content(s)[n] = s.buf[Place(s.rpos, n - 1)]
    BY <1>5, ContentIs
  <1>9. CASE k = CONSBUFSIZE - 1
    <2>1. Count(s) = 0
      BY <1>3, <1>4, <1>5, <1>6, <1>9 DEF Count, Wrap, Pos
    <2>2. Content(s) = <<>>
      BY <1>8, <2>1
    <2> QED BY <1>1, <1>5, <1>7, <1>9, <2>2
  <1>10. CASE k # CONSBUFSIZE - 1
    <2>1. Count(s) = k + 1
      BY <1>3, <1>4, <1>5, <1>6, <1>7, <1>10 DEF Count, Wrap, Pos
    <2>2. Place(q.rpos, k) = q.wpos
      BY <1>3, <1>4, <1>6 DEF Count, Place, Pos
    <2>3. \A n \in 1..k : Place(q.rpos, n - 1) \in Pos /\ Place(q.rpos, n - 1) # q.wpos
      BY <1>4, <1>6, <1>7, PlacesWaiting, Zenon DEF Count
    <2>4. PICK a : a = Append(Content(q), ch)
      OBVIOUS
    <2>5. a \in Seq(Stored) /\ Len(a) = k + 1 /\ a[k + 1] = ch
          /\ \A n \in 1..k : a[n] = Content(q)[n]
      BY <1>2, <1>7, <2>4, AppendProperties
    <2>6. ASSUME NEW n \in 1..(k + 1) PROVE Content(s)[n] = a[n]
      <3>1. Content(s)[n] = s.buf[Place(q.rpos, n - 1)]
        BY <1>5, <1>8, <2>1
      <3>2. CASE n = k + 1
        <4>1. n - 1 = k
          BY <1>7, <3>2
        <4>2. s.buf[q.wpos] = ch
          BY <1>4, <1>5
        <4> QED BY <2>2, <2>5, <3>1, <3>2, <4>1, <4>2
      <3>3. CASE n # k + 1
        <4>1. n \in 1..k
          BY <1>7, <3>3
        <4>2. s.buf[Place(q.rpos, n - 1)] = q.buf[Place(q.rpos, n - 1)]
          BY <1>4, <1>5, <2>3, <4>1
        <4> QED BY <1>7, <2>5, <3>1, <4>1, <4>2
      <3> QED BY <3>2, <3>3
    <2>7. Content(s) = a
      BY <1>8, <2>1, <2>5, <2>6, SeqEqual
    <2> QED BY <1>1, <1>5, <1>7, <1>10, <2>4, <2>7
  <1> QED BY <1>9, <1>10

\* cons_getc: the first of those that wait comes out.
LEMMA TakeGets ==
    ASSUME NEW q \in [buf : [Pos -> Stored], rpos : Pos, wpos : Pos]
    PROVE  /\ Waiting(q) <=> Content(q) # <<>>
           /\ Waiting(q) =>
                 /\ [q EXCEPT !.rpos = Wrap(@)]
                       \in [buf : [Pos -> Stored], rpos : Pos, wpos : Pos]
                 /\ q.buf[q.rpos] = Head(Content(q))
                 /\ Content([q EXCEPT !.rpos = Wrap(@)]) = Tail(Content(q))
  <1>1. CONSBUFSIZE \in Nat /\ CONSBUFSIZE > 1
    BY BufferSize
  <1>2. q.rpos \in Pos /\ q.wpos \in Pos /\ q.buf \in [Pos -> Stored] /\ Wrap(q.rpos) \in Pos
    BY <1>1 DEF Pos, Wrap
  <1>3. PICK k : k = Count(q)
    OBVIOUS
  <1>4. /\ Content(q) \in Seq(Stored) /\ Len(Content(q)) = k
        /\ k \in Nat /\ k < CONSBUFSIZE
        /\ \A n \in 1..k : Content(q)[n] = q.buf[Place(q.rpos, n - 1)]
    BY <1>3, ContentIs
  <1>5. Waiting(q) <=> k # 0
    BY <1>1, <1>2, <1>3 DEF Count, Waiting, Pos
  <1>6. k = 0 <=> Content(q) = <<>>
    BY <1>4, EmptySeq
  <1>7. ASSUME Waiting(q)
        PROVE  /\ [q EXCEPT !.rpos = Wrap(@)]
                     \in [buf : [Pos -> Stored], rpos : Pos, wpos : Pos]
               /\ q.buf[q.rpos] = Head(Content(q))
               /\ Content([q EXCEPT !.rpos = Wrap(@)]) = Tail(Content(q))
    <2>1. PICK s : s = [q EXCEPT !.rpos = Wrap(q.rpos)]
      OBVIOUS
    <2>2. /\ s \in [buf : [Pos -> Stored], rpos : Pos, wpos : Pos]
          /\ s.rpos = Wrap(q.rpos) /\ s.wpos = q.wpos /\ s.buf = q.buf
      BY <1>2, <2>1
    <2>3. /\ Content(s) \in Seq(Stored) /\ Len(Content(s)) = Count(s)
          /\ \A n \in 1..Count(s) : Content(s)[n] = s.buf[Place(s.rpos, n - 1)]
      BY <2>2, ContentIs
    <2>4. k >= 1 /\ Count(s) = k - 1
      BY <1>1, <1>2, <1>3, <1>4, <1>5, <1>7, <2>2 DEF Count, Wrap, Pos
    <2>5. q.buf[q.rpos] = Head(Content(q))
      <3>1. Place(q.rpos, 0) = q.rpos /\ 1 - 1 = 0 /\ 1 \in 1..k
        BY <1>1, <1>2, <1>4, <2>4 DEF Place, Pos
      <3>2. Content(q)[1] = q.buf[q.rpos]
        BY <1>4, <3>1
      <3> QED BY <1>4, <2>4, <3>2
    <2>6. PICK t : t = Tail(Content(q))
      OBVIOUS
    <2>7. t \in Seq(Stored) /\ Len(t) = k - 1 /\ \A n \in 1..(k - 1) : t[n] = Content(q)[n + 1]
      BY <1>4, <1>6, <2>4, <2>6
    <2>8. ASSUME NEW n \in 1..(k - 1) PROVE Content(s)[n] = t[n]
      <3>1. n + 1 \in 1..k /\ (n + 1) - 1 = n
        BY <1>4, <2>4
      <3>2. Place(s.rpos, n - 1) = Place(q.rpos, n)
        <4>1. n \in 1..(CONSBUFSIZE - 1)
          BY <1>1, <1>4
        <4> QED BY <1>2, <2>2, <4>1, PlaceNext
      <3>3. Content(s)[n] = s.buf[Place(s.rpos, n - 1)]
        BY <2>3, <2>4
      <3>4. t[n] = Content(q)[n + 1] /\ Content(q)[n + 1] = q.buf[Place(q.rpos, (n + 1) - 1)]
        BY <1>4, <2>7, <3>1
      <3> QED BY <2>2, <3>1, <3>2, <3>3, <3>4
    <2>9. Content(s) = t
      BY <2>3, <2>4, <2>7, <2>8, SeqEqual
    <2> QED BY <2>1, <2>2, <2>5, <2>6, <2>9
  <1> QED BY <1>5, <1>6, <1>7

\* kbd_proc_data returns a character or 0.
LEMMA KeyGivesChar == \A sh, code, rel : kbd_proc_data(sh, code, rel).c \in Stored
  <1> SUFFICES ASSUME NEW sh, NEW code, NEW rel
               PROVE  kbd_proc_data(sh, code, rel).c \in Stored
    OBVIOUS
  <1>1. \A s, d : charcode(s, d) \in Stored
    BY DEF charcode, Stored, Char, NoChar
  <1>2. \A ch \in Stored : SwapCase(ch) \in Stored
    BY DEF SwapCase, Stored, Char, NoChar
  <1>3. NoChar \in Stored
    BY DEF Stored
  <1> QED BY <1>1, <1>2, <1>3 DEF kbd_proc_data

\* A routine of a device puts a character, or nothing when it has 0.
LEMMA StashRefines ==
    ASSUME QInv, NEW ch \in Stored, cons' = Stash(cons, ch), c' = c
    PROVE  /\ cons' \in [buf : [Pos -> Stored], rpos : Pos, wpos : Pos]
           /\ [Queue!Next]_(Queue!vars)
  <1>1. CASE ch = NoChar
    BY <1>1 DEF Stash, Queue!vars, QInv
  <1>2. CASE ch # NoChar
    <2>1. ch \in Char
      BY <1>2 DEF Stored
    <2>2. /\ cons' \in [buf : [Pos -> Stored], rpos : Pos, wpos : Pos]
          /\ Content(cons)' = IF Len(Content(cons)) = CONSBUFSIZE - 1 THEN <<>>
                              ELSE Append(Content(cons), ch)
      BY <2>1, StashPuts DEF QInv
    <2>3. Queue!Put(ch)
      BY <2>2 DEF Queue!Put
    <2> QED BY <2>1, <2>2, <2>3 DEF Queue!Next
  <1> QED BY <1>1, <1>2

\* Every step of the console keeps the buffer circular and puts a character,
\* gets one, or leaves the queue alone.
LEMMA QueueStep == QInv /\ [Next]_vars => QInv' /\ [Queue!Next]_(Queue!vars)
  <1> SUFFICES ASSUME QInv, [Next]_vars PROVE QInv' /\ [Queue!Next]_(Queue!vars)
    OBVIOUS
  <1>1. cons' = cons /\ c' = c => UNCHANGED Queue!vars
    BY DEF Queue!vars
  <1>2. cons' = cons /\ c' = NoChar => Queue!Next
    BY DEF Queue!Next, Queue!Used
  <1>3. SerialIntr => QInv' /\ [Queue!Next]_(Queue!vars)
    <2> SUFFICES ASSUME SerialIntr PROVE QInv' /\ [Queue!Next]_(Queue!vars)
      OBVIOUS
    <2>1. CASE rx = NoData
      BY <1>1, <2>1 DEF SerialIntr, QInv
    <2>2. CASE rx # NoData
      <3>1. cons' = Stash(cons, rx) /\ rx' = NoData /\ c' = c
        BY <2>2 DEF SerialIntr
      <3>2. rx \in Stored
        BY <2>2, SerialAssumption DEF QInv, Stored
      <3> QED BY <3>1, <3>2, StashRefines DEF QInv
    <2> QED BY <2>1, <2>2
  <1>4. KbdIntr => QInv' /\ [Queue!Next]_(Queue!vars)
    <2> SUFFICES ASSUME KbdIntr PROVE QInv' /\ [Queue!Next]_(Queue!vars)
      OBVIOUS
    <2>1. rx' = rx /\ c' = c
      BY DEF KbdIntr
    <2>2. PICK ch : ch = kbd_proc_data(shift, kbd[1][1], kbd[1][2]).c
      OBVIOUS
    <2>3. ch \in Stored
      BY <2>2, KeyGivesChar
    <2>4. cons' = cons \/ cons' = Stash(cons, ch)
      BY <2>2 DEF KbdIntr
    <2>5. CASE cons' = cons
      BY <1>1, <2>1, <2>5 DEF QInv
    <2>6. CASE cons' = Stash(cons, ch)
      BY <2>1, <2>3, <2>6, StashRefines DEF QInv
    <2> QED BY <2>4, <2>5, <2>6
  <1>5. Take => QInv' /\ [Queue!Next]_(Queue!vars)
    <2> SUFFICES ASSUME Take PROVE QInv' /\ [Queue!Next]_(Queue!vars)
      OBVIOUS
    <2>1. rx' = rx
      BY DEF Take, devVars
    <2>2. CASE Waiting(cons)
      <3>1. c' = cons.buf[cons.rpos] /\ cons' = [cons EXCEPT !.rpos = Wrap(@)]
        BY <2>2 DEF Take
      <3>2. /\ cons' \in [buf : [Pos -> Stored], rpos : Pos, wpos : Pos]
            /\ Content(cons) # <<>> /\ c' = Head(Content(cons))
            /\ Content(cons)' = Tail(Content(cons))
        BY <2>2, <3>1, TakeGets DEF QInv
      <3>3. Queue!Get
        BY <3>2 DEF Queue!Get
      <3> QED BY <2>1, <3>2, <3>3 DEF QInv, Queue!Next
    <2>3. CASE ~Waiting(cons)
      <3>1. cons' = cons /\ c' = NoChar
        BY <2>3 DEF Take
      <3> QED BY <1>2, <2>1, <3>1 DEF QInv
    <2> QED BY <2>2, <2>3
  <1>6. CASE Cpu /\ ~SerialIntr /\ ~KbdIntr /\ ~Take
    <2>1. cons' = cons /\ (c' = c \/ c' = NoChar) /\ rx' = rx
      BY <1>6 DEF Cpu, ConsPutc, SysCgetc, UserReturn, ProgramEnds, KbdIrq, EnterMonitor,
                  Erase, Store, EndLine, Ignore, GetNext, devVars
    <2> QED BY <1>1, <1>2, <2>1 DEF QInv
  <1>7. CASE Input
    <2>1. cons' = cons /\ c' = c
      BY <1>7 DEF Input, KeyDown, KeyUp, SerialIn
    <2>2. rx' = rx \/ rx' \in SerialChar
      BY <1>7 DEF Input, KeyDown, KeyUp, SerialIn
    <2> QED BY <1>1, <2>1, <2>2 DEF QInv
  <1>8. CASE \E ch \in UserChar : SysCputs(ch)
    <2>1. cons' = cons /\ c' = c /\ rx' = rx
      BY <1>8 DEF SysCputs
    <2> QED BY <1>1, <2>1 DEF QInv
  <1>9. CASE UNCHANGED csVars
    <2>1. cons' = cons /\ c' = c /\ rx' = rx
      BY <1>9 DEF csVars, devVars
    <2> QED BY <1>1, <2>1 DEF QInv
  <1>10. CsNext \/ UNCHANGED csVars
    BY DEF Next, Routine, vars
  <1> QED BY <1>3, <1>4, <1>5, <1>6, <1>7, <1>8, <1>9, <1>10 DEF CsNext

\* The buffer is empty in the beginning.
LEMMA QueueStarts == Init => QInv /\ Queue!Init
  <1> SUFFICES ASSUME Init PROVE QInv /\ Queue!Init
    OBVIOUS
  <1>1. /\ cons = [buf |-> [n \in Pos |-> NoChar], rpos |-> 0, wpos |-> 0]
        /\ rx = NoData /\ c = NoChar
    BY DEF Init, CsInit, CsIdle, CsState, Pos
  <1>2. 0 \in Pos /\ NoChar \in Stored
    BY BufferSize DEF Pos, Stored
  <1>3. QInv
    BY <1>1, <1>2 DEF QInv
  <1>4. Content(cons) = <<>>
    <2>1. ~Waiting(cons)
      BY <1>1 DEF Waiting
    <2> QED BY <1>3, <2>1, TakeGets DEF QInv
  <1> QED BY <1>1, <1>3, <1>4 DEF Queue!Init

\* cons_intr and cons_getc implement a bounded queue, for every size of the buffer:
\* each character comes out once and in order, and input is lost only when one more
\* character fills the buffer.
THEOREM BufferIsQueue == Spec => IsInputQueue
  <1>1. Spec => []QInv
    <2>1. Init => QInv
      BY QueueStarts
    <2>2. QInv /\ [Next]_vars => QInv'
      BY QueueStep
    <2> QED BY <2>1, <2>2, PTL DEF Spec
  <1>2. Init => Queue!Init
    BY QueueStarts
  <1>3. QInv /\ [Next]_vars => [Queue!Next]_(Queue!vars)
    BY QueueStep
  <1> QED BY <1>1, <1>2, <1>3, PTL DEF Spec, IsInputQueue, Queue!Spec
-----------------------------------------------------------------------------
(* The screen.                                                             *)

\* What may be on the screen.
Cell == UserChar \cup Char \cup {"K", "m"}

Screen == [buf : [0..(CRT_SIZE - 1) -> Cell], pos : 0..(CRT_SIZE - 1)]

\* The cells before the cursor are the prompt and a line.
Shows(s, line) ==
    /\ s.pos >= Len(line) + 1
    /\ s.buf[s.pos - Len(line) - 1] = "K"
    /\ \A n \in 1..Len(line) : s.buf[s.pos - Len(line) + n - 1] = line[n]

\* While cprintf prints, it will print the prompt last.
EchoInv ==
    /\ crt \in Screen
    /\ out \in Seq(Cell)
    /\ buf \in Seq(Char) /\ Len(buf) < BUFLEN
    /\ mode \in {"user", "monitor"} /\ pc \in {"kbd", "take", "got"} => out = <<>>
    /\ mode = "monitor" =>
          IF out = <<>> THEN Shows(crt, buf) ELSE buf = <<>> /\ out[Len(out)] = "K"

\* The size of the screen: a line and its prompt fit above the last row.
LEMMA ScreenSize ==
    /\ CRT_SIZE \in Nat /\ CRT_COLS \in Nat /\ CRT_COLS > 0
    /\ BUFLEN \in Nat /\ BUFLEN > 0 /\ BUFLEN + CRT_COLS <= CRT_SIZE
  <1>1. CRT_ROWS \in Nat /\ CRT_COLS \in Nat /\ CRT_COLS > 0 /\ BUFLEN \in Nat /\ BUFLEN > 0
        /\ BUFLEN <= CRT_COLS * (CRT_ROWS - 1)
    BY ConsoleAssumption
  <1>2. CRT_COLS * (CRT_ROWS - 1) = CRT_SIZE - CRT_COLS /\ CRT_SIZE \in Nat
    BY <1>1 DEF CRT_SIZE
  <1> QED BY <1>1, <1>2

\* A remainder lies between 0 and the number.
LEMMA ModBound ==
    ASSUME NEW x \in Nat, NEW n \in Nat, n > 0
    PROVE  x % n \in Nat /\ x % n <= x
  OBVIOUS

\* A glyph goes before the cursor, also when the screen moves up, and what was
\* there goes before it.
LEMMA GlyphShows ==
    ASSUME NEW s \in Screen, NEW ch \in Cell, ch \notin {"BS", "LF", "CR"},
           NEW t, t = cga_putc(s, ch)
    PROVE  /\ t \in Screen
           /\ t.pos >= 1 /\ t.buf[t.pos - 1] = ch
           /\ \A k \in Nat : k < BUFLEN /\ k <= s.pos =>
                 /\ t.pos >= k + 1
                 /\ \A j \in 1..k : t.buf[t.pos - 1 - j] = s.buf[s.pos - j]
  <1>1. PICK size, cols : size = CRT_SIZE /\ cols = CRT_COLS
    OBVIOUS
  <1>2. /\ size \in Nat /\ cols \in Nat /\ cols > 0 /\ BUFLEN \in Nat /\ BUFLEN > 0
        /\ BUFLEN + cols <= size
    BY <1>1, ScreenSize
  <1>3. PICK p, b : p = s.pos + 1 /\ b = [s.buf EXCEPT ![s.pos] = ch]
    OBVIOUS
  <1>4. /\ s.pos \in 0..(size - 1) /\ p \in 1..size
        /\ b \in [0..(size - 1) -> Cell] /\ b[p - 1] = ch
        /\ \A n \in 0..(size - 1) : n # p - 1 => b[n] = s.buf[n]
    BY <1>1, <1>2, <1>3 DEF Screen
  <1>5. t = Scroll([buf |-> b, pos |-> p])
    BY <1>3 DEF cga_putc, Glyph
  <1>6. CASE p < size
    <2>1. t = [buf |-> b, pos |-> p]
      BY <1>1, <1>5, <1>6 DEF Scroll
    <2>2. t.pos = p /\ t.buf = b /\ p \in 0..(size - 1)
      BY <1>2, <1>4, <1>6, <2>1
    <2>3. t \in Screen
      BY <1>1, <1>4, <2>1, <2>2 DEF Screen
    <2>4. ASSUME NEW k \in Nat, k < BUFLEN, k <= s.pos
          PROVE  p >= k + 1 /\ \A j \in 1..k : b[p - 1 - j] = s.buf[s.pos - j]
      <3>1. p >= k + 1
        BY <1>2, <1>3, <1>4, <2>4
      <3>2. ASSUME NEW j \in 1..k PROVE b[p - 1 - j] = s.buf[s.pos - j]
        <4>1. p - 1 - j = s.pos - j /\ p - 1 - j \in 0..(size - 1) /\ p - 1 - j # p - 1
          BY <1>2, <1>3, <1>4, <2>4
        <4> QED BY <1>4, <4>1
      <3> QED BY <3>1, <3>2
    <2> QED BY <1>4, <2>2, <2>3, <2>4
  <1>7. CASE ~(p < size)
    <2>1. p = size
      BY <1>2, <1>4, <1>7
    <2>2. PICK blank : blank = " "
      OBVIOUS
    <2>3. PICK m : m = [n \in 0..(size - 1) |-> IF n < size - cols THEN b[n + cols] ELSE blank]
      OBVIOUS
    <2>4. t = [buf |-> m, pos |-> size - cols]
      BY <1>1, <1>5, <1>7, <2>2, <2>1, <2>3 DEF Scroll
    <2>5. m \in [0..(size - 1) -> Cell]
      <3>1. \A n \in 0..(size - 1) : n < size - cols => b[n + cols] \in Cell
        BY <1>2, <1>4
      <3>2. blank \in Cell
        BY <2>2 DEF Cell, Char
      <3> QED BY <2>3, <3>1, <3>2
    <2>6. t.pos = size - cols /\ t.buf = m /\ size - cols \in 0..(size - 1) /\ size - cols >= BUFLEN
      BY <1>2, <2>4
    <2>7. t \in Screen
      BY <1>1, <2>4, <2>5, <2>6 DEF Screen
    <2>8. ASSUME NEW n \in 0..(size - cols - 1) PROVE m[n] = b[n + cols]
      BY <1>2, <2>3
    <2>9. m[size - cols - 1] = ch
      <3>1. size - cols - 1 \in 0..(size - cols - 1) /\ (size - cols - 1) + cols = p - 1
        BY <1>2, <2>1
      <3> QED BY <1>4, <2>8, <3>1
    <2>10. ASSUME NEW k \in Nat, k < BUFLEN, k <= s.pos
          PROVE  /\ size - cols >= k + 1
                 /\ \A j \in 1..k : m[(size - cols) - 1 - j] = s.buf[s.pos - j]
      <3>1. size - cols >= k + 1
        BY <1>2, <2>10
      <3>2. ASSUME NEW j \in 1..k PROVE m[(size - cols) - 1 - j] = s.buf[s.pos - j]
        <4>1. /\ (size - cols) - 1 - j \in 0..(size - cols - 1)
              /\ ((size - cols) - 1 - j) + cols = s.pos - j
              /\ s.pos - j \in 0..(size - 1) /\ s.pos - j # p - 1
          BY <1>2, <1>3, <1>4, <2>1, <2>10
        <4> QED BY <1>4, <2>8, <4>1
      <3> QED BY <3>1, <3>2
    <2> QED BY <1>2, <2>6, <2>7, <2>9, <2>10
  <1> QED BY <1>6, <1>7

\* Whatever is printed, the cursor stays on the screen.
LEMMA PutcScreen ==
    ASSUME NEW s \in Screen, NEW ch \in Cell
    PROVE  cga_putc(s, ch) \in Screen
  <1>1. PICK size, cols : size = CRT_SIZE /\ cols = CRT_COLS
    OBVIOUS
  <1>2. size \in Nat /\ cols \in Nat /\ cols > 0 /\ cols <= size
    BY <1>1, ScreenSize
  <1>3. PICK blank : blank = " "
    OBVIOUS
  <1>4. s.pos \in 0..(size - 1) /\ s.buf \in [0..(size - 1) -> Cell]
    BY <1>1 DEF Screen
  <1>5. blank \in Cell
    BY <1>3 DEF Cell, Char
  <1>6. CASE ch = "BS"
    <2>1. CASE s.pos = 0
      BY <1>6, <2>1 DEF cga_putc
    <2>2. CASE s.pos # 0
      <3>1. cga_putc(s, ch) = [buf |-> [s.buf EXCEPT ![s.pos - 1] = blank], pos |-> s.pos - 1]
        BY <1>3, <1>6, <2>2 DEF cga_putc
      <3>2. s.pos - 1 \in 0..(size - 1) /\ [s.buf EXCEPT ![s.pos - 1] = blank] \in [0..(size - 1) -> Cell]
        BY <1>2, <1>4, <1>5, <2>2
      <3> QED BY <1>1, <3>1, <3>2 DEF Screen
    <2> QED BY <2>1, <2>2
  <1>7. CASE ch = "LF"
    <2>1. PICK p : p = LineStart(s.pos + cols)
      OBVIOUS
    <2>2. p \in Nat /\ p <= s.pos + cols
      <3>1. s.pos + cols \in Nat
        BY <1>2, <1>4
      <3>2. (s.pos + cols) % cols \in Nat /\ (s.pos + cols) % cols <= s.pos + cols
        BY <1>2, <3>1, ModBound
      <3> QED BY <1>1, <2>1, <3>1, <3>2 DEF LineStart
    <2>3. cga_putc(s, ch) = Scroll([s EXCEPT !.pos = p])
      BY <1>1, <1>7, <2>1 DEF cga_putc
    <2>4. [s EXCEPT !.pos = p] = [buf |-> s.buf, pos |-> p]
      BY DEF Screen
    <2>5. CASE p < size
      <3>1. cga_putc(s, ch) = [buf |-> s.buf, pos |-> p] /\ p \in 0..(size - 1)
        BY <1>1, <1>2, <2>2, <2>3, <2>4, <2>5 DEF Scroll
      <3> QED BY <1>1, <1>4, <3>1 DEF Screen
    <2>6. CASE ~(p < size)
      <3>1. PICK m : m = [n \in 0..(size - 1) |->
                            IF n < size - cols THEN s.buf[n + cols] ELSE blank]
        OBVIOUS
      <3>2. cga_putc(s, ch) = [buf |-> m, pos |-> p - cols]
        BY <1>3, <1>1, <2>3, <2>4, <2>6, <3>1 DEF Scroll
      <3>3. \A n \in 0..(size - 1) : n < size - cols => s.buf[n + cols] \in Cell
        BY <1>2, <1>4
      <3>4. m \in [0..(size - 1) -> Cell]
        BY <1>4, <1>5, <3>1, <3>3
      <3>5. p - cols \in 0..(size - 1)
        BY <1>2, <1>4, <2>2, <2>6
      <3> QED BY <1>1, <3>2, <3>4, <3>5 DEF Screen
    <2> QED BY <2>5, <2>6
  <1>8. CASE ch = "CR"
    <2>1. s.pos % cols \in Nat /\ s.pos % cols <= s.pos
      BY <1>2, <1>4, ModBound
    <2>2. LineStart(s.pos) \in 0..(size - 1)
      BY <1>1, <1>2, <1>4, <2>1 DEF LineStart
    <2>3. cga_putc(s, ch) = [s EXCEPT !.pos = LineStart(s.pos)]
      BY <1>8 DEF cga_putc
    <2> QED BY <1>1, <2>2, <2>3 DEF Screen
  <1>9. CASE ch \notin {"BS", "LF", "CR"}
    BY <1>9, GlyphShows
  <1> QED BY <1>6, <1>7, <1>8, <1>9

\* A character is added to the line and to the screen.
LEMMA ShowsMore ==
    ASSUME NEW s \in Screen, NEW ch \in Char, ch \notin {"BS", "LF", "CR"},
           NEW line \in Seq(Char), Len(line) < BUFLEN - 1, Shows(s, line)
    PROVE  Shows(cga_putc(s, ch), Append(line, ch))
  <1>1. PICK t : t = cga_putc(s, ch)
    OBVIOUS
  <1>2. PICK k : k = Len(line)
    OBVIOUS
  <1>3. PICK more : more = Append(line, ch)
    OBVIOUS
  <1>4. k \in Nat /\ Len(more) = k + 1 /\ more[k + 1] = ch /\ \A n \in 1..k : more[n] = line[n]
    BY <1>2, <1>3
  <1>5. ch \in Cell /\ BUFLEN \in Nat /\ s.pos \in Nat
    BY ScreenSize DEF Cell, Screen
  <1>6. /\ t \in Screen /\ t.buf[t.pos - 1] = ch
        /\ \A i \in Nat : i < BUFLEN /\ i <= s.pos =>
              t.pos >= i + 1 /\ \A j \in 1..i : t.buf[t.pos - 1 - j] = s.buf[s.pos - j]
    BY <1>1, <1>5, GlyphShows
  <1>7. t.pos \in Nat
    BY <1>6, ScreenSize DEF Screen
  <1>8. k + 1 \in Nat /\ k + 1 < BUFLEN /\ k + 1 <= s.pos
    BY <1>2, <1>4, <1>5 DEF Shows
  <1>9. t.pos >= k + 2 /\ \A j \in 1..(k + 1) : t.buf[t.pos - 1 - j] = s.buf[s.pos - j]
    BY <1>4, <1>6, <1>7, <1>8
  <1>10. /\ s.buf[s.pos - k - 1] = "K"
         /\ \A n \in 1..k : s.buf[s.pos - k + n - 1] = line[n]
    BY <1>2 DEF Shows
  <1>11. t.buf[t.pos - (k + 1) - 1] = "K"
    <2>1. k + 1 \in 1..(k + 1) /\ t.pos - (k + 1) - 1 = t.pos - 1 - (k + 1) /\ s.pos - (k + 1) = s.pos - k - 1
      BY <1>4, <1>5, <1>7
    <2> QED BY <1>9, <1>10, <2>1
  <1>12. ASSUME NEW n \in 1..(k + 1) PROVE t.buf[t.pos - (k + 1) + n - 1] = more[n]
    <2>1. CASE n = k + 1
      <3>1. t.pos - (k + 1) + n - 1 = t.pos - 1
        BY <1>4, <1>7, <2>1
      <3> QED BY <1>4, <1>6, <2>1, <3>1
    <2>2. CASE n # k + 1
      <3>1. PICK j : j = k + 1 - n
        OBVIOUS
      <3>2. /\ n \in 1..k /\ j \in 1..(k + 1)
            /\ t.pos - (k + 1) + n - 1 = t.pos - 1 - j /\ s.pos - j = s.pos - k + n - 1
        BY <1>4, <1>5, <1>7, <2>2, <3>1
      <3> QED BY <1>4, <1>9, <1>10, <3>2
    <2> QED BY <2>1, <2>2
  <1>13. t.pos >= (k + 1) + 1
    BY <1>4, <1>7, <1>9
  <1>14. Shows(t, more)
    BY <1>4, <1>11, <1>12, <1>13 DEF Shows
  <1> QED BY <1>1, <1>3, <1>14

\* A character is erased from the line and from the screen.
LEMMA ShowsLess ==
    ASSUME NEW s \in Screen, NEW line \in Seq(Char), line # <<>>, Shows(s, line)
    PROVE  /\ Front(line) \in Seq(Char) /\ Len(Front(line)) < Len(line)
           /\ Shows(cga_putc(s, "BS"), Front(line))
  <1>1. PICK k : k = Len(line) - 1
    OBVIOUS
  <1>2. k \in Nat /\ Len(line) = k + 1
    BY <1>1
  <1>3. PICK less : less = Front(line)
    OBVIOUS
  <1>4. less \in Seq(Char) /\ Len(less) = k /\ \A n \in 1..k : less[n] = line[n]
    BY <1>1, <1>2, <1>3 DEF Front
  <1>5. s.pos \in Nat /\ s.pos >= k + 2 /\ s.pos \in 0..(CRT_SIZE - 1)
        /\ s.buf \in [0..(CRT_SIZE - 1) -> Cell] /\ CRT_SIZE \in Nat
    BY <1>2, ScreenSize DEF Screen, Shows
  <1>6. PICK t : t = cga_putc(s, "BS")
    OBVIOUS
  <1>7. s.pos # 0
    BY <1>2, <1>5
  <1>8. PICK blank : blank = " "
    OBVIOUS
  <1>9. t = [buf |-> [s.buf EXCEPT ![s.pos - 1] = blank], pos |-> s.pos - 1]
    BY <1>7, <1>6, <1>8, Zenon DEF cga_putc
  <1>10. t.pos = s.pos - 1 /\ \A n \in 0..(CRT_SIZE - 1) : n # s.pos - 1 => t.buf[n] = s.buf[n]
    BY <1>5, <1>9
  <1>11. t.buf[t.pos - k - 1] = "K"
    <2>1. /\ t.pos - k - 1 = s.pos - (k + 1) - 1
          /\ t.pos - k - 1 \in 0..(CRT_SIZE - 1) /\ t.pos - k - 1 # s.pos - 1
      BY <1>2, <1>5, <1>10
    <2>2. s.buf[s.pos - (k + 1) - 1] = "K"
      BY <1>2 DEF Shows
    <2> QED BY <1>10, <2>1, <2>2
  <1>12. ASSUME NEW n \in 1..k PROVE t.buf[t.pos - k + n - 1] = less[n]
    <2>1. /\ t.pos - k + n - 1 = s.pos - (k + 1) + n - 1 /\ n \in 1..(k + 1)
          /\ t.pos - k + n - 1 \in 0..(CRT_SIZE - 1) /\ t.pos - k + n - 1 # s.pos - 1
      BY <1>2, <1>5, <1>10
    <2>2. s.buf[s.pos - (k + 1) + n - 1] = line[n]
      BY <1>2, <2>1 DEF Shows
    <2> QED BY <1>4, <1>10, <2>1, <2>2
  <1>13. t.pos >= k + 1
    BY <1>2, <1>5, <1>10
  <1>14. Shows(t, less)
    BY <1>4, <1>11, <1>12, <1>13 DEF Shows
  <1>15. Len(less) < Len(line)
    BY <1>2, <1>4
  <1> QED BY <1>3, <1>4, <1>6, <1>14, <1>15

\* Min of a set of numbers that is not empty.
LEMMA MinIs ==
    ASSUME NEW S, S \subseteq Nat, S # {}
    PROVE  Min(S) \in S
  <1>1. PICK x \in S : \A y \in S : x <= y
    BY HasLeast
  <1> QED BY <1>1 DEF Min

\* argv[0] is a piece of the line.
LEMMA FirstWordIs ==
    ASSUME NEW line \in Seq(Char), WordStarts(line) # {}
    PROVE  FirstWord(line) \in Seq(Char)
  <1>1. PICK len : len = Len(line)
    OBVIOUS
  <1>2. PICK i : i = Min(WordStarts(line))
    OBVIOUS
  <1>3. len \in Nat
    BY <1>1
  <1>4. WordStarts(line) \subseteq 1..len
    BY <1>1, Zenon DEF WordStarts
  <1>5. i \in 1..len
    <2>1. 1..len \subseteq Nat
      BY <1>3
    <2> QED BY <1>2, <1>4, <2>1, MinIs
  <1>6. PICK blanks : blanks = {j \in i..len : line[j] = " "}
    OBVIOUS
  <1>7. blanks \subseteq i..len
    BY <1>6, Zenon
  <1>8. PICK n : n = IF blanks = {} THEN len ELSE Min(blanks) - 1
    OBVIOUS
  <1>9. n \in (i - 1)..len
    <2>1. CASE blanks = {}
      BY <1>3, <1>5, <1>8, <2>1
    <2>2. CASE blanks # {}
      <3>1. i..len \subseteq Nat
        BY <1>3, <1>5
      <3>2. Min(blanks) \in i..len
        BY <1>7, <2>2, <3>1, MinIs
      <3>3. n = Min(blanks) - 1
        BY <1>8, <2>2
      <3> QED BY <1>3, <1>5, <3>2, <3>3
    <2> QED BY <2>1, <2>2
  <1>10. FirstWord(line) = SubSeq(line, i, n)
    BY <1>1, <1>2, <1>6, <1>8, Zenon DEF FirstWord
  <1>11. SubSeq(line, i, n) \in Seq(Char)
    BY <1>1, <1>3, <1>5, <1>9, SubSeqProperties
  <1> QED BY <1>10, <1>11

\* What the monitor prints are characters.
LEMMA Printed ==
    /\ Message \in Seq(Cell) /\ Prompt \in Seq(Cell) /\ <<"LF">> \in Seq(Cell)
    /\ \A line \in Seq(Char) : runcmd(line) \in Seq(Cell)
  <1>1. Message \in Seq(Cell) /\ Prompt \in Seq(Cell) /\ <<"LF">> \in Seq(Cell)
    <2>1. "m" \in Cell /\ "K" \in Cell /\ "LF" \in Cell
      BY DEF Cell, Char
    <2> QED BY <2>1 DEF Message, Prompt
  <1>2. mon_help \in Seq(Cell) /\ mon_kerninfo \in Seq(Cell) /\ <<>> \in Seq(Cell)
    BY <1>1, ConcatProperties, EmptySeq DEF mon_help, mon_kerninfo
  <1>3. ASSUME NEW line \in Seq(Char) PROVE runcmd(line) \in Seq(Cell)
    <2>1. CASE WordStarts(line) = {}
      <3>1. runcmd(line) \in {<<>>, Message, mon_help, mon_kerninfo}
        BY <2>1, Zenon DEF runcmd
      <3> QED BY <1>1, <1>2, <3>1
    <2>2. CASE WordStarts(line) # {}
      <3>1. FirstWord(line) \in Seq(Char)
        BY <2>2, FirstWordIs
      <3>2. FirstWord(line) \in Seq(Cell)
        BY <3>1, SeqMonotonic DEF Cell
      <3>3. FirstWord(line) \o Message \in Seq(Cell)
        BY <1>1, <3>2, ConcatProperties
      <3>4. runcmd(line) \in {Message, mon_help, mon_kerninfo, FirstWord(line) \o Message}
        BY <2>2, Zenon DEF runcmd
      <3> QED BY <1>1, <1>2, <3>3, <3>4
    <2> QED BY <2>1, <2>2
  <1> QED BY <1>1, <1>3

\* Something in front of the prompt: the prompt comes last.
LEMMA PromptLast ==
    ASSUME NEW x \in Seq(Cell)
    PROVE  /\ x \o Prompt \in Seq(Cell) /\ x \o Prompt # <<>>
           /\ (x \o Prompt)[Len(x \o Prompt)] = "K"
  <1>1. "K" \in Cell /\ Prompt = <<"K">>
    BY DEF Cell, Prompt
  <1>2. x \o Prompt = Append(x, "K")
    BY <1>1, AppendIsConcat
  <1> QED BY <1>1, <1>2, AppendProperties

\* Shows is what ShowsLine says.
LEMMA ShowsIs ==
    ASSUME NEW s, s.pos \in Nat, NEW line \in Seq(Char)
    PROVE  Shows(s, line) <=>
              LET shown == Prompt \o line
                  start == s.pos - Len(shown)
              IN  /\ start >= 0
                  /\ \A n \in 1..Len(shown) : s.buf[start + n - 1] = shown[n]
  <1>1. PICK shown : shown = Prompt \o line
    OBVIOUS
  <1>2. PICK k : k = Len(line)
    OBVIOUS
  <1>3. /\ k \in Nat /\ Len(shown) = k + 1
        /\ shown[1] = "K" /\ \A n \in 1..k : shown[n + 1] = line[n]
    <2>1. PICK T : T = Char \cup {"K"}
      OBVIOUS
    <2>2. PICK pr : pr = Prompt
      OBVIOUS
    <2>3. pr \in Seq(T) /\ line \in Seq(T) /\ Len(pr) = 1 /\ pr[1] = "K" /\ shown = pr \o line
      <3>1. "K" \in T /\ Char \subseteq T
        BY <2>1
      <3>2. line \in Seq(T)
        BY <3>1, SeqMonotonic
      <3> QED BY <1>1, <2>2, <3>1, <3>2 DEF Prompt
    <2>4. k \in Nat
      BY <1>2
    <2>5. /\ Len(shown) = Len(pr) + Len(line)
          /\ \A i \in 1..(Len(pr) + Len(line)) :
                shown[i] = IF i <= Len(pr) THEN pr[i] ELSE line[i - Len(pr)]
      BY <2>3, ConcatProperties, Zenon
    <2>6. Len(shown) = k + 1
      BY <1>2, <2>3, <2>4, <2>5
    <2>7. \A i \in 1..(1 + k) : shown[i] = IF i <= 1 THEN pr[i] ELSE line[i - 1]
      BY <1>2, <2>3, <2>5, Zenon
    <2>8. shown[1] = "K"
      BY <2>3, <2>4, <2>7
    <2>9. ASSUME NEW n \in 1..k PROVE shown[n + 1] = line[n]
      <3>1. n + 1 \in 1..(1 + k) /\ ~(n + 1 <= 1) /\ (n + 1) - 1 = n
        BY <2>4
      <3> QED BY <2>7, <3>1
    <2> QED BY <2>4, <2>6, <2>8, <2>9
  <1>4. PICK p : p = s.pos
    OBVIOUS
  <1>5. p \in Nat
    BY <1>4
  <1>6. ASSUME Shows(s, line)
        PROVE  p - (k + 1) >= 0 /\ \A n \in 1..(k + 1) : s.buf[p - (k + 1) + n - 1] = shown[n]
    <2>1. /\ p >= k + 1 /\ s.buf[p - k - 1] = "K"
          /\ \A n \in 1..k : s.buf[p - k + n - 1] = line[n]
      BY <1>2, <1>4, <1>6 DEF Shows
    <2>2. ASSUME NEW n \in 1..(k + 1) PROVE s.buf[p - (k + 1) + n - 1] = shown[n]
      <3>1. CASE n = 1
        <4>1. p - (k + 1) + n - 1 = p - k - 1
          BY <1>3, <1>5, <3>1
        <4> QED BY <1>3, <2>1, <3>1, <4>1
      <3>2. CASE n # 1
        <4>1. PICK i : i = n - 1
          OBVIOUS
        <4>2. i \in 1..k /\ n = i + 1 /\ p - (k + 1) + n - 1 = p - k + i - 1
          BY <1>3, <1>5, <3>2, <4>1
        <4> QED BY <1>3, <2>1, <4>2
      <3> QED BY <3>1, <3>2
    <2> QED BY <1>3, <1>5, <2>1, <2>2
  <1>7. ASSUME p - (k + 1) >= 0, \A n \in 1..(k + 1) : s.buf[p - (k + 1) + n - 1] = shown[n]
        PROVE  Shows(s, line)
    <2>1. p >= k + 1
      BY <1>3, <1>5, <1>7
    <2>2. s.buf[p - k - 1] = "K"
      <3>1. 1 \in 1..(k + 1) /\ p - (k + 1) + 1 - 1 = p - k - 1
        BY <1>3, <1>5
      <3> QED BY <1>3, <1>7, <3>1
    <2>3. ASSUME NEW n \in 1..k PROVE s.buf[p - k + n - 1] = line[n]
      <3>1. n + 1 \in 1..(k + 1) /\ p - (k + 1) + (n + 1) - 1 = p - k + n - 1
        BY <1>3, <1>5
      <3> QED BY <1>3, <1>7, <3>1
    <2> QED BY <1>2, <1>4, <2>1, <2>2, <2>3 DEF Shows
  <1> QED BY <1>1, <1>3, <1>4, <1>6, <1>7

\* cprintf prints the next character.
LEMMA PutcEcho == EchoInv /\ ConsPutc => EchoInv'
  <1> SUFFICES ASSUME EchoInv, ConsPutc PROVE EchoInv'
    OBVIOUS
  <1>1. out \in Seq(Cell) /\ out # <<>> /\ crt \in Screen /\ UNCHANGED <<mode, pc, buf>>
    BY DEF EchoInv, ConsPutc
  <1>2. /\ Head(out) \in Cell /\ Tail(out) \in Seq(Cell) /\ Head(out) = out[1]
        /\ Len(out) \in Nat /\ Len(out) >= 1 /\ Len(Tail(out)) = Len(out) - 1
        /\ \A i \in 1..Len(Tail(out)) : Tail(out)[i] = out[i + 1]
    BY <1>1
  <1>3. mode \in {"user", "monitor"} => pc \notin {"kbd", "take", "got"}
    BY <1>1 DEF EchoInv
  <1>4. mode = "monitor" => buf = <<>> /\ out[Len(out)] = "K"
    BY <1>1 DEF EchoInv
  <1>5. PICK k : k = Len(out)
    OBVIOUS
  <1>6. CASE Head(out) = "TAB"
    <2>1. PICK blanks : blanks = <<" ", " ", " ", " ", " ">>
      OBVIOUS
    <2>2. out' = blanks \o Tail(out) /\ crt' = crt
      BY <1>6, <2>1 DEF ConsPutc
    <2>3. blanks \in Seq(Cell) /\ Len(blanks) = 5
      <3>1. PICK blank : blank = " "
        OBVIOUS
      <3>2. blank \in Cell
        BY <3>1 DEF Cell, Char
      <3>3. blanks = <<blank, blank, blank, blank, blank>>
        BY <2>1, <3>1
      <3> QED BY <3>2, <3>3
    <2>4. /\ out' \in Seq(Cell) /\ Len(out') = 5 + (k - 1)
          /\ \A i \in 1..(5 + (k - 1)) : out'[i] = IF i <= 5 THEN blanks[i] ELSE Tail(out)[i - 5]
      <3>1. PICK rest : rest = Tail(out)
        OBVIOUS
      <3>2. rest \in Seq(Cell) /\ Len(rest) = k - 1 /\ out' = blanks \o rest
        BY <1>2, <1>5, <2>2, <3>1
      <3>3. /\ out' \in Seq(Cell) /\ Len(out') = Len(blanks) + Len(rest)
            /\ \A i \in 1..(Len(blanks) + Len(rest)) :
                  out'[i] = IF i <= Len(blanks) THEN blanks[i] ELSE rest[i - Len(blanks)]
        BY <2>3, <3>2, ConcatProperties, Zenon
      <3> QED BY <2>3, <3>1, <3>2, <3>3, Zenon
    <2>5. out' # <<>>
      BY <1>2, <1>5, <2>4
    <2>6. ASSUME mode = "monitor" PROVE out'[Len(out')] = "K"
      <3>1. k # 1
        <4>1. out[k] = "K" /\ out[1] = "TAB"
          BY <1>2, <1>4, <1>5, <1>6, <2>6
        <4> QED BY <4>1
      <3>2. /\ 5 + (k - 1) \in 1..(5 + (k - 1)) /\ ~(5 + (k - 1) <= 5) /\ (5 + (k - 1)) - 5 = k - 1
            /\ k - 1 \in 1..(k - 1) /\ (k - 1) + 1 = k
        BY <1>2, <1>5, <3>1
      <3>3. out'[5 + (k - 1)] = Tail(out)[k - 1]
        BY <2>4, <3>2
      <3>4. Tail(out)[k - 1] = out[k]
        BY <1>2, <1>5, <3>2
      <3> QED BY <1>4, <1>5, <2>4, <2>6, <3>3, <3>4
    <2> QED BY <1>1, <1>3, <1>4, <2>2, <2>4, <2>5, <2>6 DEF EchoInv
  <1>7. CASE Head(out) # "TAB"
    <2>1. crt' = cga_putc(crt, Head(out)) /\ out' = Tail(out)
      BY <1>7 DEF ConsPutc
    <2>2. crt' \in Screen
      BY <1>1, <1>2, <2>1, PutcScreen
    <2>3. CASE k = 1
      <3>1. out' = <<>>
        BY <1>2, <1>5, <2>1, <2>3, EmptySeq
      <3>2. ASSUME mode = "monitor" PROVE Shows(crt', buf')
        <4>1. Head(out) = "K" /\ buf' = <<>>
          BY <1>1, <1>2, <1>4, <1>5, <2>3, <3>2
        <4>2. PICK ch : ch = Head(out)
          OBVIOUS
        <4>3. ch \in Cell /\ ch \notin {"BS", "LF", "CR"} /\ crt' = cga_putc(crt, ch)
          BY <1>2, <2>1, <4>1, <4>2
        <4>4. crt'.pos >= 1 /\ crt'.buf[crt'.pos - 1] = ch
          BY <1>1, <4>3, GlyphShows
        <4>5. crt'.pos \in Nat
          BY <2>2, ScreenSize DEF Screen
        <4>6. Len(buf') = 0 /\ crt'.pos - Len(buf') - 1 = crt'.pos - 1
          BY <4>1, <4>5
        <4> QED BY <4>1, <4>2, <4>4, <4>5, <4>6 DEF Shows
      <3> QED BY <1>1, <1>3, <2>2, <3>1, <3>2, EmptySeq DEF EchoInv
    <2>4. CASE k # 1
      <3>1. /\ Len(out') = k - 1 /\ k - 1 \in 1..(k - 1) /\ (k - 1) + 1 = k
        BY <1>2, <1>5, <2>1, <2>4
      <3>2. out'[Len(out')] = out[Len(out)]
        BY <1>2, <1>5, <2>1, <3>1
      <3>3. out' # <<>> /\ out' \in Seq(Cell)
        BY <1>2, <2>1, <3>1
      <3> QED BY <1>1, <1>3, <1>4, <2>2, <3>2, <3>3 DEF EchoInv
    <2> QED BY <2>3, <2>4
  <1> QED BY <1>6, <1>7

\* readline adds a character, erases one, or begins the next line.
LEMMA ReadlineEcho == EchoInv /\ (Store \/ Erase \/ EndLine \/ Ignore) => EchoInv'
  <1> SUFFICES ASSUME EchoInv, Store \/ Erase \/ EndLine \/ Ignore PROVE EchoInv'
    OBVIOUS
  <1>1. mode = "monitor" /\ pc = "got"
    BY DEF Store, Erase, EndLine, Ignore, Reading
  <1>2. mode' = "monitor" /\ pc' = "serial"
    BY <1>1 DEF Store, Erase, EndLine, Ignore, GetNext
  <1>3. out = <<>> /\ Shows(crt, buf) /\ crt \in Screen
        /\ buf \in Seq(Char) /\ Len(buf) < BUFLEN /\ BUFLEN \in Nat
    BY <1>1, ScreenSize DEF EchoInv
  <1>4. CASE Store
    <2>1. crt' = cga_putc(crt, c) /\ buf' = Append(buf, c) /\ out' = out
          /\ Printable(c) /\ Len(buf) < BUFLEN - 1
      BY <1>4 DEF Store, Fits
    <2>2. c \in Char /\ c \notin {"BS", "LF", "CR"} /\ c \in Cell
      BY <2>1 DEF Printable, Char, Cell
    <2>3. crt' \in Screen
      BY <1>3, <2>1, <2>2, PutcScreen
    <2>4. buf' \in Seq(Char) /\ Len(buf') < BUFLEN
      BY <1>3, <2>1, <2>2
    <2>5. Shows(crt', buf')
      BY <1>3, <2>1, <2>2, ShowsMore
    <2> QED BY <1>2, <1>3, <2>1, <2>3, <2>4, <2>5, EmptySeq DEF EchoInv
  <1>5. CASE Erase
    <2>1. crt' = cga_putc(crt, "BS") /\ buf' = Front(buf) /\ out' = out /\ buf # <<>>
      BY <1>5 DEF Erase, IsErase
    <2>2. "BS" \in Cell
      BY DEF Cell, Char
    <2>3. crt' \in Screen
      BY <1>3, <2>1, <2>2, PutcScreen
    <2>4. buf' \in Seq(Char) /\ Len(buf') < Len(buf) /\ Shows(crt', buf')
      BY <1>3, <2>1, ShowsLess
    <2>5. Len(buf') < BUFLEN
      BY <1>3, <2>4
    <2> QED BY <1>2, <1>3, <2>1, <2>3, <2>4, <2>5, EmptySeq DEF EchoInv
  <1>6. CASE EndLine
    <2>1. out' = (<<"LF">> \o runcmd(buf)) \o Prompt /\ buf' = <<>> /\ crt' = crt
      BY <1>6 DEF EndLine
    <2>2. <<"LF">> \o runcmd(buf) \in Seq(Cell)
      BY <1>3, Printed, ConcatProperties
    <2>3. out' \in Seq(Cell) /\ out' # <<>> /\ out'[Len(out')] = "K"
      BY <2>1, <2>2, PromptLast
    <2>4. buf' \in Seq(Char) /\ Len(buf') < BUFLEN
      BY <2>1, ScreenSize, EmptySeq
    <2> QED BY <1>2, <1>3, <2>1, <2>3, <2>4 DEF EchoInv
  <1>7. CASE Ignore
    <2>1. UNCHANGED <<crt, buf, out>>
      BY <1>7 DEF Ignore
    <2> QED BY <1>2, <1>3, <2>1, EmptySeq DEF EchoInv
  <1> QED BY <1>4, <1>5, <1>6, <1>7

\* The monitor starts with its prompt.
LEMMA MonitorEcho ==
    ASSUME EchoInv, EnterMonitor
    PROVE  EchoInv'
  <1>1. /\ mode' = "monitor" /\ pc' = "serial" /\ buf' = <<>> /\ crt' = crt
        /\ out' = (Message \o Message) \o Prompt
    BY DEF EnterMonitor
  <1>2. Message \o Message \in Seq(Cell)
    BY Printed, ConcatProperties
  <1>3. out' \in Seq(Cell) /\ out' # <<>> /\ out'[Len(out')] = "K"
    BY <1>1, <1>2, PromptLast
  <1>4. buf' \in Seq(Char) /\ Len(buf') < BUFLEN
    BY <1>1, ScreenSize, EmptySeq
  <1> QED BY <1>1, <1>3, <1>4 DEF EchoInv

\* What leaves the screen alone.
LEMMA EchoFrame ==
    ASSUME EchoInv, UNCHANGED <<crt, out, buf, mode>>,
           out = <<>> \/ pc' = pc \/ pc' \notin {"kbd", "take", "got"}
    PROVE  EchoInv'
  BY DEF EchoInv

\* Every step of the console keeps EchoInv.
LEMMA EchoStep == EchoInv /\ [Next]_vars => EchoInv'
  <1> SUFFICES ASSUME EchoInv, [Next]_vars PROVE EchoInv'
    OBVIOUS
  <1>1. CASE SerialIntr
    <2>1. UNCHANGED <<crt, out, buf, mode>> /\ out = <<>>
      BY <1>1 DEF SerialIntr
    <2> QED BY <2>1, EchoFrame
  <1>2. CASE KbdIntr
    <2>1. crt' = crt /\ buf' = buf /\ pc = "kbd"
      BY <1>2 DEF KbdIntr
    <2>2. \/ UNCHANGED <<out, mode>> /\ (pc' = pc \/ pc' = "take")
          \/ mode' = "reboot" /\ out' = Message
      BY <1>2 DEF KbdIntr
    <2>3. CASE UNCHANGED <<out, mode>> /\ (pc' = pc \/ pc' = "take")
      BY <2>1, <2>3 DEF EchoInv
    <2>4. CASE mode' = "reboot" /\ out' = Message
      BY <2>1, <2>4, Printed DEF EchoInv
    <2> QED BY <2>2, <2>3, <2>4
  <1>3. CASE Take
    <2>1. UNCHANGED <<crt, out, buf, mode>> /\ pc = "take" /\ pc' = "got"
      BY <1>3 DEF Take
    <2> QED BY <2>1 DEF EchoInv
  <1>4. CASE SysCgetc
    <2>1. UNCHANGED <<crt, out, buf, mode>> /\ out = <<>>
      BY <1>4 DEF SysCgetc
    <2> QED BY <2>1, EchoFrame
  <1>5. CASE UserReturn
    <2>1. UNCHANGED <<crt, out, buf, mode>> /\ pc' = "user"
      BY <1>5 DEF UserReturn
    <2> QED BY <2>1, EchoFrame
  <1>6. CASE ProgramEnds \/ KbdIrq
    BY <1>6, MonitorEcho DEF ProgramEnds, KbdIrq
  <1>7. CASE Input
    <2>1. UNCHANGED <<crt, out, buf, mode, pc>>
      BY <1>7 DEF Input, KeyDown, KeyUp, SerialIn
    <2> QED BY <2>1, EchoFrame
  <1>8. ASSUME NEW ch \in UserChar, SysCputs(ch) PROVE EchoInv'
    <2>1. UNCHANGED <<crt, buf, mode, pc>> /\ mode = "user" /\ pc = "user" /\ out' = <<ch>>
      BY <1>8 DEF SysCputs
    <2>2. ch \in Cell
      BY DEF Cell
    <2>3. out' \in Seq(Cell)
      BY <2>1, <2>2
    <2> QED BY <2>1, <2>3 DEF EchoInv
  <1>9. CASE UNCHANGED csVars
    <2>1. UNCHANGED <<crt, out, buf, mode, pc>>
      BY <1>9 DEF csVars
    <2> QED BY <2>1, EchoFrame
  <1>10. CsNext \/ UNCHANGED csVars
    BY DEF Next, Routine, vars
  <1> QED BY <1>1, <1>2, <1>3, <1>4, <1>5, <1>6, <1>7, <1>8, <1>9, <1>10,
             PutcEcho, ReadlineEcho DEF CsNext, Cpu

\* EchoInv is an invariant of the console.
THEOREM EchoSafe == Spec => []EchoInv
  <1>1. Init => EchoInv
    <2> SUFFICES ASSUME Init PROVE EchoInv
      OBVIOUS
    <2>1. PICK blank : blank = " "
      OBVIOUS
    <2>2. /\ crt = [buf |-> [n \in 0..(CRT_SIZE - 1) |-> blank], pos |-> 0]
          /\ buf = <<>> /\ out = <<>> /\ mode # "monitor"
      BY <2>1 DEF Init, CsInit, CsIdle, CsState
    <2>3. blank \in Cell
      BY <2>1 DEF Cell, Char
    <2>4. 0 \in 0..(CRT_SIZE - 1) /\ 0 < BUFLEN
      BY ScreenSize
    <2>5. crt \in Screen
      BY <2>2, <2>3, <2>4 DEF Screen
    <2>6. buf \in Seq(Char) /\ Len(buf) = 0 /\ out \in Seq(Cell)
      BY <2>2, EmptySeq
    <2> QED BY <2>2, <2>4, <2>5, <2>6 DEF EchoInv
  <1> QED BY <1>1, EchoStep, PTL DEF Spec

\* readline and cga_putc: for every size of the screen and of the line that leaves
\* room for it, the user sees the line that runcmd will get, however it wrapped,
\* was erased or moved up with the screen, and the cursor stays on the screen.
THEOREM LineIsShown == Spec => []EchoIsLine
  <1>1. EchoInv => EchoIsLine
    <2> SUFFICES ASSUME EchoInv PROVE EchoIsLine
      OBVIOUS
    <2>1. CursorOnScreen /\ crt.pos \in Nat
      BY ScreenSize DEF EchoInv, Screen, CursorOnScreen
    <2>2. ASSUME mode = "monitor", out = <<>> PROVE ShowsLine
      <3>1. Shows(crt, buf) /\ buf \in Seq(Char)
        BY <2>2 DEF EchoInv
      <3> QED BY <2>1, <3>1, ShowsIs DEF ShowsLine
    <2> QED BY <2>1, <2>2 DEF EchoIsLine
  <1> QED BY <1>1, EchoSafe, PTL

-----------------------------------------------------------------------------
(* Formatted output.  Nothing is said of the characters: S has all that    *)
(* were formatted so far.                                                  *)

\* How much of cnt characters snprintf keeps.
Kept == IF cnt < SNSIZE THEN cnt ELSE SNSIZE - 1

\* What was formatted is on the console or waits in the program's buffer.
Going(S) ==
    /\ all \in Seq(S) /\ pbuf \in Seq(S) /\ console \in Seq(S)
    /\ cnt = Len(all)
    /\ sink = "kernel" => console = all
    /\ sink = "user" => console \o pbuf = all
    /\ sink = "snprintf" => pbuf = SubSeq(all, 1, Kept)

OutInv ==
    /\ sink \in {"kernel", "user", "snprintf"}
    /\ \E S : Going(S)
    /\ done => todo = <<>> /\ (sink = "user" => pbuf = <<>>)

\* putch takes one more character.
LEMMA PutchKeeps == OutInv /\ Putch => OutInv'
  <1> SUFFICES ASSUME OutInv, Putch PROVE OutInv'
    OBVIOUS
  <1>1. PICK ch, b : /\ ch = Head(todo)
                     /\ b = putch([buf |-> pbuf, console |-> console], ch)
    OBVIOUS
  <1>2. /\ pbuf' = b.buf /\ console' = b.console /\ cnt' = cnt + 1
        /\ all' = Append(all, ch) /\ sink' = sink /\ done' = done /\ ~done
    BY <1>1 DEF Putch, OutInv
  <1>3. PICK S0 : Going(S0)
    BY DEF OutInv
  <1>4. PICK S : S = S0 \cup {ch}
    OBVIOUS
  <1>5. Going(S) /\ ch \in S
    <2>1. S0 \subseteq S /\ ch \in S
      BY <1>4
    <2>2. all \in Seq(S) /\ pbuf \in Seq(S) /\ console \in Seq(S)
      BY <1>3, <2>1, SeqMonotonic DEF Going
    <2> QED BY <1>3, <2>1, <2>2 DEF Going
  <1>6. all \in Seq(S) /\ pbuf \in Seq(S) /\ console \in Seq(S) /\ cnt = Len(all) /\ cnt \in Nat
    BY <1>5 DEF Going
  <1>7. all' \in Seq(S) /\ cnt' = Len(all') /\ cnt' = cnt + 1
    BY <1>2, <1>5, <1>6, AppendProperties
  <1>8. CASE sink = "kernel"
    <2>1. b = [[buf |-> pbuf, console |-> console] EXCEPT !.console = Append(@, ch)]
      BY <1>1, <1>8 DEF putch, PutKernel
    <2>2. b.buf = pbuf /\ b.console = Append(console, ch)
      BY <2>1
    <2>3. console = all
      BY <1>5, <1>8 DEF Going
    <2>4. pbuf' = pbuf /\ console' = all'
      BY <1>2, <2>2, <2>3
    <2>5. Going(S)'
      BY <1>2, <1>6, <1>7, <1>8, <2>4 DEF Going
    <2> QED BY <1>2, <1>8, <2>5 DEF OutInv
  <1>9. CASE sink = "user"
    <2>1. console \o pbuf = all
      BY <1>5, <1>9 DEF Going
    <2>2. PICK full : full = Append(pbuf, ch)
      OBVIOUS
    <2>3. full \in Seq(S) /\ full = pbuf \o <<ch>> /\ <<ch>> \in Seq(S)
      BY <1>5, <1>6, <2>2, AppendProperties, AppendIsConcat
    <2>4. console \o full = all'
      <3>1. (console \o pbuf) \o <<ch>> = console \o (pbuf \o <<ch>>)
        BY <1>6, <2>3, ConcatAssociative
      <3>2. Append(all, ch) = all \o <<ch>>
        BY <1>5, <1>6, AppendIsConcat
      <3> QED BY <1>2, <2>1, <2>3, <3>1, <3>2
    <2>5. \/ b.buf = <<>> /\ b.console = console \o full
          \/ b.buf = full /\ b.console = console
      <3>1. b = PutUser([buf |-> pbuf, console |-> console], ch)
        BY <1>1, <1>9 DEF putch
      <3>2. \/ b = [buf |-> <<>>, console |-> console \o full]
            \/ b = [buf |-> full, console |-> console]
        BY <2>2, <3>1 DEF PutUser
      <3> QED BY <3>2
    <2>6. console' \o pbuf' = all' /\ pbuf' \in Seq(S) /\ console' \in Seq(S)
      <3>1. CASE b.buf = <<>> /\ b.console = console \o full
        <4>1. console' = all' /\ pbuf' = <<>>
          BY <1>2, <2>4, <3>1
        <4> QED BY <1>7, <4>1, ConcatEmptySeq, EmptySeq
      <3>2. CASE b.buf = full /\ b.console = console
        BY <1>2, <1>6, <2>3, <2>4, <3>2
      <3> QED BY <2>5, <3>1, <3>2
    <2>7. Going(S)'
      BY <1>2, <1>7, <1>9, <2>6 DEF Going
    <2> QED BY <1>2, <1>9, <2>7 DEF OutInv
  <1>10. CASE sink = "snprintf"
    <2>1. pbuf = SubSeq(all, 1, Kept)
      BY <1>5, <1>10 DEF Going
    <2>2. SNSIZE \in Nat /\ SNSIZE >= 1
      <3>1. SNSIZE \in Nat \ {0}
        BY PrintfmtAssumption, Zenon
      <3> QED BY <3>1
    <2>3. PICK k : k = Kept
      OBVIOUS
    <2>4. k \in 0..cnt /\ k <= SNSIZE - 1 /\ (k < SNSIZE - 1 => k = cnt)
      BY <1>6, <2>2, <2>3 DEF Kept
    <2>5. /\ SubSeq(all, 1, k) \in Seq(S) /\ Len(SubSeq(all, 1, k)) = k
          /\ \A i \in 1..k : SubSeq(all, 1, k)[i] = all[i]
      <3>1. 1 \in 1..(Len(all) + 1) /\ k \in (1 - 1)..Len(all)
        BY <1>6, <2>4
      <3>2. Len(SubSeq(all, 1, k)) = IF 1 <= k THEN k - 1 + 1 ELSE 0
        BY <1>6, <2>4
      <3>3. SubSeq(all, 1, k) \in Seq(S)
        BY <1>6, <2>4
      <3>4. \A i \in 1..k : SubSeq(all, 1, k)[i] = all[i]
        BY <1>6, <2>4
      <3> QED BY <2>4, <3>2, <3>3, <3>4
    <2>6. Len(pbuf) = k /\ \A i \in 1..k : pbuf[i] = all[i]
      BY <2>1, <2>3, <2>5
    <2>7. b = PutSn([buf |-> pbuf, console |-> console], ch)
      BY <1>1, <1>10 DEF putch
    <2>8. PICK k2 : k2 = Kept'
      OBVIOUS
    <2>9. \A i \in 1..cnt : all'[i] = all[i]
      BY <1>2, <1>5, <1>6, AppendProperties
    <2>10. all'[cnt + 1] = ch
      BY <1>2, <1>5, <1>6, AppendProperties
    <2>11. /\ k2 \in 0..(cnt + 1)
           /\ k < SNSIZE - 1 => k2 = k + 1
           /\ ~(k < SNSIZE - 1) => k2 = k
      BY <1>6, <1>7, <2>2, <2>3, <2>4, <2>8 DEF Kept
    <2>12. pbuf' \in Seq(S) /\ console' = console /\ Len(pbuf') = k2
           /\ \A i \in 1..k2 : pbuf'[i] = all'[i]
      <3>1. CASE k < SNSIZE - 1
        <4>1. b = [[buf |-> pbuf, console |-> console] EXCEPT !.buf = Append(@, ch)]
          BY <2>6, <2>7, <3>1 DEF PutSn
        <4>2. pbuf' = Append(pbuf, ch) /\ console' = console
          BY <1>2, <4>1
        <4>3. /\ pbuf' \in Seq(S) /\ Len(pbuf') = k + 1 /\ pbuf'[k + 1] = ch
              /\ \A i \in 1..k : pbuf'[i] = pbuf[i]
          BY <1>5, <1>6, <2>6, <4>2, AppendProperties
        <4>4. k = cnt /\ k2 = k + 1 /\ k \in Nat
          BY <2>4, <2>11, <3>1
        <4>5. ASSUME NEW i \in 1..k2 PROVE pbuf'[i] = all'[i]
          <5>1. CASE i = k + 1
            BY <2>10, <4>3, <4>4, <5>1
          <5>2. CASE i # k + 1
            <6>1. i \in 1..k
              BY <4>4, <5>2
            <6> QED BY <2>6, <2>9, <4>3, <4>4, <6>1
          <5> QED BY <5>1, <5>2
        <4> QED BY <4>2, <4>3, <4>4, <4>5
      <3>2. CASE ~(k < SNSIZE - 1)
        <4>1. b = [buf |-> pbuf, console |-> console]
          BY <2>6, <2>7, <3>2 DEF PutSn
        <4>2. pbuf' = pbuf /\ console' = console
          BY <1>2, <4>1
        <4>3. k2 = k /\ \A i \in 1..k : i \in 1..cnt
          BY <1>6, <2>4, <2>11, <3>2
        <4> QED BY <1>6, <2>6, <2>9, <4>2, <4>3
      <3> QED BY <3>1, <3>2
    <2>13. PICK keep : keep = SubSeq(all', 1, k2)
      OBVIOUS
    <2>14. keep \in Seq(S) /\ Len(keep) = k2 /\ \A i \in 1..k2 : keep[i] = all'[i]
      <3>1. k2 \in 0..Len(all') /\ Len(all') \in Nat
        BY <1>6, <1>7, <2>11
      <3>2. PICK a2 : a2 = all'
        OBVIOUS
      <3>3. a2 \in Seq(S) /\ k2 \in 0..Len(a2)
        BY <1>7, <3>1, <3>2
      <3>4. SubSeq(a2, 1, k2) \in Seq(S) /\ Len(SubSeq(a2, 1, k2)) = k2
            /\ \A i \in 1..k2 : SubSeq(a2, 1, k2)[i] = a2[i]
        BY <3>3
      <3> QED BY <2>13, <3>2, <3>4
    <2>15. pbuf' = keep
      BY <2>12, <2>14, SeqEqual
    <2>16. Going(S)'
      BY <1>2, <1>6, <1>7, <1>10, <2>8, <2>12, <2>13, <2>15 DEF Going
    <2> QED BY <1>2, <1>10, <2>16 DEF OutInv
  <1> QED BY <1>8, <1>9, <1>10 DEF OutInv

\* The rest of vprintfmt, and its end.
LEMMA PfStep == OutInv /\ PfNext => OutInv'
  <1> SUFFICES ASSUME OutInv, PfNext PROVE OutInv'
    OBVIOUS
  <1>1. PICK S : Going(S)
    BY DEF OutInv
  <1>2. CASE EndOfFmt
    <2>1. UNCHANGED <<sink, all, cnt, todo>> /\ todo = <<>>
      BY <1>2 DEF EndOfFmt, InText
    <2>2. CASE sink = "user"
      <3>1. console' = console \o pbuf /\ pbuf' = <<>>
        BY <1>2, <2>2 DEF EndOfFmt
      <3>2. console' = all /\ all \in Seq(S)
        BY <1>1, <2>2, <3>1 DEF Going
      <3>3. console' \o pbuf' = all' /\ pbuf' \in Seq(S)
        BY <2>1, <3>1, <3>2, ConcatEmptySeq, EmptySeq
      <3>4. Going(S)'
        BY <1>1, <2>1, <2>2, <3>2, <3>3 DEF Going
      <3> QED BY <2>1, <2>2, <3>1, <3>4 DEF OutInv
    <2>3. CASE sink # "user"
      <3>1. UNCHANGED <<console, pbuf>>
        BY <1>2, <2>3 DEF EndOfFmt
      <3>2. Going(S)'
        BY <1>1, <2>1, <3>1 DEF Going, Kept
      <3> QED BY <2>1, <2>3, <3>2 DEF OutInv
    <2> QED BY <2>2, <2>3
  <1>3. CASE Text \/ Percent \/ Flag \/ Field \/ StarField \/ Convert \/ Unknown
    <2>1. UNCHANGED <<sink, all, cnt, pbuf, console, done>> /\ ~done
      BY <1>3 DEF Text, Percent, Flag, Field, StarField, Convert, Unknown, Emit,
                  EmitNothing, InText, InEscape
    <2>2. Going(S)'
      BY <1>1, <2>1 DEF Going, Kept
    <2> QED BY <2>1, <2>2 DEF OutInv
  <1> QED BY <1>2, <1>3, PutchKeeps DEF PfNext

\* OutInv is an invariant of formatted output, for every size of the buffers.
THEOREM OutputSafe == Spec => []OutInv
  <1>1. Init => OutInv
    <2> SUFFICES ASSUME Init PROVE OutInv
      OBVIOUS
    <2>1. /\ todo = <<>> /\ all = <<>> /\ pbuf = <<>> /\ console = <<>> /\ cnt = 0
          /\ sink \in Sink \cup {"kernel"}
      BY DEF Init, PfInit, PfIdle
    <2>2. sink \in {"kernel", "user", "snprintf"}
      BY <2>1, PrintfmtAssumption, Zenon
    <2>3. <<>> \in Seq({}) /\ <<>> \o <<>> = <<>> /\ Len(<<>>) = 0
      BY EmptySeq, ConcatEmptySeq
    <2>4. SNSIZE \in Nat \ {0}
      BY PrintfmtAssumption, Zenon
    <2>5. Kept = 0
      BY <2>1, <2>4 DEF Kept
    <2>6. SubSeq(<<>>, 1, 0) = <<>>
      OBVIOUS
    <2>7. Going({})
      BY <2>1, <2>3, <2>5, <2>6, Zenon DEF Going
    <2> QED BY <2>1, <2>2, <2>7 DEF OutInv
  <1>2. OutInv /\ [Next]_vars => OutInv'
    <2>1. OutInv /\ UNCHANGED pfVars => OutInv'
      BY DEF pfVars, OutInv, Going, Kept
    <2> QED BY <2>1, PfStep DEF Next, Routine, vars
  <1> QED BY <1>1, <1>2, PTL DEF Spec

\* vprintfmt and its users: whatever the sizes of their buffers, all that was
\* formatted arrives once and in order, snprintf keeps what fits, and the number
\* returned counts all of it.
THEOREM AllIsDelivered == Spec => []Delivered
  <1>1. OutInv => Delivered
    <2> SUFFICES ASSUME OutInv, done
                 PROVE  /\ cnt = Len(all)
                        /\ sink # "snprintf" => console = all
                        /\ sink = "snprintf" =>
                              pbuf = SubSeq(all, 1, IF cnt < SNSIZE THEN cnt ELSE SNSIZE - 1)
      BY DEF Delivered
    <2>1. PICK S : Going(S)
      BY DEF OutInv
    <2>2. sink = "user" => console = all
      <3>1. sink = "user" => pbuf = <<>> /\ console \o pbuf = all /\ console \in Seq(S)
        BY <2>1 DEF OutInv, Going
      <3> QED BY <3>1, ConcatEmptySeq
    <2> QED BY <2>1, <2>2 DEF OutInv, Going, Kept
  <1> QED BY <1>1, OutputSafe, PTL

-----------------------------------------------------------------------------
(* Formats without a conversion.                                           *)

\* A scan stops at the first character that it does not skip.
LEMMA SkipStops ==
    ASSUME NEW s, NEW len \in Nat, Len(s) = len, NEW n \in 1..(len + 1), NEW S, NUL \notin S,
           NEW stop, stop = Skip(s, n, S)
    PROVE  /\ stop \in n..(len + 1) /\ At(s, stop) \notin S
           /\ \A k \in n..(stop - 1) : At(s, k) \in S
  <1> DEFINE T == {k \in n..(len + 1) : At(s, k) \notin S}
  <1>1. len + 1 \in T
    BY DEF At
  <1>2. T \subseteq Nat /\ T # {}
    BY <1>1
  <1>3. PICK m \in T : \A k \in T : m <= k
    BY <1>2, HasLeast
  <1>4. ASSUME NEW k \in n..(m - 1) PROVE At(s, k) \in S
    <2>1. k \in n..(len + 1) /\ ~(m <= k)
      OBVIOUS
    <2> QED BY <1>3, <2>1
  <1>5. m \in n..(len + 1) /\ At(s, m) \notin S
    OBVIOUS
  <1> QED BY <1>4, <1>5 DEF Skip

\* There is one such place.
LEMMA SkipIs ==
    ASSUME NEW s, NEW len \in Nat, Len(s) = len, NEW n \in 1..(len + 1), NEW S, NUL \notin S,
           NEW m \in n..(len + 1), At(s, m) \notin S, \A k \in n..(m - 1) : At(s, k) \in S
    PROVE  Skip(s, n, S) = m
  <1>1. PICK stop : stop = Skip(s, n, S)
    OBVIOUS
  <1>2. /\ stop \in n..(len + 1) /\ At(s, stop) \notin S
        /\ \A k \in n..(stop - 1) : At(s, k) \in S
    BY <1>1, SkipStops
  <1>3. ~(m < stop)
    BY <1>2
  <1>4. ~(stop < m)
    BY <1>2
  <1> QED BY <1>1, <1>2, <1>3, <1>4

\* What a format is made of.
LEMMA Characters ==
    /\ DecDigit = {"0", "1", "2", "3", "4", "5", "6", "7", "8", "9"}
    /\ NUL \notin Between /\ NUL \notin DecDigit /\ DecDigit \subseteq Between
    /\ "%" \notin Between \cup {"*"}
    /\ \A ch \in Conversion \cup {"*"} : ch \notin Between
  <1>1. DecDigit = {"0", "1", "2", "3", "4", "5", "6", "7", "8", "9"}
    <2>1. 1..10 = {1, 2, 3, 4, 5, 6, 7, 8, 9, 10}
      OBVIOUS
    <2>2. DecDigit = {Digit[1], Digit[2], Digit[3], Digit[4], Digit[5], Digit[6], Digit[7],
                      Digit[8], Digit[9], Digit[10]}
      BY <2>1 DEF DecDigit
    <2> QED BY <2>2 DEF Digit
  <1> QED BY <1>1 DEF Between, Conversion, NUL

\* No escape of the format ends in a conversion that is known.
Literal == \A n \in 1..Len(fmt) :
              fmt[n] = "%" => At(fmt, EscapeEnd(n)) \notin Conversion \cup {"*"}

\* The escape that vprintfmt is in begins at p; what is before it has been put.
EscapeAt(p) ==
    /\ fmt[p] = "%"
    /\ \A k \in (p + 1)..(next - 1) : fmt[k] \in Between \cup {"*"}
    /\ Literal => /\ all = SubSeq(fmt, 1, p - 1)
                  /\ \A k \in (p + 1)..(next - 1) : fmt[k] \in Between

\* All before next has been put, but for the last character, perhaps.
TextAt ==
    \/ todo = <<>> /\ all = SubSeq(fmt, 1, next - 1)
    \/ next > 1 /\ todo = <<fmt[next - 1]>> /\ all = SubSeq(fmt, 1, next - 2)

LitInv ==
    /\ fmt \in Seq(FmtChar) /\ next \in 1..(Len(fmt) + 1)
    /\ "on" \in DOMAIN esc /\ esc.on \in BOOLEAN
    /\ esc.on => ~done /\ todo = <<>> /\ \E p \in 1..(next - 1) : EscapeAt(p)
    /\ ~esc.on /\ Literal => TextAt
    /\ done => ~esc.on /\ todo = <<>> /\ next = Len(fmt) + 1

\* An escape ends where EscapeEnd says.
LEMMA EscapeEnds ==
    ASSUME fmt \in Seq(FmtChar), next \in 1..(Len(fmt) + 1), NEW p \in 1..(next - 1),
           \A k \in (p + 1)..(next - 1) : fmt[k] \in Between, PfChar \notin Between
    PROVE  EscapeEnd(p) = next
  <1>1. PICK len : len = Len(fmt) /\ len \in Nat
    OBVIOUS
  <1>2. p + 1 \in 1..(len + 1) /\ next \in (p + 1)..(len + 1)
    BY <1>1
  <1>3. \A k \in (p + 1)..(next - 1) : At(fmt, k) \in Between
    BY <1>1 DEF At
  <1> QED BY <1>1, <1>2, <1>3, SkipIs, Characters DEF EscapeEnd, PfChar

\* A format without known conversions has none in the escape that it is in.
LEMMA NotKnown ==
    ASSUME LitInv, Literal, NEW p \in 1..(next - 1), EscapeAt(p)
    PROVE  PfChar \notin Conversion \cup {"*"}
  <1> SUFFICES ASSUME PfChar \in Conversion \cup {"*"} PROVE FALSE
    OBVIOUS
  <1>1. PfChar \notin Between
    BY Characters
  <1>2. EscapeEnd(p) = next
    BY <1>1, EscapeEnds DEF LitInv, EscapeAt
  <1>3. p \in 1..Len(fmt) /\ fmt[p] = "%"
    BY DEF LitInv, EscapeAt
  <1> QED BY <1>2, <1>3 DEF Literal, PfChar

\* The loop after an unknown escape goes back to the escape's %.
LEMMA GoesBack ==
    ASSUME LitInv, NEW p \in 1..(next - 1), EscapeAt(p)
    PROVE  AfterPercent(next - 1) = p + 1
  <1>1. PICK n : n = next - 1 /\ n \in Nat
    BY DEF LitInv
  <1>2. p \in 1..n /\ fmt[p] = "%" /\ \A i \in (p + 1)..n : fmt[i] # "%"
    BY <1>1, Characters DEF EscapeAt
  <1>3. ASSUME NEW k \in 1..n, fmt[k] = "%", \A i \in (k + 1)..n : fmt[i] # "%"
        PROVE  k = p
    <2>1. ~(k < p)
      BY <1>2, <1>3
    <2>2. ~(p < k)
      BY <1>2, <1>3
    <2> QED BY <1>1, <1>2, <2>1, <2>2
  <1> QED BY <1>1, <1>2, <1>3 DEF AfterPercent

\* Outside of an escape nothing is on.
LEMMA NoEscapeIs == "on" \in DOMAIN NoEscape /\ NoEscape.on = FALSE
  BY DEF NoEscape

\* The first n + 1 characters are the first n and one more.
LEMMA OneMore ==
    ASSUME NEW T, NEW s \in Seq(T), NEW n \in 0..(Len(s) - 1)
    PROVE  Append(SubSeq(s, 1, n), s[n + 1]) = SubSeq(s, 1, n + 1)
  <1>1. PICK a : a = SubSeq(s, 1, n)
    OBVIOUS
  <1>2. PICK b : b = SubSeq(s, 1, n + 1)
    OBVIOUS
  <1>3. a \in Seq(T) /\ Len(a) = n /\ \A k \in 1..n : a[k] = s[k]
    BY <1>1
  <1>4. b \in Seq(T) /\ Len(b) = n + 1 /\ \A k \in 1..(n + 1) : b[k] = s[k]
    BY <1>2
  <1>5. s[n + 1] \in T
    OBVIOUS
  <1>6. PICK more : more = Append(a, s[n + 1])
    OBVIOUS
  <1>7. more \in Seq(T) /\ Len(more) = n + 1 /\ more[n + 1] = s[n + 1]
        /\ \A k \in 1..n : more[k] = a[k]
    BY <1>3, <1>5, <1>6, AppendProperties
  <1>8. \A k \in 1..(n + 1) : more[k] = b[k]
    <2> SUFFICES ASSUME NEW k \in 1..(n + 1) PROVE more[k] = b[k]
      OBVIOUS
    <2>1. k \in 1..n \/ k = n + 1
      OBVIOUS
    <2> QED BY <1>3, <1>4, <1>7, <2>1
  <1>9. more = b
    BY <1>4, <1>7, <1>8, SeqEqual
  <1> QED BY <1>1, <1>2, <1>6, <1>9

\* What stays when the format stays.
LEMMA SameFormat == ASSUME fmt' = fmt PROVE Literal' <=> Literal
  BY DEF Literal, EscapeEnd, Skip, At

\* What an escape may have from next to before stop.
Passes(stop) ==
    /\ stop \in (next + 1)..(Len(fmt) + 1)
    /\ \A k \in next..(stop - 1) : fmt[k] \in Between \cup {"*"}
    /\ Literal => \A k \in next..(stop - 1) : fmt[k] \in Between

\* A flag or a field goes by.
LEMMA EscapeGoesOn ==
    ASSUME LitInv, esc.on, UNCHANGED <<fmt, todo, all, done>>, NEW n1, next' = n1, Passes(n1),
           "on" \in DOMAIN esc', esc'.on = TRUE
    PROVE  LitInv'
  <1>1. PICK p \in 1..(next - 1) : EscapeAt(p)
    BY DEF LitInv
  <1>2. PICK len, n : len = Len(fmt) /\ n = next /\ len \in Nat /\ n \in 1..(len + 1)
    BY DEF LitInv
  <1>3. n1 \in (n + 1)..(len + 1) /\ p \in 1..(n - 1)
    BY <1>2 DEF Passes
  <1>4. /\ n1 \in 1..(len + 1) /\ p \in 1..(n1 - 1)
        /\ \A k \in (p + 1)..(n1 - 1) : k \in (p + 1)..(n - 1) \/ k \in n..(n1 - 1)
    BY ONLY <1>2, <1>3
  <1>5. \A k \in (p + 1)..(n1 - 1) : fmt[k] \in Between \cup {"*"}
    BY <1>1, <1>2, <1>4 DEF EscapeAt, Passes
  <1>6. Literal => \A k \in (p + 1)..(n1 - 1) : fmt[k] \in Between
    BY <1>1, <1>2, <1>4 DEF EscapeAt, Passes
  <1>7. EscapeAt(p)'
    BY <1>1, <1>5, <1>6, SameFormat DEF EscapeAt
  <1> QED BY <1>2, <1>4, <1>7 DEF LitInv

\* The step of putch.
LEMMA LitPutch == ASSUME LitInv, Putch PROVE LitInv'
  <1>1. /\ UNCHANGED <<fmt, next, esc, done>> /\ todo # <<>>
        /\ all' = Append(all, Head(todo)) /\ todo' = Tail(todo)
    BY DEF Putch
  <1>2. ~esc.on /\ ~done
    BY <1>1 DEF LitInv
  <1>3. ASSUME Literal PROVE TextAt'
    <2>1. next > 1 /\ todo = <<fmt[next - 1]>> /\ all = SubSeq(fmt, 1, next - 2)
      BY <1>1, <1>2, <1>3 DEF LitInv, TextAt
    <2>2. PICK n : n = next - 2 /\ n \in 0..(Len(fmt) - 1) /\ next - 1 = n + 1
      BY <2>1 DEF LitInv
    <2>3. todo' = <<>> /\ all' = Append(SubSeq(fmt, 1, n), fmt[n + 1])
      BY <1>1, <2>1, <2>2
    <2>4. all' = SubSeq(fmt, 1, n + 1)
      BY <2>2, <2>3, OneMore DEF LitInv
    <2> QED BY <1>1, <2>2, <2>3, <2>4 DEF TextAt
  <1> QED BY <1>1, <1>2, <1>3, SameFormat DEF LitInv

\* A character of the text, or the percent sign of an escape.
LEMMA LitText == ASSUME LitInv, Text \/ Percent PROVE LitInv'
  <1>1. /\ ~done /\ ~esc.on /\ todo = <<>> /\ PfChar # NUL /\ next' = next + 1
        /\ UNCHANGED <<fmt, done, all>>
    BY DEF Text, Percent, InText, Emit, EmitNothing, NUL
  <1>2. next \in 1..Len(fmt) /\ PfChar = fmt[next] /\ next' \in 1..(Len(fmt) + 1)
    BY <1>1 DEF LitInv, PfChar, At
  <1>3. Literal => all = SubSeq(fmt, 1, next - 1)
    <2>1. ~(todo = <<fmt[next - 1]>>)
      BY <1>1
    <2> QED BY <1>1, <2>1 DEF LitInv, TextAt
  <1>4. CASE Text
    <2>1. todo' = <<fmt[next]>> /\ esc' = esc
      BY <1>2, <1>4 DEF Text, Emit
    <2>2. Literal' => TextAt'
      <3>1. next' - 1 = next /\ next' - 2 = next - 1 /\ next' > 1
        BY <1>1, <1>2
      <3> QED BY <1>1, <1>3, <2>1, <3>1, SameFormat DEF TextAt
    <2> QED BY <1>1, <1>2, <2>1, <2>2 DEF LitInv
  <1>5. CASE Percent
    <2>1. todo' = todo /\ esc' = [NoEscape EXCEPT !.on = TRUE] /\ fmt[next] = "%"
      BY <1>2, <1>5 DEF Percent, EmitNothing
    <2>2. "on" \in DOMAIN esc' /\ esc'.on = TRUE
      BY <2>1, NoEscapeIs
    <2>3. PICK p : p = next /\ p \in 1..(next' - 1) /\ (p + 1)..(next' - 1) = {}
      BY <1>1, <1>2
    <2>4. EscapeAt(p)'
      BY <1>1, <1>3, <2>1, <2>3, SameFormat DEF EscapeAt
    <2> QED BY <1>1, <1>2, <2>1, <2>2, <2>3, <2>4 DEF LitInv
  <1> QED BY <1>4, <1>5

\* A flag, a number or a star.
LEMMA LitField == ASSUME LitInv, Flag \/ Field \/ StarField PROVE LitInv'
  <1>1. /\ esc.on /\ PfChar \in DecDigit \cup {"-", "0", ".", "#", "l", "*"}
        /\ UNCHANGED <<fmt, todo, all, done>>
    BY DEF Flag, Field, StarField, InEscape, EmitNothing
  <1>2. PICK len, n : len = Len(fmt) /\ n = next /\ len \in Nat /\ n \in 1..(len + 1)
    BY DEF LitInv
  <1>3. n <= len /\ fmt[n] = PfChar
    <2>1. PfChar # NUL
      BY <1>1, Characters DEF NUL
    <2> QED BY <1>2, <2>1 DEF PfChar, At
  <1>4. PICK p \in 1..(next - 1) : EscapeAt(p)
    BY <1>1 DEF LitInv
  <1>5. CASE Flag
    <2>1. next' = n + 1 /\ fmt[n] \in Between
      BY <1>2, <1>3, <1>5, Characters DEF Flag, Between
    <2>2. "on" \in DOMAIN esc' /\ esc'.on = TRUE
      <3>1. /\ PfChar \in {"-", "0", ".", "#", "l"}
            /\ esc' = CASE PfChar \in {"-", "0"} -> [esc EXCEPT !.padc = PfChar]
                [] PfChar = "." -> [esc EXCEPT !.width = IF @ < 0 THEN 0 ELSE @]
                [] PfChar = "#" -> [esc EXCEPT !.altflag = TRUE]
                [] PfChar = "l" -> [esc EXCEPT !.lflag = @ + 1]
        BY <1>5 DEF Flag
      <3>2. "on" \in DOMAIN esc
        BY DEF LitInv
      <3> QED BY <1>1, <3>1, <3>2
    <2>3. Passes(n + 1)
      <3>1. n + 1 \in (n + 1)..(len + 1) /\ \A k \in n..(n + 1 - 1) : k = n
        BY <1>2, <1>3
      <3> QED BY <1>2, <2>1, <3>1 DEF Passes
    <2> QED BY <1>1, <2>1, <2>2, <2>3, EscapeGoesOn
  <1>6. CASE Field
    <2>1. PICK stop : stop = Skip(fmt, n, DecDigit)
      OBVIOUS
    <2>2. /\ stop \in n..(len + 1) /\ At(fmt, stop) \notin DecDigit
          /\ \A k \in n..(stop - 1) : At(fmt, k) \in DecDigit
      <3>1. NUL \notin DecDigit
        BY Characters
      <3> QED BY <1>2, <2>1, <3>1, SkipStops
    <2>3. next' = stop /\ fmt[n] \in DecDigit
      BY <1>2, <1>3, <1>6, <2>1 DEF Field
    <2>4. stop # n
      BY <1>2, <1>3, <2>2, <2>3 DEF At
    <2>5. stop \in (n + 1)..(len + 1)
      BY <1>2, <2>2, <2>4
    <2>6. \A k \in n..(stop - 1) : fmt[k] \in Between
      <3>1. \A k \in n..(stop - 1) : k <= len
        BY <1>2, <2>2
      <3> QED BY <1>2, <2>2, <3>1, Characters DEF At
    <2>7. "on" \in DOMAIN esc' /\ esc'.on = TRUE
      <3>1. PICK value : SetField(value)
        BY <1>6 DEF Field
      <3>2. "on" \in DOMAIN esc
        BY DEF LitInv
      <3> QED BY <1>1, <3>1, <3>2 DEF SetField
    <2>8. Passes(stop)
      BY <1>2, <2>5, <2>6 DEF Passes
    <2> QED BY <1>1, <2>3, <2>7, <2>8, EscapeGoesOn
  <1>7. CASE StarField
    <2>1. next' = n + 1 /\ fmt[n] = "*"
      BY <1>2, <1>3, <1>7 DEF StarField
    <2>2. ~Literal
      BY <1>3, <1>4, <2>1, NotKnown
    <2>3. "on" \in DOMAIN esc' /\ esc'.on = TRUE
      <3>1. PICK value : SetField(value)
        BY <1>7 DEF StarField
      <3>2. "on" \in DOMAIN esc
        BY DEF LitInv
      <3> QED BY <1>1, <3>1, <3>2 DEF SetField
    <2>4. Passes(n + 1)
      <3>1. n + 1 \in (n + 1)..(len + 1) /\ \A k \in n..(n + 1 - 1) : k = n
        BY <1>2, <1>3
      <3> QED BY <1>2, <2>1, <2>2, <3>1 DEF Passes
    <2> QED BY <1>1, <2>1, <2>3, <2>4, EscapeGoesOn
  <1> QED BY <1>5, <1>6, <1>7

\* The end of an escape, and of the format.
LEMMA LitEnds == ASSUME LitInv, Convert \/ Unknown \/ EndOfFmt PROVE LitInv'
  <1>1. fmt' = fmt /\ fmt \in Seq(FmtChar)
    BY DEF Convert, Unknown, EndOfFmt, LitInv
  <1>2. PICK len, n : len = Len(fmt) /\ n = next /\ len \in Nat /\ n \in 1..(len + 1)
    BY DEF LitInv
  <1>3. CASE Convert
    <2>1. /\ esc.on /\ ~done /\ PfChar \in Conversion
          /\ esc' = NoEscape /\ next' = n + 1 /\ done' = done
      BY <1>2, <1>3 DEF Convert, InEscape
    <2>2. PICK p \in 1..(next - 1) : EscapeAt(p)
      BY <2>1 DEF LitInv
    <2>3. ~Literal
      BY <2>1, <2>2, NotKnown
    <2>4. n <= len
      BY <1>2, <2>1 DEF PfChar, At, Conversion, NUL
    <2>5. next' \in 1..(len + 1)
      BY <1>2, <2>1, <2>4
    <2> QED BY <1>1, <1>2, <2>1, <2>3, <2>5, NoEscapeIs, SameFormat DEF LitInv
  <1>4. CASE Unknown
    <2>1. /\ esc.on /\ ~done /\ todo' = <<"%">> /\ all' = all
          /\ esc' = NoEscape /\ next' = AfterPercent(next - 1) /\ done' = done
      BY <1>4 DEF Unknown, InEscape, Emit
    <2>2. PICK p \in 1..(next - 1) : EscapeAt(p)
      BY <2>1 DEF LitInv
    <2>3. next' = p + 1
      BY <2>1, <2>2, GoesBack
    <2>4. next' \in 1..(len + 1) /\ next' > 1 /\ next' - 1 = p /\ next' - 2 = p - 1
      <3>1. p \in 1..(n - 1)
        BY <1>2, <2>2
      <3>2. p + 1 \in 1..(len + 1) /\ p + 1 > 1 /\ (p + 1) - 1 = p /\ (p + 1) - 2 = p - 1
        BY ONLY <1>2, <3>1
      <3> QED BY <2>3, <3>2
    <2>5. Literal => TextAt'
      BY <1>1, <2>1, <2>2, <2>4 DEF EscapeAt, TextAt
    <2> QED BY <1>1, <1>2, <2>1, <2>4, <2>5, NoEscapeIs, SameFormat DEF LitInv
  <1>5. CASE EndOfFmt
    <2>1. /\ ~esc.on /\ ~done /\ todo = <<>> /\ PfChar = NUL
          /\ UNCHANGED <<next, esc, todo, all>>
      BY <1>5 DEF EndOfFmt, InText
    <2>2. NUL \notin FmtChar
      BY PrintfmtAssumption, Zenon
    <2>3. n = len + 1
      <3>1. n \in 1..len => fmt[n] \in FmtChar
        BY <1>1, <1>2
      <3> QED BY <1>2, <2>1, <2>2, <3>1 DEF PfChar, At
    <2>4. Literal' => TextAt'
      BY <1>1, <2>1, SameFormat DEF LitInv, TextAt
    <2> QED BY <1>1, <1>2, <2>1, <2>3, <2>4 DEF LitInv
  <1> QED BY <1>3, <1>4, <1>5

\* LitInv is an invariant of vprintfmt, for every set of formats.
THEOREM FormatSafe == Spec => []LitInv
  <1>1. Init => LitInv
    <2> SUFFICES ASSUME Init PROVE LitInv
      OBVIOUS
    <2>1. /\ todo = <<>> /\ all = <<>> /\ next = 1 /\ esc = NoEscape
          /\ \/ fmt = <<>>
             \/ fmt \in UNION {[1..n -> FmtChar] : n \in 0..MaxFmt} /\ ~done
      <3>1. PfInit \/ PfIdle
        BY DEF Init
      <3>2. CASE PfInit
        BY <3>2 DEF PfInit
      <3>3. CASE PfIdle
        BY <3>3 DEF PfIdle
      <3> QED BY <3>1, <3>2, <3>3
    <2>2. fmt \in Seq(FmtChar)
      <3>1. MaxFmt \in Nat
        BY PrintfmtAssumption, Zenon
      <3>2. ASSUME fmt # <<>> PROVE fmt \in UNION {[1..n -> FmtChar] : n \in Nat}
        <4>1. PICK n \in 0..MaxFmt : fmt \in [1..n -> FmtChar]
          BY <2>1, <3>2
        <4>2. n \in Nat
          BY <3>1
        <4> QED BY <4>1, <4>2
      <3> QED BY <3>2, EmptySeq, SeqDef
    <2>3. SubSeq(fmt, 1, 0) = <<>> /\ Len(fmt) \in Nat
      BY <2>2
    <2>4. TextAt
      BY <2>1, <2>3 DEF TextAt
    <2>5. done => next = Len(fmt) + 1
      BY <2>1, EmptySeq
    <2>6. next \in 1..(Len(fmt) + 1) /\ todo = <<>>
      BY <2>1, <2>3
    <2>7. "on" \in DOMAIN esc /\ esc.on = FALSE
      BY <2>1, NoEscapeIs
    <2> QED BY ONLY <2>2, <2>4, <2>5, <2>6, <2>7 DEF LitInv
  <1>2. LitInv /\ [Next]_vars => LitInv'
    <2> SUFFICES ASSUME LitInv, [Next]_vars PROVE LitInv'
      OBVIOUS
    <2>1. CASE UNCHANGED pfVars
      BY <2>1, SameFormat DEF pfVars, LitInv, EscapeAt, TextAt
    <2>2. CASE PfNext
      BY <2>2, LitPutch, LitText, LitField, LitEnds DEF PfNext
    <2> QED BY <2>1, <2>2 DEF Next, Routine, vars
  <1> QED BY <1>1, <1>2, PTL DEF Spec

\* A format without known conversions is printed as it stands, whatever its length
\* and its characters, and no format is read beyond its end.
THEOREM UnknownIsLiteral == Spec => []LiteralText
  <1>1. LitInv => LiteralText
    <2> SUFFICES ASSUME LitInv PROVE LiteralText
      OBVIOUS
    <2>1. FormatInBounds
      BY DEF FormatInBounds, LitInv
    <2>2. ASSUME done, Literal PROVE all = fmt
      <3>1. next - 1 = Len(fmt) /\ todo = <<>> /\ TextAt
        BY <2>2 DEF LitInv
      <3>2. all = SubSeq(fmt, 1, Len(fmt))
        BY <3>1 DEF TextAt
      <3> QED BY <3>2, SubSeqFull DEF LitInv
    <2> QED BY <2>1, <2>2 DEF LiteralText, Literal
  <1> QED BY <1>1, FormatSafe, PTL

-----------------------------------------------------------------------------
(* Debugging information.                                                  *)

\* Lines of a function are in order, and none begins at the address after
\* another's.
LinesApart ==
    \A t \in Tables : \A i, k \in DOMAIN t :
        (/\ i < k /\ t[i].n_type = "SLINE" /\ t[k].n_type = "SLINE"
         /\ \A n \in i..k : t[n].n_type \notin {"FUN", "SO"})
            => t[i].n_value + 1 < t[k].n_value

NStabs == Cardinality(DOMAIN stabs)
Val(n) == stabs[n].n_value
Is(n, type) == stabs[n].n_type = type

\* The table is an array.
LEMMA StabsAre ==
    ASSUME stabs \in Tables
    PROVE  /\ NStabs \in Nat /\ DOMAIN stabs = 0..(NStabs - 1)
           /\ \A n \in 0..(NStabs - 1) : Val(n) \in Nat /\ (Is(n, "SO") => Val(n) > 0)
  <1>1. IsFiniteSet(DOMAIN stabs) /\ DOMAIN stabs = 0..(NStabs - 1)
    BY StabAssumption DEF NStabs
  <1>2. NStabs \in Nat
    BY <1>1, FS_CardinalityType DEF NStabs
  <1>3. \A n \in 0..(NStabs - 1) : Val(n) \in Nat /\ (Is(n, "SO") => Val(n) > 0)
    BY <1>1, StabAssumption DEF Val, Is
  <1> QED BY <1>1, <1>2, <1>3

\* Where a loop that goes down stops.
LEMMA StopIs ==
    ASSUME NEW n \in Int, NEW low \in Int, NEW S, NEW stop, stop = Stop(n, low, S)
    PROVE  \/ stop = low - 1 /\ \A k \in low..n : k \notin S
           \/ stop \in low..n /\ stop \in S /\ \A k \in (stop + 1)..n : k \notin S
  <1>1. PICK T : T = S \cap (low..n)
    OBVIOUS
  <1>2. CASE T = {}
    BY <1>1, <1>2 DEF Stop
  <1>3. CASE T # {}
    <2>1. \A k \in T : k \in Int /\ k <= n
      BY <1>1
    <2>2. \E k \in T : \A i \in T : i <= k
      BY <1>3, <2>1, HasGreatest
    <2>3. stop = LastOf(T)
      BY <1>1, <1>3 DEF Stop
    <2>4. stop \in T /\ \A i \in T : i <= stop
      BY <2>2, <2>3 DEF LastOf
    <2>5. ASSUME NEW k \in (stop + 1)..n PROVE k \notin S
      <3>1. stop \in low..n
        BY <1>1, <2>4
      <3>2. k \in low..n /\ ~(k <= stop)
        BY ONLY <3>1, k \in (stop + 1)..n, n \in Int, low \in Int
      <3> QED BY <1>1, <2>4, <3>2
    <2> QED BY <1>1, <2>4, <2>5
  <1> QED BY <1>2, <1>3

\* The last of a set is the one that is not before another.
LEMMA LastIs ==
    ASSUME NEW S, S \subseteq Int, NEW n \in S, \A k \in S : k <= n
    PROVE  LastOf(S) = n
  <1>1. \A k \in S : (\A i \in S : i <= k) => k = n
    BY SMT
  <1> QED BY <1>1 DEF LastOf

-----------------------------------------------------------------------------
(* stab_binsearch.                                                         *)

\* What the search may find.
Hits == {n \in asked.left..asked.right : Is(n, Type)}

\* Those before l are not too far, and those after r are; what is not known lies
\* between.
SearchInv ==
    /\ asked.left \in Nat /\ asked.right \in (asked.left - 1)..(NStabs - 1)
    /\ l \in asked.left..(r + 1) /\ r \in (asked.left - 1)..asked.right
    /\ region = [left |-> region.left, right |-> r]
    /\ addr \in Int /\ any \in BOOLEAN
    /\ \A i, k \in Hits : i < k => Val(i) + 1 < Val(k)
    /\ key = addr \/ (key = addr + 1 /\ \E h \in Hits : Val(h) = addr)
    /\ \A n \in Hits : (n < l => Val(n) <= addr) /\ (n > r => Val(n) > addr)
    /\ ~any => region.left = asked.left /\ r = asked.right /\ \A n \in Hits : n >= l
    /\ region.left = asked.left \/ (region.left \in Hits /\ Val(region.left) <= addr)
    /\ r = asked.right \/ r + 1 \in Hits

\* A search starts with nothing known of the region.
LEMMA SearchStarts ==
    ASSUME stabs \in Tables, NEW ph, NEW a \in Int,
           NEW left \in Nat, NEW right \in (left - 1)..(NStabs - 1),
           Search(ph, left, right, a), addr' = a, stabs' = stabs,
           NEW type, type = Type',
           \A i, k \in left..right :
               (Is(i, type) /\ Is(k, type) /\ i < k) => Val(i) + 1 < Val(k)
    PROVE  SearchInv'
  <1>1. /\ l' = left /\ r' = right /\ any' = FALSE /\ key' = a /\ phase' = ph
        /\ region' = [left |-> left, right |-> right] /\ asked' = region'
    BY DEF Search
  <1>2. asked'.left = left /\ asked'.right = right /\ region'.left = left
    BY <1>1
  <1>3. NStabs \in Int /\ NStabs' = NStabs
    <2>1. NStabs \in Int
      BY StabsAre
    <2> QED BY <2>1 DEF NStabs
  <1>4. Hits' = {n \in left..right : Is(n, type)}
    BY <1>2 DEF Hits, Is
  <1>5. \A n : Val(n)' = Val(n)
    BY DEF Val
  <1>6. \A i, k \in Hits' : i < k => Val(i)' + 1 < Val(k)'
    BY <1>4, <1>5
  <1>7. /\ left \in left..(right + 1) /\ right \in (left - 1)..right
        /\ \A n \in left..right : ~(n < left) /\ ~(n > right) /\ n >= left
    BY <1>3
  <1>8. \A n \in Hits' : ~(n < left) /\ ~(n > right) /\ n >= left
    BY <1>4, <1>7
  <1> QED BY <1>1, <1>2, <1>3, <1>6, <1>7, <1>8 DEF SearchInv

\* A round of the search keeps what is known.
LEMMA SearchStep ==
    ASSUME stabs \in Tables, SearchInv, Binsearch
    PROVE  SearchInv'
  <1>1. /\ Type' = Type /\ asked' = asked /\ addr' = addr /\ stabs' = stabs
        /\ NStabs' = NStabs /\ Hits' = Hits
    BY DEF Binsearch, Type, NStabs, Hits, Is
  <1>2. \A n : Val(n)' = Val(n)
    BY <1>1 DEF Val
  <1>3. PICK lo, hi, low, high, a, m0, m :
            /\ lo = asked.left /\ hi = asked.right /\ low = l /\ high = r /\ a = addr
            /\ m0 = (l + r) \div 2 /\ m = Downto(m0, l, Type)
    OBVIOUS
  <1>4. NStabs \in Nat /\ DOMAIN stabs = 0..(NStabs - 1)
    BY StabsAre
  <1>5. /\ lo \in Nat /\ hi \in (lo - 1)..(NStabs - 1) /\ high \in (lo - 1)..hi
        /\ low \in lo..(high + 1) /\ low <= high /\ a \in Int
    BY <1>3 DEF SearchInv, Binsearch
  <1>6. m0 \in low..high /\ low \in Int /\ high \in Int
    <2>1. m0 = (low + high) \div 2
      BY <1>3
    <2> QED BY ONLY <1>4, <1>5, <2>1
  <1>7. \A n \in lo..hi : n \in 0..(NStabs - 1)
    BY ONLY <1>4, <1>5
  <1>8. Hits = {n \in lo..hi : n \in OfType(Type)}
    BY <1>3, <1>4, <1>7 DEF Hits, Is, OfType
  <1>9. \A n \in Hits : n \in lo..hi /\ n \in Int /\ Val(n) \in Nat
    <2>1. \A n \in lo..hi : Val(n) \in Nat
      BY <1>7, StabsAre
    <2> QED BY <1>8, <2>1
  <1>10. \/ m = low - 1 /\ \A n \in low..m0 : n \notin Hits
         \/ m \in low..m0 /\ m \in Hits /\ \A n \in (m + 1)..m0 : n \notin Hits
    <2>1. m = Stop(m0, low, OfType(Type)) /\ m0 \in Int
      BY <1>3, <1>6 DEF Downto
    <2>2. \/ m = low - 1 /\ \A n \in low..m0 : n \notin OfType(Type)
          \/ m \in low..m0 /\ m \in OfType(Type) /\ \A n \in (m + 1)..m0 : n \notin OfType(Type)
      BY <1>6, <2>1, StopIs
    <2>3. \A n \in low..m0 : n \in lo..hi
      BY ONLY <1>4, <1>5, <1>6
    <2> QED BY <1>8, <2>2, <2>3
  <1>11. /\ \A n \in Hits : (n < low => Val(n) <= a) /\ (n > high => Val(n) > a)
         /\ \A i, k \in Hits : i < k => Val(i) + 1 < Val(k)
         /\ key = a \/ (key = a + 1 /\ \E h \in Hits : Val(h) = a)
         /\ region = [left |-> region.left, right |-> high]
         /\ any \in BOOLEAN
         /\ ~any => region.left = lo /\ high = hi /\ \A n \in Hits : n >= low
         /\ region.left = lo \/ (region.left \in Hits /\ Val(region.left) <= a)
         /\ high = hi \/ high + 1 \in Hits
    BY <1>3 DEF SearchInv
  <1>12. CASE m < low
    <2>1. l' = m0 + 1 /\ UNCHANGED <<r, any, key, region>>
      BY <1>3, <1>12 DEF Binsearch
    <2>2. m0 + 1 \in lo..(high + 1) /\ \A n \in Hits : n < m0 + 1 => n < low
      <3>1. \A n \in low..m0 : n \notin Hits
        BY <1>6, <1>10, <1>12
      <3>2. m0 \in Int /\ \A n \in Hits : n \in Int
        BY <1>6, <1>9
      <3>3. m0 + 1 \in lo..(high + 1)
        BY ONLY <1>4, <1>5, <1>6
      <3> QED BY ONLY <1>5, <1>6, <3>1, <3>2, <3>3
    <2>3. \A n \in Hits : n < m0 + 1 => Val(n) <= a
      BY <1>11, <2>2
    <2>4. ~any => \A n \in Hits : n >= m0 + 1
      <3>1. \A n \in Hits : n \in Int /\ (n >= low => ~(n < low))
        BY <1>6, <1>9
      <3>2. m0 + 1 \in Int
        BY ONLY <1>6
      <3> QED BY <1>11, <2>2, <3>1, <3>2
    <2> QED BY <1>1, <1>2, <1>3, <1>5, <1>11, <2>1, <2>2, <2>3, <2>4 DEF SearchInv
  <1>13. CASE ~(m < low)
    <2>1. m \in low..m0 /\ m \in Hits /\ \A n \in (m + 1)..m0 : n \notin Hits
      BY ONLY <1>6, <1>10, <1>13
    <2>2. /\ m \in Int /\ m0 \in Int /\ m \in lo..high /\ m <= m0
          /\ m - 1 \in (lo - 1)..hi /\ m0 + 1 \in lo..(high + 1) /\ low \in lo..(m - 1 + 1)
          /\ m \in lo..(high + 1)
      BY ONLY <1>4, <1>5, <1>6, <2>1
    <2>3. /\ any' = TRUE
          /\ \/ /\ Val(m) < key /\ region' = [region EXCEPT !.left = m]
                /\ l' = m0 + 1 /\ UNCHANGED <<r, key>>
             \/ /\ Val(m) > key /\ region' = [region EXCEPT !.right = m - 1]
                /\ r' = m - 1 /\ UNCHANGED <<l, key>>
             \/ /\ Val(m) = key /\ region' = [region EXCEPT !.left = m]
                /\ l' = m /\ key' = key + 1 /\ UNCHANGED r
      BY <1>3, <1>13 DEF Binsearch, Val
    <2>4. \A n \in Hits : n \in Int /\ Val(n) \in Int /\ (n < m => Val(n) < Val(m))
                             /\ (m < n => Val(m) < Val(n))
      <3>1. \A n \in Hits : /\ n < m => Val(n) + 1 < Val(m)
                            /\ m < n => Val(m) + 1 < Val(n)
        BY <1>11, <2>1
      <3>2. \A n \in Hits : n \in Int /\ Val(n) \in Int
        BY <1>9
      <3> QED BY ONLY <2>1, <3>1, <3>2
    <2>5. Val(m) \in Int /\ key \in Int
      BY <1>5, <1>11, <2>1, <2>4
    <2>6. CASE Val(m) < key /\ region' = [region EXCEPT !.left = m]
               /\ l' = m0 + 1 /\ UNCHANGED <<r, key>>
      <3>1. Val(m) <= a
        BY ONLY <1>5, <1>11, <2>5, <2>6
      <3>2. \A n \in Hits : n < m0 + 1 => Val(n) <= a
        <4>1. \A n \in Hits : n < m0 + 1 => n < m \/ n = m
          BY ONLY <2>1, <2>2, <2>4
        <4>2. \A n \in Hits : n < m0 + 1 => Val(n) <= Val(m)
          BY ONLY <2>4, <2>5, <4>1
        <4> QED BY ONLY <1>5, <2>4, <2>5, <3>1, <4>2
      <3>3. region' = [left |-> m, right |-> high] /\ region'.left = m
        BY <1>11, <2>6
      <3> QED BY <1>1, <1>2, <1>3, <1>5, <1>11, <2>1, <2>2, <2>3, <2>6, <3>1, <3>2, <3>3
              DEF SearchInv
    <2>7. CASE Val(m) > key /\ region' = [region EXCEPT !.right = m - 1]
               /\ r' = m - 1 /\ UNCHANGED <<l, key>>
      <3>1. Val(m) > a
        BY ONLY <1>5, <1>11, <2>5, <2>7
      <3>2. \A n \in Hits : n > m - 1 => Val(n) > a
        <4>1. \A n \in Hits : n > m - 1 => m < n \/ n = m
          BY ONLY <2>2, <2>4
        <4> QED BY ONLY <1>5, <2>4, <2>5, <3>1, <4>1
      <3>3. region' = [left |-> region.left, right |-> m - 1] /\ region'.left = region.left
        BY <1>11, <2>7
      <3>4. m - 1 + 1 = m
        BY <2>2
      <3> QED BY <1>1, <1>2, <1>3, <1>5, <1>11, <2>1, <2>2, <2>3, <2>7, <3>2, <3>3, <3>4
              DEF SearchInv
    <2>8. CASE Val(m) = key /\ region' = [region EXCEPT !.left = m]
               /\ l' = m /\ key' = key + 1 /\ UNCHANGED r
      <3>1. key = a
        <4> SUFFICES ASSUME key = a + 1, NEW h \in Hits, Val(h) = a PROVE FALSE
          BY <1>11
        <4>1. h \in Int /\ Val(h) + 1 = Val(m) /\ Val(h) # Val(m)
          BY <1>5, <2>4, <2>8
        <4>2. h < m \/ m < h
          BY <2>2, <4>1
        <4>3. Val(h) + 1 < Val(m) \/ Val(m) + 1 < Val(h)
          BY <1>11, <2>1, <4>2
        <4> QED BY ONLY <1>5, <2>5, <4>1, <4>3, Val(h) = a, key = a + 1
      <3>2. \A n \in Hits : n < m => Val(n) <= a
        BY ONLY <1>5, <2>4, <2>8, <3>1
      <3>3. region' = [left |-> m, right |-> high] /\ region'.left = m
        BY <1>11, <2>8
      <3>4. Val(m) = a /\ Val(m) <= a /\ key' = a + 1
        <4>1. Val(m) = a /\ key' = a + 1
          BY <2>8, <3>1
        <4> QED BY ONLY <1>5, <4>1
      <3>5. \A n \in Hits : n > high => Val(n) > a
        BY <1>11
      <3> QED BY <1>1, <1>2, <1>3, <1>5, <1>11, <2>1, <2>2, <2>3, <2>8, <3>2, <3>3, <3>4, <3>5
              DEF SearchInv
    <2> QED BY <2>3, <2>6, <2>7, <2>8
  <1> QED BY <1>12, <1>13

\* What the search has found when it ends: the last stab of the type that is not too
\* far, up to the first that is, or nothing at all.
FoundIs(found) ==
    /\ found = [left |-> found.left, right |-> found.right]
    /\ Before(asked, Type, addr) = {n \in Hits : n <= r}
    /\ r \in (asked.left - 1)..asked.right
    /\ r = asked.right \/ (r + 1 \in Hits /\ Val(r + 1) > addr)
    /\ \/ /\ found.left \in Before(asked, Type, addr) /\ found.right = r
          /\ \A n \in (found.left + 1)..r : n \notin Hits
       \/ /\ Before(asked, Type, addr) = {} /\ found.left = asked.left
          /\ found.right = r \/ (found.right = asked.left - 1 /\ Hits = {})

\* When a search has ended, Found is that.
LEMMA SearchFinds ==
    ASSUME stabs \in Tables, SearchInv, l > r
    PROVE  FoundIs(Found)
  <1>1. PICK lo, hi, high, a, B, m :
            /\ lo = asked.left /\ hi = asked.right /\ high = r /\ a = addr
            /\ B = Before(asked, Type, addr) /\ m = Downto(region.right, region.left, Type)
    OBVIOUS
  <1>2. NStabs \in Nat /\ DOMAIN stabs = 0..(NStabs - 1)
    BY StabsAre
  <1>3. /\ lo \in Nat /\ hi \in (lo - 1)..(NStabs - 1) /\ high \in (lo - 1)..hi /\ a \in Int
        /\ l = high + 1
    <2>1. /\ lo \in Nat /\ hi \in (lo - 1)..(NStabs - 1) /\ high \in (lo - 1)..hi /\ a \in Int
          /\ l \in lo..(high + 1) /\ l > high
      BY <1>1 DEF SearchInv
    <2> QED BY ONLY <1>2, <2>1
  <1>4. \A n \in lo..hi : n \in 0..(NStabs - 1)
    BY ONLY <1>2, <1>3
  <1>5. Hits = {n \in lo..hi : n \in OfType(Type)}
    BY <1>1, <1>2, <1>4 DEF Hits, Is, OfType
  <1>6. \A n \in Hits : n \in lo..hi /\ n \in Int /\ Val(n) \in Nat
    <2>1. \A n \in lo..hi : Val(n) \in Nat
      BY <1>4, StabsAre
    <2> QED BY <1>5, <2>1
  <1>7. B = {n \in Hits : n <= high}
    <2>1. B = {n \in Hits : Val(n) <= a}
      BY <1>1, <1>5 DEF Before, Hits, Is, Val
    <2>2. \A n \in Hits : (n < l => Val(n) <= a) /\ (n > high => Val(n) > a)
      BY <1>1 DEF SearchInv
    <2>3. \A n \in Hits : n <= high <=> Val(n) <= a
      BY ONLY <1>3, <1>6, <2>2
    <2> QED BY <2>1, <2>3
  <1>8. high = hi \/ (high + 1 \in Hits /\ Val(high + 1) > a)
    <2>1. high = hi \/ high + 1 \in Hits
      BY <1>1 DEF SearchInv
    <2>2. \A n \in Hits : n > high => Val(n) > a
      BY <1>1 DEF SearchInv
    <2>3. high + 1 > high
      BY <1>3
    <2> QED BY <2>1, <2>2, <2>3
  <1>9. region = [left |-> region.left, right |-> high] /\ region.right = high
    <2>1. region = [left |-> region.left, right |-> high]
      BY <1>1 DEF SearchInv
    <2> QED BY <2>1
  <1>10. CASE ~any
    <2>1. region.left = lo /\ high = hi /\ \A n \in Hits : n >= l
      BY <1>1, <1>10 DEF SearchInv
    <2>2. Hits = {}
      <3> SUFFICES ASSUME NEW n \in Hits PROVE FALSE
        OBVIOUS
      <3>1. n >= l /\ n \in lo..hi
        BY <1>6, <2>1
      <3> QED BY <1>3, <2>1, <3>1
    <2>3. Found = [left |-> lo, right |-> lo - 1]
      BY <1>9, <1>10, <2>1 DEF Found
    <2> QED BY <1>1, <1>3, <1>7, <2>1, <2>2, <2>3 DEF FoundIs
  <1>11. CASE any
    <2>1. region.left = lo \/ (region.left \in Hits /\ Val(region.left) <= a)
      BY <1>1 DEF SearchInv
    <2>2. region.left \in Int /\ region.left >= lo
      BY <1>3, <1>6, <2>1
    <2>3. m = Stop(high, region.left, OfType(Type)) /\ high \in Int
      BY <1>1, <1>3, <1>9 DEF Downto
    <2>4. \/ m = region.left - 1 /\ \A n \in region.left..high : n \notin OfType(Type)
          \/ /\ m \in region.left..high /\ m \in OfType(Type)
             /\ \A n \in (m + 1)..high : n \notin OfType(Type)
      BY <2>2, <2>3, StopIs
    <2>5. Found = [left |-> IF m < region.left THEN region.left ELSE m, right |-> high]
      BY <1>1, <1>9, <1>11 DEF Found
    <2>6. CASE m = region.left - 1 /\ \A n \in region.left..high : n \notin OfType(Type)
      <3>1. m < region.left
        BY <2>2, <2>6
      <3>2. region.left = lo
        <4> SUFFICES ASSUME region.left \in Hits, Val(region.left) <= a PROVE FALSE
          BY <2>1
        <4>1. region.left \in B /\ region.left \in OfType(Type)
          BY <1>1, <1>5, <1>6 DEF Before, Hits, Is, Val
        <4>2. region.left \in region.left..high
          BY <1>3, <1>6, <1>7, <2>2, <4>1
        <4> QED BY <2>6, <4>1, <4>2
      <3>3. B = {}
        <4> SUFFICES ASSUME NEW n \in B PROVE FALSE
          OBVIOUS
        <4>1. n \in OfType(Type) /\ n \in lo..high
          BY <1>3, <1>5, <1>6, <1>7
        <4> QED BY <2>6, <3>2, <4>1
      <3>4. Found = [left |-> lo, right |-> high]
        BY <2>5, <3>1, <3>2
      <3> QED BY <1>1, <1>3, <1>7, <1>8, <3>3, <3>4 DEF FoundIs
    <2>7. CASE /\ m \in region.left..high /\ m \in OfType(Type)
               /\ \A n \in (m + 1)..high : n \notin OfType(Type)
      <3>1. ~(m < region.left) /\ m \in lo..hi /\ m <= high
        BY <1>3, <2>2, <2>7
      <3>2. m \in B
        BY <1>5, <1>7, <2>7, <3>1
      <3>3. \A n \in (m + 1)..high : n \notin Hits
        BY <1>5, <2>7
      <3>4. Found = [left |-> m, right |-> high]
        BY <2>5, <3>1
      <3> QED BY <1>1, <1>3, <1>7, <1>8, <3>2, <3>3, <3>4 DEF FoundIs
    <2> QED BY <2>4, <2>6, <2>7
  <1> QED BY <1>10, <1>11

\* What the comment of stab_binsearch says of the two ends of the region.
LEMMA SearchBrackets ==
    ASSUME stabs \in Tables, Type # "none" => SearchInv
    PROVE  BinsearchBrackets
  <1> SUFFICES ASSUME SearchInv, l > r, Before(asked, Type, addr) # {}
               PROVE  /\ Found.left = LastOf(Before(asked, Type, addr))
                      /\ Found.right = LastOf({n \in asked.left..asked.right :
                            \A k \in (Found.left + 1)..n : stabs[k].n_type # Type})
    BY DEF BinsearchBrackets
  <1>1. PICK lo, hi, high, left, right, B, S :
            /\ lo = asked.left /\ hi = asked.right /\ high = r /\ left = Found.left
            /\ right = Found.right /\ B = Before(asked, Type, addr)
            /\ S = {n \in asked.left..asked.right :
                      \A k \in (Found.left + 1)..n : stabs[k].n_type # Type}
    OBVIOUS
  <1>2. FoundIs(Found)
    BY SearchFinds
  <1>3. lo \in Nat /\ hi \in Int /\ high \in (lo - 1)..hi
    <2>1. lo \in Nat /\ hi \in (lo - 1)..(NStabs - 1) /\ NStabs \in Nat
      BY <1>1, StabsAre DEF SearchInv
    <2> QED BY <1>1, <1>2, <2>1 DEF FoundIs
  <1>4. left \in B /\ right = high /\ \A n \in (left + 1)..high : n \notin Hits
    BY <1>1, <1>2 DEF FoundIs
  <1>5. B = {n \in Hits : n <= high} /\ \A n \in Hits : n \in lo..hi
    BY <1>1, <1>2 DEF FoundIs, Hits
  <1>6. left \in lo..high
    BY <1>3, <1>4, <1>5
  <1>7. left = LastOf(B)
    <2>1. B \subseteq Int
      BY <1>3, <1>5
    <2>2. \A n \in B : n <= left
      <3> SUFFICES ASSUME NEW n \in B, ~(n <= left) PROVE FALSE
        OBVIOUS
      <3>1. n \in Int /\ n <= high /\ n \in Hits
        BY <1>5, <2>1
      <3>2. n \in (left + 1)..high
        BY <1>3, <1>6, <3>1
      <3> QED BY <1>4, <3>1, <3>2
    <2> QED BY <1>4, <2>1, <2>2, LastIs
  <1>8. high = LastOf(S)
    <2>1. S = {n \in lo..hi : \A k \in (left + 1)..n : ~Is(k, Type)}
      BY <1>1 DEF Is
    <2>2. high \in S
      <3>1. \A k \in (left + 1)..high : k \in lo..hi
        BY <1>3, <1>6
      <3>2. \A k \in (left + 1)..high : ~Is(k, Type)
        BY <1>1, <1>4, <3>1 DEF Hits
      <3>3. high \in lo..hi
        BY <1>3, <1>6
      <3> QED BY <2>1, <3>2, <3>3
    <2>3. \A n \in S : n <= high
      <3> SUFFICES ASSUME NEW n \in S, ~(n <= high) PROVE FALSE
        OBVIOUS
      <3>1. n \in lo..hi /\ \A k \in (left + 1)..n : ~Is(k, Type)
        BY <2>1
      <3>2. high + 1 \in (left + 1)..n
        BY <1>3, <1>6, <3>1
      <3>3. high # hi
        BY <1>3, <3>1
      <3>4. high + 1 \in Hits
        BY <1>1, <1>2, <3>3 DEF FoundIs
      <3> QED BY <3>1, <3>2, <3>4 DEF Hits
    <2>4. S \subseteq Int
      BY <1>3, <2>1
    <2> QED BY <2>2, <2>3, <2>4, LastIs
  <1> QED BY <1>1, <1>4, <1>7, <1>8

-----------------------------------------------------------------------------
(* debuginfo_eip.                                                          *)

\* The file that was found: from its stab to the one of the next file.
FileFound ==
    /\ file.left \in Nat /\ file.right \in file.left..(NStabs - 1)
    /\ Is(file.left, "SO") /\ Val(file.left) <= eip
    /\ \A n \in (file.left + 1)..file.right : ~Is(n, "SO")
    /\ file.right = NStabs - 1
       \/ (Is(file.right + 1, "SO") /\ Val(file.right + 1) > eip)

\* The function that was found in it, or that there is none; the lines are looked for
\* in the function, or in the file.
FunFound ==
    /\ fun.left \in file.left..file.right /\ fun.right \in (fun.left - 1)..file.right
    /\ \A n \in (fun.left + 1)..fun.right : ~Is(n, "FUN")
    /\ \/ /\ Is(fun.left, "FUN") /\ Val(fun.left) <= eip
          /\ info.fn = fun.left /\ addr = eip - Val(fun.left) /\ asked = fun
          /\ fun.right = file.right
             \/ (Is(fun.right + 1, "FUN") /\ Val(fun.right + 1) > eip)
       \/ fun.left = file.left
    /\ asked.left \in file.left..file.right
    /\ asked.right \in (asked.left - 1)..file.right
    /\ Is(asked.left, "FUN") \/ Is(asked.left, "SO")
    /\ \A n \in (asked.left + 1)..asked.right : ~Is(n, "FUN")

\* The inductive invariant of debuginfo_eip.
DbInv ==
    /\ stabs \in Tables /\ eip \in Nat
    /\ phase \in {"idle", "file", "fun", "line", "done", "failed"}
    /\ Type # "none" => SearchInv
    /\ phase = "file" => asked = Whole /\ addr = eip
    /\ phase = "fun" => FileFound /\ asked = file /\ addr = eip
    /\ phase = "line" => FileFound /\ FunFound
    /\ phase \in {"file", "fun", "line"} =>
          info = [fn |-> info.fn, line |-> None, file |-> None, narg |-> 0]
    /\ phase = "done" => FunctionIsFound

\* The files of the table, and its functions, are in the order of their addresses.
LEMMA TypeIsSorted ==
    ASSUME stabs \in Tables, NEW type \in {"SO", "FUN"},
           NEW i \in 0..(NStabs - 1), NEW k \in 0..(NStabs - 1),
           Is(i, type), Is(k, type), i < k
    PROVE  Val(i) + 1 < Val(k)
  <1>1. i \in DOMAIN stabs /\ k \in DOMAIN stabs
    BY StabsAre
  <1> QED BY <1>1, StabAssumption DEF Is, Val

\* A function does not begin before a file whose stab comes before its own.
LEMMA FunInFile ==
    ASSUME stabs \in Tables, NEW i \in 0..(NStabs - 1), NEW k \in 0..(NStabs - 1),
           Is(i, "SO"), Is(k, "FUN"), i < k
    PROVE  Val(i) <= Val(k)
  <1>1. i \in DOMAIN stabs /\ k \in DOMAIN stabs
    BY StabsAre
  <1> QED BY <1>1, StabAssumption DEF Is, Val

\* The search of a phase.
LEMMA Types ==
    /\ phase = "file" => Type = "SO"
    /\ phase = "fun" => Type = "FUN"
    /\ phase = "line" => Type = "SLINE"
    /\ phase \in {"idle", "done", "failed"} => Type = "none"
  BY DEF Type

\* debuginfo_eip looks for the file in the whole table.
LEMMA DbStarts == ASSUME DbInit \/ DbIdle PROVE DbInv
  <1>1. CASE DbIdle
    <2>1. stabs \in Tables /\ eip = 0 /\ phase = "idle"
      BY <1>1 DEF DbIdle
    <2> QED BY <2>1, Types DEF DbInv
  <1>2. CASE DbInit
    <2>1. PICK m : m = NStabs
      OBVIOUS
    <2>2. /\ stabs \in Tables /\ eip \in 0..MaxAddr /\ addr = eip /\ phase = "file"
          /\ l = 0 /\ r = m - 1 /\ any = FALSE /\ key = eip
          /\ region = [left |-> 0, right |-> m - 1] /\ asked = [left |-> 0, right |-> m - 1]
          /\ info = NoInfo
      BY <1>2, <2>1 DEF DbInit, NStabs
    <2>3. m \in Nat /\ eip \in Nat /\ Type = "SO"
      BY <2>1, <2>2, StabsAre, StabAssumption, Types
    <2>4. \A i, k \in Hits : i < k => Val(i) + 1 < Val(k)
      BY <2>1, <2>2, <2>3, TypeIsSorted DEF Hits
    <2>5. /\ 0 \in 0..(m - 1 + 1) /\ m - 1 \in (0 - 1)..(m - 1) /\ eip \in Int
          /\ \A n \in 0..(m - 1) : ~(n < 0) /\ ~(n > m - 1) /\ n >= 0
      BY ONLY <2>3
    <2>6. \A n \in Hits : ~(n < 0) /\ ~(n > m - 1) /\ n >= 0
      BY <2>2, <2>5 DEF Hits
    <2>7. asked.left = 0 /\ asked.right = m - 1 /\ region.left = 0
      BY <2>2
    <2>8. SearchInv
      BY <2>1, <2>2, <2>3, <2>4, <2>5, <2>6, <2>7 DEF SearchInv
    <2>9. asked = Whole
      BY <2>1, <2>2 DEF Whole, NStabs
    <2>10. info = [fn |-> info.fn, line |-> None, file |-> None, narg |-> 0]
      BY <2>2 DEF NoInfo
    <2> QED BY <2>2, <2>3, <2>8, <2>9, <2>10 DEF DbInv
  <1> QED BY <1>1, <1>2

\* A round of a search.
LEMMA DbSearches == ASSUME DbInv, Binsearch PROVE DbInv'
  <1>1. /\ UNCHANGED <<stabs, eip, addr, phase, asked, file, fun, info>>
        /\ Type' = Type /\ Type # "none"
    BY DEF Binsearch, Type
  <1>2. stabs \in Tables /\ eip \in Nat /\ phase \in {"file", "fun", "line"} /\ SearchInv
    BY <1>1, Types DEF DbInv
  <1>3. SearchInv'
    BY <1>2, SearchStep
  <1>4. FileFound => FileFound'
    BY <1>1 DEF FileFound, Is, Val, NStabs
  <1>5. FunFound => FunFound'
    BY <1>1 DEF FunFound, Is, Val
  <1>6. Whole' = Whole
    BY <1>1 DEF Whole
  <1> QED BY <1>1, <1>2, <1>3, <1>4, <1>5, <1>6 DEF DbInv

\* The search for the file has ended: the functions are looked for in it.  Nothing
\* was found when the region still begins where the table does.
LEMMA FileIsFound == ASSUME DbInv, FileEnds PROVE DbInv'
  <1>1. PICK left, right, a : left = Found.left /\ right = Found.right /\ a = addr
    OBVIOUS
  <1>2. /\ phase = "file" /\ l > r /\ file' = Found /\ UNCHANGED <<stabs, eip, addr, fun, info>>
        /\ left = 0 => phase' = "failed"
        /\ left # 0 => Search("fun", left, right, a)
    BY <1>1 DEF FileEnds, Ends
  <1>3. /\ stabs \in Tables /\ eip \in Nat /\ SearchInv /\ asked = Whole /\ addr = eip
        /\ info = [fn |-> info.fn, line |-> None, file |-> None, narg |-> 0]
        /\ Type = "SO"
    BY <1>2, Types DEF DbInv
  <1>4. CASE left = 0
    BY <1>2, <1>3, <1>4, Types DEF DbInv, Type
  <1>5. CASE left # 0
    <2>1. PICK m : m = NStabs
      OBVIOUS
    <2>2. asked.left = 0 /\ asked.right = m - 1 /\ m \in Nat
      BY <1>3, <2>1, StabsAre DEF Whole, NStabs
    <2>3. FoundIs(Found)
      BY <1>2, <1>3, SearchFinds
    <2>4. /\ Found = [left |-> left, right |-> right] /\ right = r
          /\ left \in Before(asked, Type, addr) /\ \A n \in (left + 1)..right : n \notin Hits
          /\ Before(asked, Type, addr) = {n \in Hits : n <= right}
          /\ right \in (0 - 1)..(m - 1)
          /\ right = m - 1 \/ (right + 1 \in Hits /\ Val(right + 1) > eip)
      BY <1>1, <1>3, <1>5, <2>2, <2>3 DEF FoundIs
    <2>5. left \in Hits /\ left <= right /\ Val(left) <= eip
      BY <1>3, <2>4 DEF Before, Val
    <2>6. Hits = {n \in 0..(m - 1) : Is(n, "SO")}
      BY <1>3, <2>2 DEF Hits
    <2>7. left \in 0..(m - 1) /\ left \in Nat /\ right \in left..(m - 1) /\ right \in (left - 1)..(m - 1)
      BY <2>2, <2>4, <2>5, <2>6
    <2>8. \A n \in (left + 1)..right : ~Is(n, "SO")
      <3>1. \A n \in (left + 1)..right : n \in 0..(m - 1)
        BY <2>2, <2>7
      <3> QED BY <2>4, <2>6, <3>1
    <2>9. FileFound'
      <3>1. file'.left = left /\ file'.right = right /\ NStabs' = m
        BY <1>2, <2>1, <2>4 DEF NStabs
      <3>2. \A n : Val(n)' = Val(n)
        BY <1>2 DEF Val
      <3>3. \A n, type : Is(n, type)' = Is(n, type)
        BY <1>2 DEF Is
      <3> QED BY <1>2, <2>4, <2>5, <2>6, <2>7, <2>8, <3>1, <3>2, <3>3 DEF FileFound
    <2>10. SearchInv'
      <3>1. Type' = "FUN"
        BY <1>2, <1>5 DEF Search, Type
      <3>2. \A n \in left..right : n \in 0..(NStabs - 1)
        BY <2>1, <2>2, <2>7
      <3>3. \A i, k \in left..right :
               (Is(i, "FUN") /\ Is(k, "FUN") /\ i < k) => Val(i) + 1 < Val(k)
        BY <1>3, <3>2, TypeIsSorted
      <3>4. a \in Int
        BY <1>1, <1>3
      <3> QED BY <1>1, <1>2, <1>3, <1>5, <2>1, <2>7, <3>1, <3>3, <3>4, SearchStarts
    <2>11. phase' = "fun" /\ asked' = file' /\ addr' = eip' /\ stabs' \in Tables /\ eip' \in Nat
           /\ info' = [fn |-> info'.fn, line |-> None, file |-> None, narg |-> 0]
      BY <1>2, <1>3, <1>5, <2>4 DEF Search
    <2> QED BY <2>9, <2>10, <2>11 DEF DbInv
  <1> QED BY <1>4, <1>5

\* The lines of a region with no other function or file in it are in order.
LEMMA LinesAreSorted ==
    ASSUME LinesApart, stabs \in Tables, NEW left \in Nat, NEW right \in Int,
           right <= NStabs - 1, Is(left, "FUN") \/ Is(left, "SO"),
           \A n \in (left + 1)..right : ~Is(n, "FUN") /\ ~Is(n, "SO")
    PROVE  \A i, k \in left..right :
              (Is(i, "SLINE") /\ Is(k, "SLINE") /\ i < k) => Val(i) + 1 < Val(k)
  <1> SUFFICES ASSUME NEW i \in left..right, NEW k \in left..right,
                      Is(i, "SLINE"), Is(k, "SLINE"), i < k
               PROVE  Val(i) + 1 < Val(k)
    OBVIOUS
  <1>1. PICK m : m = NStabs
    OBVIOUS
  <1>2. m \in Nat /\ DOMAIN stabs = 0..(m - 1) /\ right <= m - 1
    BY <1>1, StabsAre
  <1>3. i \in DOMAIN stabs /\ k \in DOMAIN stabs
    BY <1>2
  <1>4. i # left
    BY DEF Is
  <1>5. \A n \in i..k : n \in (left + 1)..right
    BY <1>4
  <1>6. \A n \in i..k : stabs[n].n_type \notin {"FUN", "SO"}
    BY <1>5 DEF Is
  <1> QED BY <1>3, <1>6 DEF LinesApart, Is, Val

\* The search for the function has ended: the lines are looked for in it, or in the
\* file when it has no functions.
LEMMA FunIsFound == ASSUME LinesApart, DbInv, FunEnds PROVE DbInv'
  <1>1. PICK left, right, lo, hi :
            left = Found.left /\ right = Found.right /\ lo = file.left /\ hi = file.right
    OBVIOUS
  <1>2. /\ phase = "fun" /\ l > r /\ fun' = Found /\ UNCHANGED <<stabs, eip, file>>
        /\ left <= right =>
              /\ info' = [info EXCEPT !.fn = left] /\ addr' = addr - stabs[left].n_value
              /\ Search("line", left, right, addr')
        /\ ~(left <= right) =>
              Search("line", lo, hi, addr) /\ UNCHANGED <<addr, info>>
    BY <1>1 DEF FunEnds, Ends
  <1>3. /\ stabs \in Tables /\ eip \in Nat /\ SearchInv /\ asked = file /\ addr = eip
        /\ info = [fn |-> info.fn, line |-> None, file |-> None, narg |-> 0]
        /\ Type = "FUN" /\ FileFound
    BY <1>2, Types DEF DbInv
  <1>4. PICK m : m = NStabs
    OBVIOUS
  <1>5. /\ lo \in Nat /\ hi \in lo..(m - 1) /\ m \in Nat /\ Is(lo, "SO")
        /\ \A n \in (lo + 1)..hi : ~Is(n, "SO")
    BY <1>1, <1>3, <1>4, StabsAre DEF FileFound
  <1>6. Hits = {n \in lo..hi : Is(n, "FUN")} /\ lo \notin Hits
    BY <1>1, <1>3, <1>5 DEF Hits, Is
  <1>7. /\ Found = [left |-> left, right |-> right] /\ r \in (lo - 1)..hi
        /\ r = hi \/ (r + 1 \in Hits /\ Val(r + 1) > eip)
        /\ \/ /\ left \in Hits /\ left <= r /\ Val(left) <= eip /\ right = r
              /\ \A n \in (left + 1)..r : n \notin Hits
           \/ /\ \A n \in Hits : ~(n <= r)
              /\ left = lo /\ (right = r \/ (right = lo - 1 /\ Hits = {}))
    <2>1. FoundIs(Found)
      BY <1>2, <1>3, SearchFinds
    <2>2. left \in Before(asked, Type, addr) => Val(left) <= eip
      BY <1>3 DEF Before, Val
    <2> QED BY <1>1, <1>3, <2>1, <2>2 DEF FoundIs
  <1>8. PICK high : high = r
    OBVIOUS
  <1>9. /\ left \in lo..hi /\ right \in (left - 1)..hi
        /\ \A n \in (left + 1)..right : ~Is(n, "FUN") /\ ~Is(n, "SO")
        /\ \/ /\ Is(left, "FUN") /\ Val(left) <= eip /\ left <= right
              /\ right = hi \/ (Is(right + 1, "FUN") /\ Val(right + 1) > eip)
           \/ left = lo
    <2>1. CASE left \in Hits /\ left <= high /\ right = high
               /\ \A n \in (left + 1)..high : n \notin Hits
      <3>1. left \in lo..hi /\ right \in (left - 1)..hi /\ left <= right
        BY <1>5, <1>6, <1>7, <1>8, <2>1
      <3>2. \A n \in (left + 1)..right : n \in lo..hi /\ n \in (lo + 1)..hi
        BY <1>5, <3>1
      <3>3. Is(left, "FUN") /\ Val(left) <= eip
        BY <1>5, <1>6, <1>7, <1>8, <2>1
      <3> QED BY <1>5, <1>6, <1>7, <1>8, <2>1, <3>1, <3>2, <3>3
    <2>2. CASE /\ \A n \in Hits : ~(n <= high)
               /\ left = lo /\ (right = high \/ (right = lo - 1 /\ Hits = {}))
      <3>1. left \in lo..hi /\ right \in (left - 1)..hi
        BY <1>5, <1>7, <1>8, <2>2
      <3>2. \A n \in (left + 1)..right : n \in lo..hi /\ n \in (lo + 1)..hi /\ n <= right
        BY <1>5, <3>1
      <3> QED BY <1>5, <1>6, <2>2, <3>1, <3>2
    <2> QED BY <1>7, <1>8, <2>1, <2>2
  <1>10. /\ \A n : Val(n)' = Val(n)
         /\ \A n, type : Is(n, type)' = Is(n, type)
    BY <1>2 DEF Val, Is
  <1>11. FileFound'
    <2>1. NStabs' = NStabs
      BY <1>2 DEF NStabs
    <2> QED BY <1>2, <1>3, <1>10, <2>1 DEF FileFound
  <1>12. fun'.left = left /\ fun'.right = right /\ file'.left = lo /\ file'.right = hi
    BY <1>1, <1>2, <1>7
  <1>13. stabs' \in Tables /\ eip' \in Nat
    BY <1>2, <1>3
  <1>14. CASE left <= right
    <2>1. /\ phase' = "line" /\ asked' = [left |-> left, right |-> right]
          /\ info' = [info EXCEPT !.fn = left] /\ addr' = eip - Val(left)
          /\ Search("line", left, right, addr') /\ Type' = "SLINE"
      BY <1>2, <1>3, <1>14 DEF Search, Val, Type
    <2>2. info'.fn = left /\ asked'.left = left /\ asked'.right = right /\ asked' = fun'
          /\ info' = [fn |-> info'.fn, line |-> None, file |-> None, narg |-> 0]
      BY <1>2, <1>3, <1>7, <2>1
    <2>3. Is(left, "FUN") \/ Is(left, "SO")
      BY <1>5, <1>9
    <2>4. FunFound'
      BY <1>2, <1>9, <1>10, <1>12, <2>1, <2>2, <2>3 DEF FunFound
    <2>5. SearchInv'
      <3>1. /\ left \in Nat /\ right \in Int /\ right <= NStabs - 1
            /\ right \in (left - 1)..(NStabs - 1)
        BY <1>4, <1>5, <1>9
      <3>2. \A i, k \in left..right :
               (Is(i, "SLINE") /\ Is(k, "SLINE") /\ i < k) => Val(i) + 1 < Val(k)
        BY <1>3, <1>9, <2>3, <3>1, LinesAreSorted
      <3>3. eip - Val(left) \in Int
        <4>1. left \in 0..(NStabs - 1)
          BY <1>4, <1>5, <1>9
        <4> QED BY <1>3, <4>1, StabsAre
      <3> QED BY <1>2, <1>3, <2>1, <3>1, <3>2, <3>3, SearchStarts
    <2> QED BY <1>11, <1>13, <2>1, <2>2, <2>4, <2>5 DEF DbInv
  <1>15. CASE ~(left <= right)
    <2>1. /\ phase' = "line" /\ asked' = [left |-> lo, right |-> hi]
          /\ info' = info /\ addr' = eip
          /\ Search("line", lo, hi, eip) /\ Type' = "SLINE"
      BY <1>2, <1>3, <1>15 DEF Search, Type
    <2>2. asked'.left = lo /\ asked'.right = hi
          /\ info' = [fn |-> info'.fn, line |-> None, file |-> None, narg |-> 0]
      BY <1>3, <2>1
    <2>3. left = lo /\ Hits = {}
      <3>1. left = lo /\ (right = high \/ (right = lo - 1 /\ Hits = {}))
        BY <1>7, <1>8, <1>15
      <3>2. ASSUME right = high PROVE FALSE
        <4>1. right = lo - 1
          BY <1>5, <1>9, <1>15, <3>1
        <4>2. high # hi /\ high + 1 = lo
          BY <1>5, <3>2, <4>1
        <4> QED BY <1>6, <1>7, <1>8, <4>2
      <3> QED BY <3>1, <3>2
    <2>4. \A n \in (lo + 1)..hi : ~Is(n, "FUN") /\ ~Is(n, "SO")
      <3>1. \A n \in (lo + 1)..hi : n \in lo..hi
        BY <1>5
      <3> QED BY <1>5, <1>6, <2>3, <3>1
    <2>5. lo \in lo..hi /\ hi \in (lo - 1)..hi
      BY <1>5
    <2>6. FunFound'
      BY <1>2, <1>5, <1>9, <1>10, <1>12, <2>1, <2>2, <2>3, <2>4, <2>5 DEF FunFound
    <2>7. SearchInv'
      <3>1. /\ lo \in Nat /\ hi \in Int /\ hi <= NStabs - 1
            /\ hi \in (lo - 1)..(NStabs - 1)
        BY <1>4, <1>5
      <3>2. \A i, k \in lo..hi :
               (Is(i, "SLINE") /\ Is(k, "SLINE") /\ i < k) => Val(i) + 1 < Val(k)
        BY <1>3, <1>5, <2>4, <3>1, LinesAreSorted
      <3>3. eip \in Int
        BY <1>3
      <3> QED BY <1>2, <1>3, <2>1, <3>1, <3>2, <3>3, SearchStarts
    <2> QED BY <1>11, <1>13, <2>1, <2>2, <2>6, <2>7 DEF DbInv
  <1> QED BY <1>14, <1>15

\* What debuginfo_eip needs when the search for the line has ended: the function is the
\* last one that begins at or before the address, and the region has its lines.
LEMMA LineFinds ==
    ASSUME DbInv, phase = "line", l > r, Before(fun, "FUN", eip) # {}
    PROVE  /\ info.fn = fun.left /\ fun.left = LastOf(Before(Whole, "FUN", eip))
           /\ fun.left \in file.left..file.right /\ Found.left >= fun.left
           /\ Before(asked, Type, addr) =
                 {n \in Before(Whole, "SLINE", eip - stabs[fun.left].n_value) :
                    n > fun.left /\ \A k \in (fun.left + 1)..n :
                                       stabs[k].n_type \notin {"FUN", "SO"}}
           /\ Before(asked, Type, addr) # {} =>
                 Found.left \in Before(asked, Type, addr) /\ Found.left <= Found.right
                 /\ Found.left = LastOf(Before(asked, Type, addr))
  <1>1. PICK left, right, lo, hi, m : left = fun.left /\ right = fun.right
                 /\ lo = file.left /\ hi = file.right /\ m = NStabs
    OBVIOUS
  <1>2. /\ stabs \in Tables /\ eip \in Nat /\ SearchInv /\ FileFound /\ FunFound
        /\ Type = "SLINE"
    BY Types DEF DbInv
  <1>3. /\ m \in Nat /\ lo \in Nat /\ hi \in lo..(m - 1)
        /\ left \in lo..hi /\ right \in (left - 1)..hi
        /\ \A n \in (lo + 1)..hi : ~Is(n, "SO")
        /\ \A n \in (left + 1)..right : ~Is(n, "FUN")
        /\ Is(lo, "SO")
        /\ hi = m - 1 \/ (Is(hi + 1, "SO") /\ Val(hi + 1) > eip)
    BY <1>1, <1>2, StabsAre DEF FileFound, FunFound
  <1>4. /\ Is(left, "FUN") /\ Val(left) <= eip /\ left <= right
        /\ info.fn = left /\ addr = eip - Val(left) /\ asked = fun
        /\ right = hi \/ (Is(right + 1, "FUN") /\ Val(right + 1) > eip)
    <2>1. left # lo \/ Is(left, "FUN")
      <3> SUFFICES ASSUME left = lo PROVE FALSE
        OBVIOUS
      <3>1. PICK n \in left..right : Is(n, "FUN")
        BY <1>1 DEF Before, Is
      <3>2. n = left \/ n \in (left + 1)..right
        BY <1>3, <3>1
      <3> QED BY <1>3, <3>1, <3>2 DEF Is
    <2>2. Is(left, "FUN") => left # lo
      BY <1>3 DEF Is
    <2>3. left <= right
      <3>1. \E n : n \in left..right
        BY <1>1 DEF Before
      <3> QED BY <1>3, <3>1
    <2> QED BY <1>1, <1>2, <2>1, <2>2, <2>3 DEF FunFound
  <1>5. \A n \in 0..(m - 1) : Val(n) \in Nat
    BY <1>1, <1>2, StabsAre
  <1>6. left = LastOf(Before(Whole, "FUN", eip))
    <2>1. Before(Whole, "FUN", eip) = {n \in 0..(m - 1) : Is(n, "FUN") /\ Val(n) <= eip}
      BY <1>1 DEF Before, Whole, Is, Val, NStabs
    <2>2. left \in Before(Whole, "FUN", eip)
      BY <1>3, <1>4, <2>1
    <2>3. \A n \in Before(Whole, "FUN", eip) : n <= left
      <3> SUFFICES ASSUME NEW n \in 0..(m - 1), Is(n, "FUN"), Val(n) <= eip, ~(n <= left)
                   PROVE  FALSE
        BY <2>1
      <3>1. n > right
        BY <1>3
      <3>2. CASE right = hi
        <4>1. Is(hi + 1, "SO") /\ Val(hi + 1) > eip /\ hi + 1 \in 0..(m - 1)
          BY <1>3, <3>1, <3>2
        <4>2. hi + 1 # n
          BY <4>1 DEF Is
        <4>3. hi + 1 < n
          BY <1>3, <3>1, <3>2, <4>2
        <4>4. Val(hi + 1) <= Val(n)
          BY <1>1, <1>2, <4>1, <4>3, FunInFile
        <4> QED BY <1>2, <1>5, <4>1, <4>4
      <3>3. CASE right # hi
        <4>1. Is(right + 1, "FUN") /\ Val(right + 1) > eip /\ right + 1 \in 0..(m - 1)
          BY <1>3, <1>4, <3>3
        <4>2. right + 1 # n
          BY <1>2, <1>5, <4>1
        <4>3. right + 1 < n
          BY <1>3, <3>1, <4>2
        <4>4. Val(right + 1) + 1 < Val(n)
          BY <1>1, <1>2, <4>1, <4>3, TypeIsSorted
        <4> QED BY <1>2, <1>5, <4>1, <4>4
      <3> QED BY <3>2, <3>3
    <2>4. Before(Whole, "FUN", eip) \subseteq Int
      BY <1>3, <2>1
    <2> QED BY <2>2, <2>3, <2>4, LastIs
  <1>7. Before(asked, Type, addr) =
           {n \in left..right : Is(n, "SLINE") /\ Val(n) <= eip - Val(left)}
    BY <1>1, <1>2, <1>4 DEF Before, Is, Val
  <1>8. {n \in left..right : Is(n, "SLINE") /\ Val(n) <= eip - Val(left)} =
           {n \in 0..(m - 1) : /\ Is(n, "SLINE") /\ Val(n) <= eip - Val(left)
                               /\ n > left
                               /\ \A k \in (left + 1)..n : ~Is(k, "FUN") /\ ~Is(k, "SO")}
    <2>1. ASSUME NEW n \in left..right, Is(n, "SLINE")
          PROVE  n \in 0..(m - 1) /\ n > left
                 /\ \A k \in (left + 1)..n : ~Is(k, "FUN") /\ ~Is(k, "SO")
      <3>1. n # left
        BY <1>4, <2>1 DEF Is
      <3>2. \A k \in (left + 1)..n : k \in (left + 1)..right /\ k \in (lo + 1)..hi
        BY <1>3
      <3> QED BY <1>3, <3>1, <3>2
    <2>2. ASSUME NEW n \in 0..(m - 1), n > left,
                 \A k \in (left + 1)..n : ~Is(k, "FUN") /\ ~Is(k, "SO")
          PROVE  n \in left..right
      <3> SUFFICES ASSUME n > right PROVE FALSE
        BY <1>3, <2>2
      <3>1. right + 1 \in (left + 1)..n
        BY <1>3, <1>4, <2>2
      <3>2. Is(right + 1, "FUN") \/ Is(right + 1, "SO")
        BY <1>3, <1>4, <2>2
      <3> QED BY <2>2, <3>1, <3>2
    <2> QED BY <2>1, <2>2
  <1>9. {n \in Before(Whole, "SLINE", eip - stabs[left].n_value) :
           n > left /\ \A k \in (left + 1)..n : stabs[k].n_type \notin {"FUN", "SO"}} =
        {n \in 0..(m - 1) : /\ Is(n, "SLINE") /\ Val(n) <= eip - Val(left)
                            /\ n > left
                            /\ \A k \in (left + 1)..n : ~Is(k, "FUN") /\ ~Is(k, "SO")}
    BY <1>1 DEF Before, Whole, Is, Val, NStabs
  <1>10. FoundIs(Found)
    BY <1>2, SearchFinds
  <1>11. Found.left >= left
    <2>1. Found.left \in left..right \/ Found.left = left
      BY <1>1, <1>4, <1>7, <1>10 DEF FoundIs
    <2> QED BY <1>3, <2>1
  <1>12. ASSUME Before(asked, Type, addr) # {}
         PROVE  Found.left \in Before(asked, Type, addr) /\ Found.left <= Found.right
                /\ Found.left = LastOf(Before(asked, Type, addr))
    <2>1. Found.left \in Before(asked, Type, addr) /\ Found.right = r
          /\ Before(asked, Type, addr) = {n \in Hits : n <= r}
      BY <1>10, <1>12 DEF FoundIs
    <2>2. BinsearchBrackets
      BY <1>2, SearchBrackets
    <2>3. Type # "none"
      BY <1>2
    <2> QED BY <1>12, <2>1, <2>2, <2>3 DEF BinsearchBrackets
  <1> QED BY <1>1, <1>3, <1>4, <1>6, <1>7, <1>8, <1>9, <1>11, <1>12

\* The search for the line has ended: what debuginfo_eip says of the address.
LEMMA LineIsFound == ASSUME DbInv, LineEnds PROVE DbInv'
  <1>1. /\ phase = "line" /\ l > r /\ phase' = "done"
        /\ UNCHANGED <<stabs, eip, file, fun>>
    BY DEF LineEnds, Ends
  <1>2. FunctionIsFound'
    <2> SUFFICES ASSUME Before(fun, "FUN", eip)' # {} PROVE FunctionIsFound'
      BY DEF FunctionIsFound
    <2>1. PICK left, fn, at, lines :
              /\ left = Found.left /\ fn = fun.left /\ at = FileOf(Found.left)
              /\ lines = Before(asked, Type, addr)
      OBVIOUS
    <2>2. Before(fun, "FUN", eip) # {}
      BY <1>1 DEF Before
    <2>3. /\ info.fn = fn /\ fn = LastOf(Before(Whole, "FUN", eip))
          /\ fn \in file.left..file.right /\ left >= fn
          /\ lines = {n \in Before(Whole, "SLINE", eip - stabs[fn].n_value) :
                        n > fn /\ \A k \in (fn + 1)..n : stabs[k].n_type \notin {"FUN", "SO"}}
          /\ lines # {} => left <= Found.right /\ left = LastOf(lines)
      BY <1>1, <2>1, <2>2, LineFinds
    <2>4. PICK lo, hi : lo = file.left /\ hi = file.right
      OBVIOUS
    <2>5. /\ lo \in Nat /\ hi \in Int /\ Is(lo, "SO") /\ stabs \in Tables
          /\ lo \in 0..(NStabs - 1) /\ \A n \in (lo + 1)..hi : ~Is(n, "SO")
      <3>1. FileFound /\ stabs \in Tables
        BY <1>1 DEF DbInv
      <3>2. NStabs \in Nat
        BY <3>1, StabsAre
      <3> QED BY <2>4, <3>1, <3>2 DEF FileFound
    <2>6. fn \in lo..hi /\ left \in Int /\ lo <= left
      <3>1. left \in Int
        <4>1. FunFound /\ FoundIs(Found) /\ SearchInv
          BY <1>1, Types, SearchFinds DEF DbInv
        <4>2. left \in asked.left..asked.right \/ left = asked.left
          BY <2>1, <4>1 DEF FoundIs, Before
        <4>3. asked.left \in Nat
          BY <4>1 DEF SearchInv
        <4> QED BY <4>2, <4>3
      <3> QED BY <2>3, <2>4, <2>5, <3>1
    <2>7. at \in lo..left
      <3>1. PICK S : S = OfType("SOL") \cup {k \in OfType("SO") : stabs[k].n_value # 0}
        OBVIOUS
      <3>2. at = Stop(left, lo, S)
        BY <2>1, <2>4, <3>1 DEF FileOf
      <3>3. lo \in S
        <4>1. lo \in DOMAIN stabs /\ Val(lo) > 0
          BY <2>5, StabsAre
        <4> QED BY <2>5, <3>1, <4>1 DEF OfType, Is, Val
      <3>4. lo \in lo..left
        BY <2>5, <2>6
      <3> QED BY <2>5, <2>6, <3>2, <3>3, <3>4, StopIs
    <2>8. \A k \in (at + 1)..fn : stabs[k].n_type # "SO"
      <3>1. \A k \in (at + 1)..fn : k \in (lo + 1)..hi
        BY <2>5, <2>6, <2>7
      <3> QED BY <2>5, <3>1 DEF Is
    <2>9. /\ info'.fn = info.fn /\ info'.file = at
          /\ info'.line = IF left <= Found.right THEN left ELSE info.line
          /\ info.line = None
      <3>1. info = [fn |-> info.fn, line |-> None, file |-> None, narg |-> 0]
        BY <1>1 DEF DbInv
      <3>2. info' = [info EXCEPT
                       !.line = IF Found.left <= Found.right THEN Found.left ELSE @,
                       !.file = IF FileOf(Found.left) >= file.left
                                THEN FileOf(Found.left) ELSE @,
                       !.narg = Params]
        BY DEF LineEnds
      <3>3. FileOf(Found.left) >= file.left
        BY <2>1, <2>4, <2>5, <2>6, <2>7
      <3> QED BY <2>1, <3>1, <3>2, <3>3
    <2>10. lines # {} => info'.line = LastOf(lines)
      BY <2>3, <2>9
    <2>11. info'.file <= info'.line \/ info'.line = None
      BY <2>6, <2>7, <2>9
    <2>12. /\ LastOf(Before(Whole, "FUN", eip))' = fn
           /\ {n \in Before(Whole, "SLINE", eip - stabs[fn].n_value)' :
                        n > fn /\ \A k \in (fn + 1)..n : stabs'[k].n_type \notin {"FUN", "SO"}}
                 = lines
           /\ \A k \in (at + 1)..fn : stabs'[k].n_type # "SO"
      <3>1. Before(Whole, "FUN", eip)' = Before(Whole, "FUN", eip)
        BY <1>1 DEF Before, Whole
      <3>2. Before(Whole, "SLINE", eip - stabs[fn].n_value)' =
               Before(Whole, "SLINE", eip - stabs[fn].n_value)
        BY <1>1 DEF Before, Whole
      <3>3. LastOf(Before(Whole, "FUN", eip))' = LastOf(Before(Whole, "FUN", eip))
        BY <3>1 DEF LastOf
      <3> QED BY <1>1, <2>3, <2>8, <3>2, <3>3
    <2> QED BY <1>1, <2>3, <2>9, <2>10, <2>11, <2>12 DEF FunctionIsFound, Before, Whole
  <1>3. stabs' \in Tables /\ eip' \in Nat /\ Type' = "none"
    BY <1>1 DEF DbInv, Type
  <1> QED BY <1>1, <1>2, <1>3 DEF DbInv

\* DbInv is an invariant of debuginfo_eip, for every table of stabs in which no line
\* begins at the address after another's.
THEOREM DebugInfoSafe == ASSUME LinesApart PROVE Spec => []DbInv
  <1>1. Init => DbInv
    BY DbStarts DEF Init
  <1>2. DbInv /\ [Next]_vars => DbInv'
    <2> SUFFICES ASSUME DbInv, [Next]_vars PROVE DbInv'
      OBVIOUS
    <2>1. CASE UNCHANGED dbVars
      <3>1. UNCHANGED <<stabs, eip, addr, phase, l, r, any, key, region, asked, file, fun, info>>
        BY <2>1 DEF dbVars
      <3>2. SearchInv => SearchInv'
        BY <3>1 DEF SearchInv, Hits, Is, Val, NStabs, Type
      <3>3. (FileFound => FileFound') /\ (FunFound => FunFound')
        BY <3>1 DEF FileFound, FunFound, Is, Val, NStabs
      <3>4. FunctionIsFound => FunctionIsFound'
        BY <3>1 DEF FunctionIsFound, Before, Whole
      <3>5. Whole' = Whole /\ Type' = Type
        BY <3>1 DEF Whole, Type
      <3> QED BY <3>1, <3>2, <3>3, <3>4, <3>5 DEF DbInv
    <2>2. CASE DbNext
      BY <2>2, DbSearches, FileIsFound, FunIsFound, LineIsFound DEF DbNext
    <2> QED BY <2>1, <2>2 DEF Next, Routine, vars
  <1> QED BY <1>1, <1>2, PTL DEF Spec

\* stab_binsearch finds the last stab that begins at or before the address, up to the
\* next one, and debuginfo_eip the function of an address with its file and its line,
\* for every table of stabs in which no line begins at the address after another's.
THEOREM DebugInfoIsRight == ASSUME LinesApart PROVE Spec => []DebugInfoRight
  <1>1. DbInv => DebugInfoRight
    BY SearchBrackets DEF DbInv, DebugInfoRight
  <1> QED BY <1>1, DebugInfoSafe, PTL

-----------------------------------------------------------------------------
(* Numbers as text: printnum and strtol.                                   *)

Bases == {8, 10, 16}
DigitsOf(base) == {Digit[n] : n \in 1..base}

\* A digit stands for its number, and no other character is one.
LEMMA DigitIs ==
    ASSUME NEW n \in 0..15
    PROVE  /\ DigitValue(Digit[n + 1]) = n
           /\ Digit[n + 1] \notin {Blank, "TAB", "+", "-", "x", NUL}
  <1>1. \A i, k \in 0..15 : Digit[i + 1] = Digit[k + 1] => i = k
    BY DEF Digit
  <1>2. \A k \in 0..15 : Digit[k + 1] = Digit[n + 1] => k = n
    BY <1>1
  <1>3. Digit[n + 1] \in {"0", "1", "2", "3", "4", "5", "6", "7", "8", "9",
                          "a", "b", "c", "d", "e", "f"}
    BY DEF Digit
  <1>4. Digit[n + 1] # Blank
    BY <1>3, Zenon DEF Blank
  <1> QED BY <1>2, <1>3, <1>4 DEF DigitValue, NUL

\* The digits of a base.
LEMMA BaseDigits ==
    ASSUME NEW base \in Bases, NEW ch \in DigitsOf(base)
    PROVE  /\ DigitValue(ch) \in 0..(base - 1) /\ DigitValue(ch) \in Nat
           /\ ch \notin {Blank, "TAB", "+", "-", "x", NUL}
  <1>1. PICK n \in 0..(base - 1) : ch = Digit[n + 1]
    <2>1. PICK k \in 1..base : ch = Digit[k]
      BY DEF DigitsOf
    <2>2. k - 1 \in 0..(base - 1) /\ (k - 1) + 1 = k
      BY <2>1 DEF Bases
    <2> QED BY <2>1, <2>2
  <1>2. n \in 0..15 /\ n \in Nat
    BY <1>1 DEF Bases
  <1> QED BY <1>1, <1>2, DigitIs

\* What the function that is inside of Value satisfies.
Sums(val, s, a, b, base) ==
    val = [k \in a..b |-> IF k = a THEN 0 ELSE val[k - 1] * base + DigitValue(s[k - 1])]

\* There is such a function.
LEMMA SumsExist ==
    ASSUME NEW s, NEW base, NEW a \in Int, NEW b \in Int, a <= b
    PROVE  \E val : Sums(val, s, a, b, base)
  <1> DEFINE T == {n \in Nat : ~\E val : Sums(val, s, a, a + n, base)}
  <1>1. ASSUME T # {} PROVE FALSE
    <2>1. PICK n \in T : \A k \in T : n <= k
      BY <1>1, HasLeast
    <2>2. n \in Nat /\ ~\E val : Sums(val, s, a, a + n, base)
      BY <2>1
    <2>3. CASE n = 0
      <3>1. a..(a + 0) = {a}
        OBVIOUS
      <3>2. Sums([k \in {a} |-> 0], s, a, a + 0, base)
        BY <3>1 DEF Sums
      <3> QED BY <2>2, <2>3, <3>2
    <2>4. CASE n # 0
      <3>1. n - 1 \in Nat /\ ~(n <= n - 1)
        BY <2>2, <2>4
      <3>2. n - 1 \notin T
        BY <2>1, <3>1
      <3>3. PICK val : Sums(val, s, a, a + (n - 1), base)
        BY <3>1, <3>2
      <3>4. PICK e : e = a + n
        OBVIOUS
      <3>5. /\ e \in Int /\ a < e /\ a + (n - 1) = e - 1
            /\ \A k \in a..e : k \in a..(e - 1) \/ k = e
            /\ \A k \in a..(e - 1) : k \in a..e /\ k # e /\ (k # a => k - 1 \in a..(e - 1))
            /\ e - 1 \in a..(e - 1) /\ e \in a..e
        BY ONLY a \in Int, <2>2, <2>4, <3>4
      <3>6. DEFINE next2 == [k \in a..e |-> IF k = e THEN val[e - 1] * base + DigitValue(s[e - 1])
                                                   ELSE val[k]]
      <3>7. \A k \in a..(e - 1) : val[k] = IF k = a THEN 0
                                           ELSE val[k - 1] * base + DigitValue(s[k - 1])
        BY <3>3, <3>5 DEF Sums
      <3>8. \A k \in a..e : next2[k] = IF k = a THEN 0
                                       ELSE next2[k - 1] * base + DigitValue(s[k - 1])
        BY <3>5, <3>7
      <3>9. next2 = [k \in a..e |-> next2[k]]
        OBVIOUS
      <3>10. Sums(next2, s, a, e, base)
        BY <3>8, <3>9 DEF Sums
      <3> QED BY <2>2, <3>4, <3>10
    <2> QED BY <2>3, <2>4
  <1>2. b - a \in Nat /\ a + (b - a) = b
    OBVIOUS
  <1> QED BY <1>1, <1>2

\* Two such functions agree where both are defined.
LEMMA SumsAgree ==
    ASSUME NEW s, NEW base, NEW a \in Int, NEW b \in Int, NEW c2 \in Int, a <= b, b <= c2,
           NEW val, Sums(val, s, a, b, base), NEW val2, Sums(val2, s, a, c2, base)
    PROVE  val[b] = val2[b]
  <1> DEFINE T == {n \in Nat : a + n <= b /\ val[a + n] # val2[a + n]}
  <1>1. ASSUME T # {} PROVE FALSE
    <2>1. PICK n \in T : \A k \in T : n <= k
      BY <1>1, HasLeast
    <2>2. PICK e : e = a + n
      OBVIOUS
    <2>3. n \in Nat /\ e \in a..b /\ e \in a..c2 /\ val[e] # val2[e]
      BY <2>1, <2>2
    <2>4. e # a => val[e - 1] = val2[e - 1]
      <3> SUFFICES ASSUME e # a PROVE val[e - 1] = val2[e - 1]
        OBVIOUS
      <3>1. n - 1 \in Nat /\ a + (n - 1) = e - 1 /\ e - 1 <= b /\ ~(n <= n - 1)
        BY <2>2, <2>3
      <3> QED BY <2>1, <3>1
    <2>5. val[e] = IF e = a THEN 0 ELSE val[e - 1] * base + DigitValue(s[e - 1])
      BY <2>3 DEF Sums
    <2>6. val2[e] = IF e = a THEN 0 ELSE val2[e - 1] * base + DigitValue(s[e - 1])
      BY <2>3 DEF Sums
    <2> QED BY <2>3, <2>4, <2>5, <2>6
  <1>2. b - a \in Nat /\ a + (b - a) = b /\ b <= b
    OBVIOUS
  <1> QED BY <1>1, <1>2

\* Value is given by any such function.
LEMMA ValueIs ==
    ASSUME NEW s, NEW base, NEW a \in Int, NEW b \in Int, NEW c2 \in Int, a <= b, b <= c2,
           NEW val2, Sums(val2, s, a, c2, base)
    PROVE  Value(s, a, b, base) = val2[b]
  <1>1. PICK val : val = CHOOSE v : v = [k \in a..b |-> IF k = a THEN 0
                                          ELSE v[k - 1] * base + DigitValue(s[k - 1])]
    OBVIOUS
  <1>2. Value(s, a, b, base) = val[b]
    BY <1>1 DEF Value
  <1>3. Sums(val, s, a, b, base)
    <2>1. \E v : Sums(v, s, a, b, base)
      BY SumsExist
    <2>2. \E v : v = [k \in a..b |-> IF k = a THEN 0
                                     ELSE v[k - 1] * base + DigitValue(s[k - 1])]
      BY <2>1, Zenon DEF Sums
    <2>3. val = [k \in a..b |-> IF k = a THEN 0
                               ELSE val[k - 1] * base + DigitValue(s[k - 1])]
      BY <1>1, <2>2, Zenon
    <2> QED BY <2>3, Zenon DEF Sums
  <1> QED BY <1>2, <1>3, SumsAgree

\* The number of no digits, and what one more makes of it.
LEMMA ValueStep ==
    ASSUME NEW s, NEW base, NEW a \in Int, NEW b \in Int, a <= b
    PROVE  /\ Value(s, a, a, base) = 0
           /\ Value(s, a, b + 1, base) = Value(s, a, b, base) * base + DigitValue(s[b])
  <1>1. a <= b + 1 /\ b + 1 \in Int /\ b <= b + 1 /\ b + 1 <= b + 1 /\ a <= a
        /\ a \in a..(b + 1) /\ b + 1 \in a..(b + 1) /\ b + 1 # a /\ (b + 1) - 1 = b
    OBVIOUS
  <1>2. PICK val : Sums(val, s, a, b + 1, base)
    BY <1>1, SumsExist
  <1>3. Value(s, a, a, base) = val[a] /\ Value(s, a, b, base) = val[b]
        /\ Value(s, a, b + 1, base) = val[b + 1]
    BY <1>1, <1>2, ValueIs
  <1>4. val[a] = 0 /\ val[b + 1] = val[b] * base + DigitValue(s[b])
    BY <1>1, <1>2 DEF Sums
  <1> QED BY <1>3, <1>4

\* The number of digits is a natural number, and that of zeros is zero.
LEMMA ValueBounds ==
    ASSUME NEW s, NEW base \in Nat, NEW a \in Int, NEW b \in Int, a <= b,
           \A k \in a..(b - 1) : DigitValue(s[k]) \in Nat
    PROVE  /\ Value(s, a, b, base) \in Nat
           /\ (\A k \in a..(b - 1) : DigitValue(s[k]) = 0) => Value(s, a, b, base) = 0
  <1> DEFINE Right(e) ==
                /\ Value(s, a, e, base) \in Nat
                /\ (\A k \in a..(b - 1) : DigitValue(s[k]) = 0) => Value(s, a, e, base) = 0
             T == {n \in Nat : a + n <= b /\ ~Right(a + n)}
  <1>1. ASSUME T # {} PROVE FALSE
    <2>1. PICK n \in T : \A k \in T : n <= k
      BY <1>1, HasLeast
    <2>2. PICK e : e = a + n
      OBVIOUS
    <2>3. n \in Nat /\ e \in a..b /\ ~Right(e)
      BY <2>1, <2>2
    <2>4. CASE e = a
      BY <2>3, <2>4, ValueStep
    <2>5. CASE e # a
      <3>1. n - 1 \in Nat /\ a + (n - 1) = e - 1 /\ e - 1 <= b /\ ~(n <= n - 1)
            /\ e - 1 \in a..(b - 1) /\ a <= e - 1 /\ e - 1 \in Int /\ (e - 1) + 1 = e
        BY <2>2, <2>3, <2>5
      <3>2. Right(e - 1)
        BY <2>1, <3>1
      <3>3. PICK v, dv : v = Value(s, a, e - 1, base) /\ dv = DigitValue(s[e - 1])
        OBVIOUS
      <3>4. Value(s, a, e, base) = v * base + dv
        BY <3>1, <3>3, ValueStep
      <3>5. v \in Nat /\ dv \in Nat
        BY <3>1, <3>2, <3>3
      <3>6. v * base + dv \in Nat /\ (v = 0 /\ dv = 0 => v * base + dv = 0)
        BY ONLY <3>5, base \in Nat
      <3> QED BY <2>3, <3>1, <3>2, <3>3, <3>4, <3>6
    <2> QED BY <2>4, <2>5
  <1>2. b - a \in Nat /\ a + (b - a) = b /\ b <= b
    OBVIOUS
  <1>3. Right(b)
    BY <1>1, <1>2
  <1> QED BY <1>3

\* Division by a base.
LEMMA Divided ==
    ASSUME NEW base \in Bases, NEW n \in Nat
    PROVE  /\ base \in Nat /\ n \div base \in Nat /\ n % base \in 0..(base - 1)
           /\ n % base \in 0..15 /\ n = (n \div base) * base + (n % base)
           /\ n >= base => n \div base < n
           /\ n < base => n \in 0..15 /\ n + 1 \in 1..base
           /\ (n % base) + 1 \in 1..base
  <1>1. base \in Nat /\ base > 1 /\ base - 1 \in 0..15
    BY DEF Bases
  <1>2. n \div base \in Nat /\ (n >= base => n \div base < n)
    <2>1. CASE base = 8
      BY <2>1
    <2>2. CASE base = 10
      BY <2>2
    <2>3. CASE base = 16
      BY <2>3
    <2> QED BY <2>1, <2>2, <2>3 DEF Bases
  <1>3. n % base \in 0..(base - 1)
    BY <1>1
  <1>4. n = (n \div base) * base + (n % base)
    BY <1>1
  <1> QED BY <1>1, <1>2, <1>3, <1>4

\* What the function that is inside of digits satisfies.
Texts(d, num, base) ==
    d = [n \in 0..num |-> IF n < base THEN <<Digit[n + 1]>>
                          ELSE Append(d[n \div base], Digit[(n % base) + 1])]

\* There is such a function.
LEMMA TextsExist ==
    ASSUME NEW num \in Nat, NEW base \in Bases
    PROVE  \E d : Texts(d, num, base)
  <1> DEFINE T == {n \in Nat : ~\E d : Texts(d, n, base)}
  <1>1. ASSUME T # {} PROVE FALSE
    <2>1. PICK n \in T : \A k \in T : n <= k
      BY <1>1, HasLeast
    <2>2. n \in Nat /\ ~\E d : Texts(d, n, base)
      BY <2>1
    <2>3. CASE n = 0
      <3>1. 0..0 = {0} /\ 0 < base
        BY DEF Bases
      <3>2. Texts([k \in {0} |-> <<Digit[k + 1]>>], 0, base)
        BY <3>1 DEF Texts
      <3> QED BY <2>2, <2>3, <3>2
    <2>4. CASE n # 0
      <3>1. n - 1 \in Nat /\ ~(n <= n - 1)
        BY <2>2, <2>4
      <3>2. PICK d : Texts(d, n - 1, base)
        BY <2>1, <3>1
      <3>3. /\ \A k \in 0..n : k \in 0..(n - 1) \/ k = n
            /\ \A k \in 0..(n - 1) : k \in Nat /\ k \in 0..n /\ k # n
            /\ n \in 0..n
        BY ONLY <2>2
      <3>4. \A k \in 0..n : k >= base => k \div base \in 0..(n - 1)
        <4> SUFFICES ASSUME NEW k \in 0..n, k >= base PROVE k \div base \in 0..(n - 1)
          OBVIOUS
        <4>1. k \in Nat /\ k <= n
          BY <2>2
        <4>2. k \div base \in Nat /\ k \div base < k
          BY <4>1, Divided
        <4> QED BY ONLY <2>2, <4>1, <4>2
      <3>5. \A k \in 0..n : ~(k < base) => k >= base
        BY <2>2 DEF Bases
      <3>6. DEFINE more == [k \in 0..n |-> IF k < base THEN <<Digit[k + 1]>>
                                ELSE Append(d[k \div base], Digit[(k % base) + 1])]
      <3>7. \A k \in 0..(n - 1) :
               d[k] = IF k < base THEN <<Digit[k + 1]>>
                      ELSE Append(d[k \div base], Digit[(k % base) + 1])
        BY <3>2 DEF Texts
      <3>8. \A k \in 0..(n - 1) : more[k] = d[k]
        BY <3>3, <3>7
      <3>9. \A k \in 0..n : more[k] = IF k < base THEN <<Digit[k + 1]>>
                                ELSE Append(more[k \div base], Digit[(k % base) + 1])
        BY <3>4, <3>5, <3>8
      <3>10. more = [k \in 0..n |-> more[k]]
        OBVIOUS
      <3>11. Texts(more, n, base)
        BY <3>9, <3>10 DEF Texts
      <3> QED BY <2>2, <3>11
    <2> QED BY <2>3, <2>4
  <1> QED BY <1>1

\* Wherever it stands after zeros or at the start, the text is read as n.
Reads(text, n, base) ==
    \A s : \A p, a \in Int :
        (/\ p <= a /\ Value(s, p, a, base) = 0
         /\ \A k \in 1..Len(text) : s[a + k - 1] = text[k])
        => Value(s, p, a + Len(text), base) = n

\* What they are: digits of the base, at least one, that stand for the number.
LEMMA TextsRead ==
    ASSUME NEW num \in Nat, NEW base \in Bases, NEW d, Texts(d, num, base), NEW n \in 0..num
    PROVE  /\ d[n] \in Seq(DigitsOf(base)) /\ Len(d[n]) >= 1
           /\ Reads(d[n], n, base)
  <1> DEFINE Right(m) ==
                /\ d[m] \in Seq(DigitsOf(base)) /\ Len(d[m]) >= 1
                /\ Reads(d[m], m, base)
             T == {m \in 0..num : ~Right(m)}
  <1>1. ASSUME T # {} PROVE FALSE
    <2>1. PICK m \in T : \A k \in T : m <= k
      <3>1. T \subseteq Nat
        OBVIOUS
      <3> QED BY <1>1, <3>1, HasLeast
    <2>2. m \in 0..num /\ m \in Nat /\ ~Right(m)
      BY <2>1
    <2>3. /\ base \in Nat /\ m \div base \in Nat /\ m % base \in 0..15
          /\ m = (m \div base) * base + (m % base)
          /\ m >= base => m \div base < m
          /\ m < base => m \in 0..15 /\ m + 1 \in 1..base
          /\ (m % base) + 1 \in 1..base
      BY <2>2, Divided
    <2>4. d[m] = IF m < base THEN <<Digit[m + 1]>>
                 ELSE Append(d[m \div base], Digit[(m % base) + 1])
      BY <2>2 DEF Texts
    <2>5. CASE m < base
      <3>1. d[m] = <<Digit[m + 1]>> /\ Digit[m + 1] \in DigitsOf(base)
        BY <2>3, <2>4, <2>5 DEF DigitsOf
      <3>2. d[m] \in Seq(DigitsOf(base)) /\ Len(d[m]) = 1 /\ d[m][1] = Digit[m + 1]
        BY <3>1
      <3>3. ASSUME NEW s, NEW p \in Int, NEW a \in Int, p <= a, Value(s, p, a, base) = 0,
                   \A k \in 1..Len(d[m]) : s[a + k - 1] = d[m][k]
            PROVE  Value(s, p, a + Len(d[m]), base) = m
        <4>1. s[a + 1 - 1] = Digit[m + 1] /\ a + 1 - 1 = a
          BY <3>2, <3>3
        <4>2. Value(s, p, a + 1, base) = 0 * base + DigitValue(s[a])
          BY <3>3, ValueStep
        <4>3. DigitValue(s[a]) = m
          BY <2>3, <2>5, <4>1, DigitIs
        <4>4. 0 * base + m = m
          BY ONLY <2>2, <2>3
        <4> QED BY <3>2, <4>2, <4>3, <4>4
      <3>4. Reads(d[m], m, base)
        BY <3>3 DEF Reads
      <3> QED BY <2>2, <3>2, <3>4
    <2>6. CASE ~(m < base)
      <3>1. PICK q, e, ch : q = m \div base /\ e = d[q] /\ ch = Digit[(m % base) + 1]
        OBVIOUS
      <3>2. q \in 0..num /\ ~(m <= q) /\ q \in Nat
        <4>1. m >= base
          BY ONLY <2>2, <2>3, <2>6
        <4> QED BY <2>2, <2>3, <3>1, <4>1
      <3>3. Right(q)
        BY <2>1, <3>2
      <3>4. ch \in DigitsOf(base) /\ DigitValue(ch) = m % base
        BY <2>3, <3>1, DigitIs DEF DigitsOf
      <3>5. PICK len : len = Len(e) /\ len \in Nat /\ len >= 1
        BY <3>1, <3>3
      <3>6. /\ d[m] \in Seq(DigitsOf(base)) /\ Len(d[m]) = len + 1 /\ d[m][len + 1] = ch
            /\ \A k \in 1..len : d[m][k] = e[k]
        <4>1. d[m] = Append(e, ch)
          BY <2>4, <2>6, <3>1
        <4>2. e \in Seq(DigitsOf(base))
          BY <3>1, <3>3
        <4> QED BY <3>4, <3>5, <4>1, <4>2, AppendProperties
      <3>7. ASSUME NEW s, NEW p \in Int, NEW a \in Int, p <= a, Value(s, p, a, base) = 0,
                   \A k \in 1..Len(d[m]) : s[a + k - 1] = d[m][k]
            PROVE  Value(s, p, a + Len(d[m]), base) = m
        <4>1. \A k \in 1..len : s[a + k - 1] = e[k]
          <5>1. \A k \in 1..len : k \in 1..Len(d[m])
            BY <3>5, <3>6
          <5>2. \A k \in 1..len : s[a + k - 1] = d[m][k]
            BY <3>7, <5>1
          <5> QED BY <3>6, <5>2
        <4>2. Value(s, p, a + len, base) = q
          <5>1. Reads(e, q, base)
            BY <3>1, <3>3
          <5> QED BY <3>5, <3>7, <4>1, <5>1 DEF Reads
        <4>3. s[a + (len + 1) - 1] = ch /\ a + (len + 1) - 1 = a + len
          BY <3>5, <3>6, <3>7
        <4>4. a + len \in Int /\ p <= a + len /\ a + (len + 1) = (a + len) + 1
          BY ONLY <3>5, <3>7, p \in Int, a \in Int
        <4>5. Value(s, p, (a + len) + 1, base) = q * base + DigitValue(ch)
          BY <4>2, <4>3, <4>4, ValueStep
        <4> QED BY <2>3, <3>1, <3>4, <3>6, <4>4, <4>5
      <3>8. Reads(d[m], m, base)
        BY <3>7 DEF Reads
      <3> QED BY <2>2, <3>5, <3>6, <3>8
    <2> QED BY <2>5, <2>6
  <1> QED BY <1>1

\* printnum_helper: the digits of a number.
LEMMA DigitsAre ==
    ASSUME NEW num \in Nat, NEW base \in Bases
    PROVE  /\ digits(num, base) \in Seq(DigitsOf(base)) /\ Len(digits(num, base)) >= 1
           /\ Reads(digits(num, base), num, base)
  <1>1. PICK d : d = CHOOSE f : f = [n \in 0..num |-> IF n < base THEN <<Digit[n + 1]>>
                                       ELSE Append(f[n \div base], Digit[(n % base) + 1])]
    OBVIOUS
  <1>2. digits(num, base) = d[num]
    BY <1>1 DEF digits
  <1>3. Texts(d, num, base)
    <2>1. \E f : Texts(f, num, base)
      BY TextsExist
    <2>2. \E f : f = [n \in 0..num |-> IF n < base THEN <<Digit[n + 1]>>
                                       ELSE Append(f[n \div base], Digit[(n % base) + 1])]
      BY <2>1, Zenon DEF Texts
    <2>3. d = [n \in 0..num |-> IF n < base THEN <<Digit[n + 1]>>
                                ELSE Append(d[n \div base], Digit[(n % base) + 1])]
      BY <1>1, <2>2, Zenon
    <2> QED BY <2>3, Zenon DEF Texts
  <1>4. num \in 0..num
    OBVIOUS
  <1> QED BY <1>2, <1>3, <1>4, TextsRead

\* strtol, of a text of blanks, a sign or none, and digits.
LEMMA StrtolIs ==
    ASSUME NEW t, NEW len \in Nat, Len(t) = len, NEW base \in Bases,
           NEW sgn \in 1..len, NEW first \in sgn..len, NEW v,
           \A k \in 1..(sgn - 1) : t[k] = Blank,
           t[sgn] \notin {Blank, "TAB", "+"},
           first = IF t[sgn] = "-" THEN sgn + 1 ELSE sgn,
           \A k \in first..len : t[k] \in DigitsOf(base),
           v = Value(t, first, len + 1, base)
    PROVE  strtol(t, base) = IF t[sgn] = "-" THEN -v ELSE v
  <1>1. NUL \notin {Blank, "TAB"} /\ NUL \notin DigitsOf(base)
    <2>1. NUL # Blank /\ NUL # "TAB"
      BY Zenon DEF NUL, Blank
    <2> QED BY <2>1, BaseDigits
  <1>2. At(t, sgn) = t[sgn] /\ At(t, first) = t[first]
    BY DEF At
  <1>3. Skip(t, 1, {Blank, "TAB"}) = sgn
    <2>1. \A k \in 1..(sgn - 1) : At(t, k) \in {Blank, "TAB"}
      BY DEF At
    <2>2. sgn \in 1..(len + 1) /\ At(t, sgn) \notin {Blank, "TAB"} /\ 1 \in 1..(len + 1)
      BY <1>2
    <2> QED BY <1>1, <2>1, <2>2, SkipIs
  <1>4. Skip(t, first, DigitsOf(base)) = len + 1
    <2>1. \A k \in first..((len + 1) - 1) : At(t, k) \in DigitsOf(base)
      BY DEF At
    <2>2. At(t, len + 1) \notin DigitsOf(base)
      BY <1>1 DEF At
    <2>3. first \in 1..(len + 1) /\ len + 1 \in first..(len + 1)
      OBVIOUS
    <2> QED BY <1>1, <2>1, <2>2, <2>3, SkipIs
  <1>5. At(t, first + 1) # "x"
    <2>1. CASE first = len
      BY <2>1 DEF At, NUL
    <2>2. CASE first # len
      <3>1. first + 1 \in first..len
        BY <2>2
      <3> QED BY <3>1, BaseDigits DEF At
    <2> QED BY <2>1, <2>2
  <1>6. (IF At(t, sgn) \in {"+", "-"} THEN sgn + 1 ELSE sgn) = first
    BY <1>2
  <1> QED BY <1>2, <1>3, <1>4, <1>5, <1>6 DEF strtol, DigitsOf

\* A number with its sign, when off is 1, and padding that is digits or comes first.
Padded(t, base, num, off, z, m, d, padc) ==
    /\ off \in {0, 1} /\ (off = 1 => t[1] = "-")
    /\ z \in Nat /\ m \in Nat /\ m >= 1 /\ Len(t) = off + z + m
    /\ d \in Seq(DigitsOf(base)) /\ Len(d) = m /\ Reads(d, num, base)
    /\ \A k \in 1..z : t[off + k] = padc
    /\ \A k \in 1..m : t[off + z + k] = d[k]
    /\ padc = "0" \/ z = 0 \/ (padc = Blank /\ off = 0)

\* It is read back.
LEMMA PaddedReads ==
    ASSUME NEW t, NEW base \in Bases, NEW num, NEW off, NEW z, NEW m, NEW d, NEW padc,
           Padded(t, base, num, off, z, m, d, padc)
    PROVE  strtol(t, base) = IF off = 1 THEN -num ELSE num
  <1> DEFINE len == Len(t)
  <1>0. /\ len \in Nat /\ Len(t) = len /\ off \in {0, 1} /\ z \in Nat /\ m \in Nat /\ m >= 1
        /\ len = off + z + m /\ d \in Seq(DigitsOf(base)) /\ Len(d) = m /\ Reads(d, num, base)
        /\ off = 1 => t[1] = "-"
        /\ \A k \in 1..z : t[off + k] = padc
        /\ \A k \in 1..m : t[off + z + k] = d[k]
        /\ padc = "0" \/ z = 0 \/ (padc = Blank /\ off = 0)
    BY DEF Padded
  <1> HIDE DEF len
  <1> USE <1>0
  <1>1. PICK a : a = off + z + 1
    OBVIOUS
  <1>2. /\ a \in Int /\ a \in 1..len /\ a + m = len + 1
        /\ \A k \in 1..m : a + k - 1 = off + z + k
        /\ \A k \in a..len : k - (off + z) \in 1..m /\ off + z + (k - (off + z)) = k
    BY <1>1
  <1>3. \A k \in a..len : t[k] \in DigitsOf(base)
    <2> SUFFICES ASSUME NEW k \in a..len PROVE t[k] \in DigitsOf(base)
      OBVIOUS
    <2>1. PICK i : i = k - (off + z)
      OBVIOUS
    <2>2. i \in 1..m /\ off + z + i = k
      BY <1>2, <2>1
    <2>3. t[off + z + i] = d[i]
      BY <2>2
    <2>4. d[i] \in DigitsOf(base)
      BY <2>2
    <2> QED BY <2>2, <2>3, <2>4
  <1>4. ASSUME NEW p \in Int, p <= a, Value(t, p, a, base) = 0
        PROVE  Value(t, p, len + 1, base) = num
    <2>1. \A k \in 1..Len(d) : t[a + k - 1] = d[k]
      BY <1>2
    <2>2. Value(t, p, a + Len(d), base) = num
      BY ONLY <1>0, <1>2, <1>4, <2>1, p \in Int DEF Reads
    <2> QED BY <1>2, <2>2
  <1>5. CASE padc = "0" \/ z = 0
    <2>1. "0" \in DigitsOf(base) /\ DigitValue("0") = 0
      <3>1. Digit[0 + 1] = "0" /\ 0 \in 0..15 /\ 0 + 1 \in 1..base
        BY DEF Digit, Bases
      <3>2. DigitValue(Digit[0 + 1]) = 0
        BY <3>1, DigitIs
      <3> QED BY <3>1, <3>2 DEF DigitsOf
    <2>2. PICK first : first = off + 1
      OBVIOUS
    <2>3. first \in 1..len /\ first \in Int /\ first <= a /\ first \in 1..a
      BY <1>1, <2>2
    <2>4. \A k \in first..(a - 1) : t[k] = "0"
      <3> SUFFICES ASSUME NEW k \in first..(a - 1) PROVE t[k] = "0"
        OBVIOUS
      <3>1. k - off \in 1..z /\ off + (k - off) = k /\ z # 0
        BY <1>1, <2>2
      <3>2. t[off + (k - off)] = padc
        BY <3>1
      <3> QED BY <1>5, <3>1, <3>2
    <2>5. Value(t, first, a, base) = 0
      <3>1. base \in Nat
        BY DEF Bases
      <3>2. \A k \in first..(a - 1) : DigitValue(t[k]) = 0 /\ DigitValue(t[k]) \in Nat
        BY <2>1, <2>4
      <3> QED BY <1>2, <2>3, <3>1, <3>2, ValueBounds
    <2>6. Value(t, first, len + 1, base) = num
      BY <1>4, <2>3, <2>5
    <2>7. \A k \in first..len : t[k] \in DigitsOf(base)
      <3>1. \A k \in first..len : k \in first..(a - 1) \/ k \in a..len
        BY <1>2, <2>3
      <3> QED BY <1>3, <2>1, <2>4, <3>1
    <2>8. CASE off = 1
      <3>1. t[1] = "-" /\ first = 1 + 1 /\ 1 \in 1..len /\ first \in 1..len
        BY <2>2, <2>3, <2>8
      <3>2. t[1] \notin {Blank, "TAB", "+"}
        <4>1. "-" # Blank
          BY Zenon DEF Blank
        <4> QED BY <3>1, <4>1
      <3>3. \A k \in 1..(1 - 1) : t[k] = Blank
        OBVIOUS
      <3>4. strtol(t, base) = IF t[1] = "-" THEN -num ELSE num
        BY ONLY <1>0, base \in Bases, <2>6, <2>7, <3>1, <3>2, <3>3,
                StrtolIs
      <3> QED BY <2>8, <3>1, <3>4
    <2>9. CASE off = 0
      <3>1. first = 1 /\ 1 \in 1..len
        BY <2>2, <2>3, <2>9
      <3>2. t[1] \in DigitsOf(base)
        BY <2>7, <3>1
      <3>3. t[1] \notin {Blank, "TAB", "+", "-"}
        BY <3>2, BaseDigits
      <3>4. \A k \in 1..(1 - 1) : t[k] = Blank
        OBVIOUS
      <3>5. strtol(t, base) = IF t[1] = "-" THEN -num ELSE num
        BY ONLY <1>0, base \in Bases, <2>6, <2>7, <3>1, <3>3, <3>4,
                StrtolIs
      <3> QED BY <2>9, <3>3, <3>5
    <2> QED BY <2>8, <2>9
  <1>6. CASE padc = Blank /\ off = 0
    <2>1. Value(t, a, len + 1, base) = num
      <3>1. Value(t, a, a, base) = 0 /\ a <= a
        BY <1>2, ValueStep
      <3> QED BY <1>2, <1>4, <3>1
    <2>2. t[a] \notin {Blank, "TAB", "+", "-"}
      <3>1. a \in a..len
        BY <1>2
      <3> QED BY <1>3, <3>1, BaseDigits
    <2>3. \A k \in 1..(a - 1) : t[k] = Blank
      <3>1. \A k \in 1..(a - 1) : k \in 1..z /\ off + k = k
        BY <1>1, <1>6
      <3> QED BY <1>6, <3>1
    <2>4. a \in a..len /\ a \in 1..len
      BY <1>2
    <2>5. strtol(t, base) = IF t[a] = "-" THEN -num ELSE num
      BY ONLY <1>0, base \in Bases, <1>3, <2>1, <2>2, <2>3, <2>4,
              StrtolIs
    <2> QED BY <1>6, <2>2, <2>5
  <1> QED BY <1>5, <1>6

\* Padding, then the digits of a number.
Shape(text, n, base, width, padc) ==
    \E d, z, m :
        /\ d \in Seq(DigitsOf(base)) /\ m \in Nat /\ m >= 1 /\ Len(d) = m /\ Reads(d, n, base)
        /\ z \in Nat /\ (width <= 0 => z = 0)
        /\ text \in Seq(DigitsOf(base) \cup {padc, "-"}) /\ Len(text) = z + m
        /\ \A k \in 1..z : text[k] = padc
        /\ \A k \in 1..m : text[z + k] = d[k]

\* printnum gives a number that shape.
LEMMA PrintnumIs ==
    ASSUME NEW n \in Nat, NEW base \in Bases, NEW width \in Int, NEW padc
    PROVE  Shape(printnum(n, base, width, padc), n, base, width, padc)
  <1>1. PICK d, m, z, pad, S :
            /\ d = digits(n, base) /\ m = Len(d)
            /\ z = (IF width - m > 0 THEN width - m ELSE 0) /\ pad = [k \in 1..z |-> padc]
            /\ S = DigitsOf(base) \cup {padc, "-"}
    OBVIOUS
  <1>2. d \in Seq(DigitsOf(base)) /\ m \in Nat /\ m >= 1 /\ Reads(d, n, base)
    BY <1>1, DigitsAre
  <1>3. z \in Nat /\ (width <= 0 => z = 0)
    BY <1>1, <1>2
  <1>4. pad \in Seq(S) /\ Len(pad) = z /\ (\A k \in 1..z : pad[k] = padc) /\ d \in Seq(S)
    <2>1. pad \in Seq(S)
      BY <1>1, <1>3
    <2>2. DigitsOf(base) \subseteq S
      BY <1>1
    <2>3. d \in Seq(S)
      BY <1>2, <2>2, SeqMonotonic
    <2> QED BY <1>1, <1>3, <2>1, <2>3
  <1>5. PICK text : text = pad \o d
    OBVIOUS
  <1>6. printnum(n, base, width, padc) = text
    BY <1>1, <1>5 DEF printnum, Times
  <1>7. text \in Seq(S) /\ Len(text) = z + m
    BY <1>1, <1>4, <1>5, ConcatProperties
  <1>8. \A i \in 1..(z + m) : text[i] = IF i <= z THEN pad[i] ELSE d[i - z]
    BY <1>1, <1>4, <1>5, ConcatProperties
  <1>9. /\ \A k \in 1..z : k \in 1..(z + m) /\ k <= z
        /\ \A k \in 1..m : z + k \in 1..(z + m) /\ ~(z + k <= z) /\ (z + k) - z = k
    BY ONLY <1>2, <1>3
  <1>10. (\A k \in 1..z : text[k] = padc) /\ \A k \in 1..m : text[z + k] = d[k]
    BY <1>4, <1>8, <1>9
  <1>11. text \in Seq(DigitsOf(base) \cup {padc, "-"}) /\ Len(d) = m
    BY <1>1, <1>7
  <1>12. Shape(text, n, base, width, padc)
    BY <1>2, <1>3, <1>7, <1>10, <1>11, Zenon DEF Shape
  <1> QED BY <1>6, <1>12

\* A text that strtol reads as n.
IsNumber(text, base, n) == \E S : text \in Seq(S) /\ strtol(text, base) = n

\* A number without a sign is read back, whatever its padding.
LEMMA PrintnumReads ==
    ASSUME NEW n \in Nat, NEW base \in Bases, NEW width \in Int, NEW padc \in {Blank, "0"}
    PROVE  IsNumber(printnum(n, base, width, padc), base, n)
  <1>1. PICK t : t = printnum(n, base, width, padc)
    OBVIOUS
  <1>2. Shape(t, n, base, width, padc)
    BY <1>1, PrintnumIs
  <1>3. PICK d, z, m :
        /\ d \in Seq(DigitsOf(base)) /\ m \in Nat /\ m >= 1 /\ Len(d) = m /\ Reads(d, n, base)
        /\ z \in Nat /\ (width <= 0 => z = 0)
        /\ t \in Seq(DigitsOf(base) \cup {padc, "-"}) /\ Len(t) = z + m
        /\ \A k \in 1..z : t[k] = padc
        /\ \A k \in 1..m : t[z + k] = d[k]
    BY <1>2 DEF Shape
  <1>4. PICK off, len : off = 0 /\ len = z + m
    OBVIOUS
  <1>5. /\ off \in {0, 1} /\ off # 1 /\ len \in Nat /\ Len(t) = len /\ len = off + z + m
        /\ \A k \in 1..z : off + k = k
        /\ \A k \in 1..m : off + z + k = z + k
    BY <1>3, <1>4
  <1>6. (\A k \in 1..z : t[off + k] = padc) /\ \A k \in 1..m : t[off + z + k] = d[k]
    BY <1>3, <1>5
  <1>7. padc = "0" \/ z = 0 \/ (padc = Blank /\ off = 0)
    BY <1>4
  <1>8. Padded(t, base, n, off, z, m, d, padc)
    BY <1>3, <1>5, <1>6, <1>7 DEF Padded
  <1>9. strtol(t, base) = n
    BY <1>5, <1>8, PaddedReads
  <1> QED BY <1>1, <1>3, <1>9 DEF IsNumber

\* A negative one is when it has no padding, or zeros.
LEMMA MinusReads ==
    ASSUME NEW n \in Nat, NEW base \in Bases, NEW width \in Int, NEW padc,
           padc = "0" \/ width <= 0
    PROVE  IsNumber(<<"-">> \o printnum(n, base, width, padc), base, -n)
  <1>1. PICK s : s = printnum(n, base, width, padc)
    OBVIOUS
  <1>2. Shape(s, n, base, width, padc)
    BY <1>1, PrintnumIs
  <1>3. PICK d, z, m :
        /\ d \in Seq(DigitsOf(base)) /\ m \in Nat /\ m >= 1 /\ Len(d) = m /\ Reads(d, n, base)
        /\ z \in Nat /\ (width <= 0 => z = 0)
        /\ s \in Seq(DigitsOf(base) \cup {padc, "-"}) /\ Len(s) = z + m
        /\ \A k \in 1..z : s[k] = padc
        /\ \A k \in 1..m : s[z + k] = d[k]
    BY <1>2 DEF Shape
  <1>4. PICK off, len, S, t : off = 1 /\ len = 1 + z + m /\ S = DigitsOf(base) \cup {padc, "-"}
                              /\ t = <<"-">> \o s
    OBVIOUS
  <1>5. /\ off \in {0, 1} /\ off = 1 /\ len \in Nat /\ len = off + z + m
        /\ \A k \in 1..z : off + k = 1 + k /\ k \in 1..(z + m)
        /\ \A k \in 1..m : off + z + k = 1 + (z + k) /\ z + k \in 1..(z + m)
    BY <1>3, <1>4
  <1>6. /\ t \in Seq(S) /\ Len(t) = len /\ t[1] = "-"
        /\ \A i \in 1..(z + m) : t[1 + i] = s[i]
    <2>1. PICK minus : minus = <<"-">>
      OBVIOUS
    <2>2. minus \in Seq(S) /\ Len(minus) = 1 /\ minus[1] = "-"
      BY <1>4, <2>1
    <2>3. s \in Seq(S) /\ Len(s) = z + m /\ t = minus \o s
      BY <1>3, <1>4, <2>1
    <2>4. /\ t \in Seq(S) /\ Len(t) = 1 + (z + m)
          /\ \A i \in 1..(1 + (z + m)) : t[i] = IF i <= 1 THEN minus[i] ELSE s[i - 1]
      <3>1. /\ minus \o s \in Seq(S) /\ Len(minus \o s) = Len(minus) + Len(s)
            /\ \A i \in 1..(Len(minus) + Len(s)) :
                  (minus \o s)[i] = IF i <= Len(minus) THEN minus[i] ELSE s[i - Len(minus)]
        BY ONLY <2>2, <2>3, ConcatProperties
      <3> QED BY <2>2, <2>3, <3>1
    <2>5. /\ 1 \in 1..(1 + (z + m)) /\ len = 1 + (z + m)
          /\ \A i \in 1..(z + m) : 1 + i \in 1..(1 + (z + m)) /\ ~(1 + i <= 1) /\ (1 + i) - 1 = i
      BY <1>3, <1>4
    <2> QED BY <2>2, <2>4, <2>5
  <1>7. (\A k \in 1..z : t[off + k] = padc) /\ \A k \in 1..m : t[off + z + k] = d[k]
    BY <1>3, <1>5, <1>6
  <1>8. padc = "0" \/ z = 0 \/ (padc = Blank /\ off = 0)
    BY <1>3
  <1>9. Padded(t, base, n, off, z, m, d, padc)
    BY <1>3, <1>5, <1>6, <1>7, <1>8 DEF Padded
  <1>10. strtol(t, base) = -n
    BY <1>5, <1>9, PaddedReads
  <1> QED BY <1>1, <1>4, <1>6, <1>10 DEF IsNumber

\* The base of a conversion, and the number that it is asked to print.
BaseOf(conv) == CASE conv = "x" -> 16 [] conv = "o" -> 8 [] OTHER -> 10
Asked(conv, lflag) == IF conv = "d" THEN arg.num ELSE getuint(lflag)

\* A conversion of a number is read back.
LEMMA ConvertedReads ==
    ASSUME NEW conv \in {"d", "u", "x", "o"}, arg.num \in Int, getuint(esc.lflag) \in Nat,
           esc.width \in Int, esc.padc \in {Blank, "0"},
           Asked(conv, esc.lflag) >= 0 \/ esc.padc = "0" \/ esc.width <= 0
    PROVE  IsNumber(Converted(conv), BaseOf(conv), Asked(conv, esc.lflag))
  <1>1. PICK num, base, width, padc :
            /\ num = Asked(conv, esc.lflag) /\ base = BaseOf(conv)
            /\ width = esc.width /\ padc = esc.padc
    OBVIOUS
  <1>2. base \in Bases /\ num \in Int /\ (conv # "d" => num \in Nat)
    BY <1>1 DEF BaseOf, Bases, Asked
  <1>3. CASE num >= 0
    <2>1. Converted(conv) = printnum(num, base, width, padc)
      <3>1. CASE conv = "d"
        BY <1>1, <1>2, <1>3, <3>1 DEF Converted, BaseOf, Asked, getint
      <3>2. CASE conv = "u"
        BY <1>1, <3>2 DEF Converted, BaseOf, Asked
      <3>3. CASE conv = "x"
        BY <1>1, <3>3 DEF Converted, BaseOf, Asked
      <3>4. CASE conv = "o"
        BY <1>1, <3>4 DEF Converted, BaseOf, Asked
      <3> QED BY <3>1, <3>2, <3>3, <3>4
    <2>2. num \in Nat /\ padc \in {Blank, "0"} /\ width \in Int
      BY <1>1, <1>2, <1>3
    <2> QED BY <1>1, <1>2, <2>1, <2>2, PrintnumReads
  <1>4. CASE ~(num >= 0)
    <2>1. conv = "d" /\ num < 0 /\ num = arg.num
      BY <1>1, <1>2, <1>4 DEF Asked
    <2>2. Converted(conv) = <<"-">> \o printnum(-num, base, width, padc)
      BY <1>1, <2>1 DEF Converted, BaseOf, Asked, getint
    <2>3. PICK n : n = -num
      OBVIOUS
    <2>4. n \in Nat /\ -n = num /\ width \in Int /\ (padc = "0" \/ width <= 0)
      BY <1>1, <1>2, <1>4, <2>3
    <2>5. IsNumber(<<"-">> \o printnum(n, base, width, padc), base, -n)
      BY <1>2, <2>4, MinusReads
    <2> QED BY <1>1, <2>2, <2>3, <2>4, <2>5
  <1> QED BY <1>3, <1>4

-----------------------------------------------------------------------------
(* A format that is one conversion of a number.                            *)

Conv == fmt[Len(fmt)]

\* The format is one escape, which asks for a number, without a dash.
OneNumber ==
    /\ fmt # <<>> /\ fmt[1] = "%" /\ EscapeEnd(1) = Len(fmt)
    /\ Conv \in {"d", "u", "x", "o"}
    /\ ~\E n \in 1..Len(fmt) : fmt[n] = "-"

\* How many of the first n characters are an l; the number that is to be printed, and
\* whether padding can stand between its sign and its digits.
Longs(n) == Cardinality({k \in 1..n : fmt[k] = "l"})
TheNumber == Asked(Conv, Longs(Len(fmt)))
Readable == TheNumber >= 0 \/ At(fmt, 2) = "0" \/ Len(fmt) = 2

\* What the flags that were read say.
EscapeSays ==
    /\ esc = [on |-> TRUE, padc |-> esc.padc, width |-> esc.width,
              precision |-> esc.precision, lflag |-> esc.lflag, altflag |-> esc.altflag]
    /\ esc.width \in Int /\ esc.padc \in {Blank, "0"}
    /\ esc.lflag = Longs(next - 1)
    /\ (next > 2 /\ fmt[2] = "0") => esc.padc = "0"
    /\ next = 2 => esc.width = -1

\* What was printed and is still to be, is read back.
SaysNumber ==
    \E S : /\ all \in Seq(S) /\ todo \in Seq(S)
           /\ strtol(all \o todo, BaseOf(Conv)) = TheNumber

\* With LitInv, the inductive invariant of vprintfmt for a format that is one number:
\* before its %, in its escape, or behind it.
ReadInv ==
    /\ arg \in Arg
    /\ OneNumber =>
         \/ next = 1 /\ ~esc.on /\ todo = <<>> /\ all = <<>>
         \/ /\ next \in 2..Len(fmt) /\ esc.on /\ todo = <<>> /\ all = <<>>
            /\ EscapeSays
         \/ next = Len(fmt) + 1 /\ ~esc.on /\ (Readable => SaysNumber)

\* The characters between the % and the last one are flags and digits.
LEMMA OneNumberIs ==
    ASSUME fmt \in Seq(FmtChar), OneNumber
    PROVE  Len(fmt) >= 2 /\ \A k \in 2..(Len(fmt) - 1) : fmt[k] \in Between /\ fmt[k] # "-"
  <1>1. PICK len : len = Len(fmt) /\ len \in Nat
    OBVIOUS
  <1>2. len >= 1
    BY <1>1, EmptySeq DEF OneNumber
  <1>3. len = Skip(fmt, 2, Between) /\ 2 \in 1..(len + 1)
    BY <1>1, <1>2 DEF OneNumber, EscapeEnd
  <1>4. len \in 2..(len + 1) /\ \A k \in 2..(len - 1) : At(fmt, k) \in Between
    BY <1>1, <1>3, Characters, SkipStops
  <1>5. \A k \in 2..(len - 1) : At(fmt, k) = fmt[k] /\ k \in 1..len
    BY <1>1 DEF At
  <1> QED BY <1>1, <1>4, <1>5 DEF OneNumber

\* The l among one more character.
LEMMA LongsAre ==
    ASSUME NEW n \in Nat
    PROVE  /\ Longs(n) \in Nat
           /\ Longs(n + 1) = IF fmt[n + 1] = "l" THEN Longs(n) + 1 ELSE Longs(n)
           /\ Longs(0) = 0
  <1>1. PICK T : T = {k \in 1..n : fmt[k] = "l"}
    OBVIOUS
  <1>2. IsFiniteSet(T)
    <2>1. IsFiniteSet(1..n)
      BY FS_Interval
    <2>2. T \subseteq 1..n
      BY <1>1
    <2> QED BY <2>1, <2>2, FS_Subset
  <1>3. Longs(n) = Cardinality(T) /\ Cardinality(T) \in Nat
    BY <1>1, <1>2, FS_CardinalityType DEF Longs
  <1>4. fmt[n + 1] = "l" => Longs(n + 1) = Longs(n) + 1
    <2> SUFFICES ASSUME fmt[n + 1] = "l" PROVE Longs(n + 1) = Longs(n) + 1
      OBVIOUS
    <2>1. {k \in 1..(n + 1) : fmt[k] = "l"} = T \cup {n + 1} /\ n + 1 \notin T
      BY <1>1
    <2>2. Cardinality(T \cup {n + 1}) = Cardinality(T) + 1
      BY <1>2, <2>1, FS_AddElement
    <2>3. Longs(n + 1) = Cardinality(T \cup {n + 1})
      BY <2>1 DEF Longs
    <2> QED BY <1>3, <2>2, <2>3
  <1>5. fmt[n + 1] # "l" => Longs(n + 1) = Longs(n)
    <2> SUFFICES ASSUME fmt[n + 1] # "l" PROVE Longs(n + 1) = Longs(n)
      OBVIOUS
    <2>1. {k \in 1..(n + 1) : fmt[k] = "l"} = T
      BY <1>1
    <2> QED BY <1>3, <2>1 DEF Longs
  <1>6. Longs(0) = 0
    <2>1. {k \in 1..0 : fmt[k] = "l"} = {}
      OBVIOUS
    <2> QED BY <2>1, FS_EmptySet DEF Longs
  <1> QED BY <1>3, <1>4, <1>5, <1>6

\* No l, no more of them.
LEMMA LongsSame ==
    ASSUME NEW n \in Nat, NEW m \in Nat, n <= m, \A k \in (n + 1)..m : fmt[k] # "l"
    PROVE  Longs(m) = Longs(n)
  <1>1. {k \in 1..m : fmt[k] = "l"} = {k \in 1..n : fmt[k] = "l"}
    <2>1. \A k \in 1..m : k \in 1..n \/ k \in (n + 1)..m
      OBVIOUS
    <2>2. \A k \in 1..n : k \in 1..m
      OBVIOUS
    <2> QED BY <2>1, <2>2
  <1> QED BY <1>1 DEF Longs

\* Arguments are integers, and what an unsigned conversion makes of them is a number.
LEMMA ArgsAre ==
    ASSUME arg \in Arg
    PROVE  arg.num \in Int /\ \A n : getuint(n) \in Nat
  <1>1. arg.num \in Int
    <2>1. arg.num \in -(2^(INTBITS - 1))..(2^(INTBITS - 1) - 1)
      BY PrintfmtAssumption, Zenon
    <2> QED BY <2>1
  <1>2. ASSUME NEW n PROVE getuint(n) \in Nat
    <2>1. PICK p : p = 2^(IF n >= 2 THEN 2 * INTBITS ELSE INTBITS)
      OBVIOUS
    <2>2. p \in Nat \ {0}
      <3>1. \A m \in {INTBITS, 2 * INTBITS} : 2^m \in Nat \ {0}
        BY PrintfmtAssumption, Zenon
      <3>2. (IF n >= 2 THEN 2 * INTBITS ELSE INTBITS) \in {INTBITS, 2 * INTBITS}
        OBVIOUS
      <3> QED BY <2>1, <3>1, <3>2, Zenon
    <2>3. getuint(n) = arg.num % p
      BY <2>1, Zenon DEF getuint
    <2> QED BY <1>1, <2>2, <2>3
  <1> QED BY <1>1, <1>2

\* Inside of the escape.
LEMMA InOneNumber ==
    ASSUME LitInv, ReadInv, OneNumber, esc.on
    PROVE  /\ next \in 2..Len(fmt) /\ todo = <<>> /\ all = <<>> /\ EscapeSays
           /\ PfChar = fmt[next] /\ PfChar # "-"
           /\ next # Len(fmt) => PfChar \in Between
           /\ next = Len(fmt) => PfChar \in {"d", "u", "x", "o"}
           /\ PfChar \in Between => next < Len(fmt)
  <1>1. PICK len, n : len = Len(fmt) /\ n = next /\ len \in Nat
    BY DEF LitInv
  <1>2. n \in 2..len /\ todo = <<>> /\ all = <<>> /\ EscapeSays
    BY <1>1 DEF ReadInv
  <1>3. PfChar = fmt[n] /\ n \in 1..len
    BY <1>1, <1>2 DEF PfChar, At
  <1>4. fmt[len] \in {"d", "u", "x", "o"} /\ fmt[len] \notin Between
    BY <1>1, Characters DEF OneNumber, Conv, Conversion
  <1>5. n # len => PfChar \in Between
    BY <1>1, <1>2, <1>3, OneNumberIs DEF LitInv
  <1>6. PfChar # "-"
    BY <1>1, <1>3 DEF OneNumber
  <1> QED BY <1>1, <1>2, <1>3, <1>4, <1>5, <1>6

\* A flag.
LEMMA ReadFlag == ASSUME LitInv, ReadInv, OneNumber, Flag PROVE ReadInv'
  <1>1. /\ esc.on /\ ~done /\ PfChar \in {"-", "0", ".", "#", "l"}
        /\ esc' = CASE PfChar \in {"-", "0"} -> [esc EXCEPT !.padc = PfChar]
                [] PfChar = "." -> [esc EXCEPT !.width = IF @ < 0 THEN 0 ELSE @]
                [] PfChar = "#" -> [esc EXCEPT !.altflag = TRUE]
                [] PfChar = "l" -> [esc EXCEPT !.lflag = @ + 1]
        /\ UNCHANGED <<fmt, arg, todo, all>>
    BY DEF Flag, InEscape, EmitNothing
  <1>2. PICK len, n : len = Len(fmt) /\ n = next /\ len \in Nat /\ next' = n + 1
    BY DEF Flag, LitInv
  <1>3. PfChar \in Between
    BY <1>1, Characters DEF Between
  <1>4. n \in 2..len /\ n < len /\ todo = <<>> /\ all = <<>> /\ EscapeSays
        /\ PfChar = fmt[n] /\ PfChar # "-"
    BY <1>1, <1>2, <1>3, InOneNumber
  <1>5. n + 1 \in 2..len /\ n + 1 > 2 /\ n + 1 # 2 /\ (n + 1) - 1 = n /\ n - 1 \in Nat
        /\ (n - 1) + 1 = n /\ (n = 2 \/ n > 2)
    BY <1>2, <1>4
  <1>6. PICK width, prec, lflag, padc, alt :
            /\ esc = [on |-> TRUE, padc |-> padc, width |-> width, precision |-> prec,
                      lflag |-> lflag, altflag |-> alt]
            /\ width \in Int /\ padc \in {Blank, "0"} /\ lflag = Longs(n - 1)
            /\ (n > 2 /\ fmt[2] = "0") => padc = "0"
    BY <1>2, <1>4 DEF EscapeSays
  <1>7. Longs(n) = (IF PfChar = "l" THEN lflag + 1 ELSE lflag)
    BY <1>4, <1>5, <1>6, LongsAre
  <1>8. /\ esc' = [on |-> TRUE, padc |-> esc'.padc, width |-> esc'.width,
                   precision |-> esc'.precision, lflag |-> esc'.lflag,
                   altflag |-> esc'.altflag]
        /\ esc'.width \in Int /\ esc'.padc \in {Blank, "0"} /\ esc'.lflag = Longs(n)
        /\ fmt[2] = "0" => esc'.padc = "0"
    <2>1. CASE PfChar = "0"
      <3>1. esc' = [on |-> TRUE, padc |-> "0", width |-> width, precision |-> prec,
                    lflag |-> lflag, altflag |-> alt]
        BY <1>1, <1>6, <2>1
      <3> QED BY <1>6, <1>7, <2>1, <3>1
    <2>2. CASE PfChar = "."
      <3>1. PICK w \in Int : w = IF width < 0 THEN 0 ELSE width
        BY <1>6
      <3>2. esc' = [on |-> TRUE, padc |-> padc, width |-> w, precision |-> prec,
                    lflag |-> lflag, altflag |-> alt]
        BY <1>1, <1>6, <2>2, <3>1
      <3> QED BY <1>4, <1>5, <1>6, <1>7, <2>2, <3>2
    <2>3. CASE PfChar = "#"
      <3>1. esc' = [on |-> TRUE, padc |-> padc, width |-> width, precision |-> prec,
                    lflag |-> lflag, altflag |-> TRUE]
        BY <1>1, <1>6, <2>3
      <3> QED BY <1>4, <1>5, <1>6, <1>7, <2>3, <3>1
    <2>4. CASE PfChar = "l"
      <3>1. esc' = [on |-> TRUE, padc |-> padc, width |-> width, precision |-> prec,
                    lflag |-> lflag + 1, altflag |-> alt]
        BY <1>1, <1>6, <2>4
      <3> QED BY <1>4, <1>5, <1>6, <1>7, <2>4, <3>1
    <2> QED BY <1>1, <1>4, <2>1, <2>2, <2>3, <2>4
  <1>9. \A k : Longs(k)' = Longs(k)
    BY <1>1 DEF Longs
  <1>10. EscapeSays' /\ esc'.on
    BY <1>1, <1>2, <1>5, <1>8, <1>9 DEF EscapeSays
  <1> QED BY <1>1, <1>2, <1>4, <1>5, <1>10 DEF ReadInv

\* A width or a precision.
LEMMA ReadField == ASSUME LitInv, ReadInv, OneNumber, Field PROVE ReadInv'
  <1>1. PICK len, n, end, v :
            /\ len = Len(fmt) /\ n = next /\ len \in Nat /\ n \in Nat
            /\ end = Skip(fmt, next, DecDigit) /\ v = Value(fmt, next, end, 10)
    BY DEF LitInv
  <1>2. /\ esc.on /\ ~done /\ PfChar \in DecDigit /\ PfChar # "0" /\ next' = end /\ SetField(v)
        /\ UNCHANGED <<fmt, arg, todo, all>>
    BY <1>1 DEF Field, InEscape, EmitNothing
  <1>3. /\ n \in 2..len /\ n < len /\ todo = <<>> /\ all = <<>> /\ EscapeSays
        /\ PfChar = fmt[n]
    BY <1>1, <1>2, Characters, InOneNumber
  <1>4. /\ end \in n..(len + 1) /\ At(fmt, end) \notin DecDigit
        /\ \A k \in n..(end - 1) : At(fmt, k) \in DecDigit
    <2>1. n \in 1..(len + 1) /\ Len(fmt) = len /\ NUL \notin DecDigit
      BY <1>1, <1>3, Characters
    <2>2. end = Skip(fmt, n, DecDigit)
      BY <1>1
    <2> QED BY ONLY <1>1, <2>1, <2>2, SkipStops
  <1>5. end # n /\ end <= len
    <2>1. At(fmt, n) \in DecDigit
      BY <1>1, <1>2 DEF PfChar
    <2>2. fmt[len] \notin DecDigit
      BY <1>1, Characters DEF OneNumber, Conv, Conversion
    <2>3. ASSUME end = len + 1 PROVE FALSE
      <3>1. len \in n..(end - 1) /\ len <= len
        BY <1>1, <1>3, <2>3
      <3>2. fmt[len] \in DecDigit
        BY <1>1, <1>4, <3>1 DEF At
      <3> QED BY <2>2, <3>2
    <2>4. end # n
      BY <1>4, <2>1
    <2> QED BY <1>4, <2>3, <2>4, <1>1
  <1>6. /\ end \in 2..len /\ end > 2 /\ end # 2 /\ end \in Int /\ n <= end
        /\ n - 1 \in Nat /\ end - 1 \in Nat /\ n - 1 <= end - 1 /\ (n - 1) + 1 = n
        /\ n = 2 \/ n > 2
        /\ \A k \in n..(end - 1) : k <= len
    BY <1>1, <1>3, <1>4, <1>5
  <1>7. \A k \in n..(end - 1) : fmt[k] \in DecDigit
    BY <1>1, <1>4, <1>6 DEF At
  <1>8. v \in Nat
    <2>1. 10 \in Bases /\ 10 \in Nat
      BY DEF Bases
    <2>2. \A k \in n..(end - 1) : DigitValue(fmt[k]) \in Nat
      BY <1>7, <2>1, BaseDigits DEF DecDigit, DigitsOf
    <2> QED BY <1>1, <1>6, <2>1, <2>2, ValueBounds
  <1>9. Longs(end - 1) = Longs(n - 1)
    <2>1. "l" \notin DecDigit
      BY Characters
    <2>2. \A k \in n..(end - 1) : fmt[k] # "l"
      BY <1>7, <2>1
    <2> QED BY <1>6, <2>2, LongsSame
  <1>10. PICK width, prec, lflag, padc, alt :
            /\ esc = [on |-> TRUE, padc |-> padc, width |-> width, precision |-> prec,
                      lflag |-> lflag, altflag |-> alt]
            /\ width \in Int /\ padc \in {Blank, "0"} /\ lflag = Longs(n - 1)
            /\ (n > 2 /\ fmt[2] = "0") => padc = "0"
    BY <1>1, <1>3 DEF EscapeSays
  <1>11. \/ esc' = [on |-> TRUE, padc |-> padc, width |-> v, precision |-> -1,
                    lflag |-> lflag, altflag |-> alt]
         \/ esc' = [on |-> TRUE, padc |-> padc, width |-> width, precision |-> v,
                    lflag |-> lflag, altflag |-> alt]
    BY <1>2, <1>10 DEF SetField
  <1>12. fmt[2] = "0" => padc = "0"
    BY <1>2, <1>3, <1>6, <1>10
  <1>13. \A k : Longs(k)' = Longs(k)
    BY <1>2 DEF Longs
  <1>14. EscapeSays' /\ esc'.on
    BY <1>2, <1>6, <1>8, <1>9, <1>10, <1>11, <1>12, <1>13 DEF EscapeSays
  <1> QED BY <1>1, <1>2, <1>3, <1>6, <1>14 DEF ReadInv

\* The number is put out.
LEMMA ReadConvert == ASSUME LitInv, ReadInv, OneNumber, Convert PROVE ReadInv'
  <1>1. PICK len, n : len = Len(fmt) /\ n = next /\ len \in Nat /\ n \in Nat
    BY DEF LitInv
  <1>2. /\ esc.on /\ ~done /\ PfChar \in Conversion /\ next' = n + 1 /\ esc' = NoEscape
        /\ todo' = Converted(PfChar) /\ UNCHANGED <<fmt, arg, all>>
    BY <1>1 DEF Convert, InEscape, Emit
  <1>3. n = len /\ PfChar = Conv /\ Conv \in {"d", "u", "x", "o"} /\ all = <<>> /\ EscapeSays
        /\ len >= 2
    BY <1>1, <1>2, Characters, InOneNumber DEF Conv
  <1>4. /\ esc.width \in Int /\ esc.padc \in {Blank, "0"} /\ esc.lflag = Longs(len - 1)
        /\ (len > 2 /\ fmt[2] = "0") => esc.padc = "0"
        /\ len = 2 => esc.width = -1
    BY <1>1, <1>3 DEF EscapeSays
  <1>5. Longs(len) = Longs(len - 1)
    <2>1. len - 1 \in Nat /\ (len - 1) + 1 = len
      BY <1>1, <1>3
    <2>2. fmt[len] # "l"
      BY <1>1, <1>3 DEF Conv
    <2> QED BY <2>1, <2>2, LongsAre
  <1>6. TheNumber = Asked(Conv, esc.lflag)
    BY <1>1, <1>4, <1>5 DEF TheNumber
  <1>7. Readable => SaysNumber'
    <2> SUFFICES ASSUME Readable PROVE SaysNumber'
      OBVIOUS
    <2>1. TheNumber >= 0 \/ esc.padc = "0" \/ esc.width <= 0
      <3>1. At(fmt, 2) = fmt[2]
        BY <1>1, <1>3 DEF At
      <3>2. len = 2 => esc.width <= 0
        BY <1>4
      <3>3. len = 2 \/ len > 2
        BY <1>1, <1>3
      <3> QED BY <1>1, <1>4, <3>1, <3>2, <3>3 DEF Readable
    <2>2. arg \in Arg /\ arg.num \in Int /\ getuint(esc.lflag) \in Nat
      BY ArgsAre DEF ReadInv
    <2>3. IsNumber(Converted(Conv), BaseOf(Conv), TheNumber)
      BY <1>3, <1>4, <1>6, <2>1, <2>2, ConvertedReads
    <2>4. PICK S : todo' \in Seq(S) /\ strtol(todo', BaseOf(Conv)) = TheNumber
      BY <1>2, <1>3, <2>3 DEF IsNumber
    <2>5. all' = <<>> /\ <<>> \in Seq(S) /\ <<>> \o todo' = todo'
      BY <1>2, <1>3, <2>4, ConcatEmptySeq, EmptySeq
    <2>6. BaseOf(Conv)' = BaseOf(Conv) /\ TheNumber' = TheNumber
      BY <1>2 DEF BaseOf, Conv, TheNumber, Asked, getuint, Longs
    <2>7. all' \in Seq(S) /\ todo' \in Seq(S)
          /\ strtol(all' \o todo', BaseOf(Conv)') = TheNumber'
      BY <2>4, <2>5, <2>6
    <2> QED BY <2>7 DEF SaysNumber
  <1>8. Readable' <=> Readable
    BY <1>2 DEF Readable, Conv, TheNumber, Asked, getuint, Longs, At
  <1> QED BY <1>1, <1>2, <1>3, <1>7, <1>8, NoEscapeIs DEF ReadInv

\* A character goes out, or the format has ended.
LEMMA ReadPutch == ASSUME LitInv, ReadInv, OneNumber, Putch \/ EndOfFmt PROVE ReadInv'
  <1>1. UNCHANGED <<fmt, next, arg, esc>>
    BY DEF Putch, EndOfFmt
  <1>2. /\ BaseOf(Conv)' = BaseOf(Conv) /\ TheNumber' = TheNumber
        /\ Readable' <=> Readable
    BY <1>1 DEF Readable, BaseOf, Conv, TheNumber, Asked, getuint, Longs, At
  <1>3. CASE Putch
    <2>1. todo # <<>> /\ all' = Append(all, Head(todo)) /\ todo' = Tail(todo)
      BY <1>3 DEF Putch
    <2>2. next = Len(fmt) + 1 /\ ~esc.on /\ (Readable => SaysNumber)
      BY <2>1 DEF ReadInv
    <2>3. SaysNumber => SaysNumber'
      <3> SUFFICES ASSUME SaysNumber PROVE SaysNumber'
        OBVIOUS
      <3>1. PICK S : all \in Seq(S) /\ todo \in Seq(S)
                     /\ strtol(all \o todo, BaseOf(Conv)) = TheNumber
        BY DEF SaysNumber
      <3>2. PICK ch, rest : ch = Head(todo) /\ rest = Tail(todo)
        OBVIOUS
      <3>3. ch \in S /\ rest \in Seq(S) /\ todo = <<ch>> \o rest /\ <<ch>> \in Seq(S)
        BY <2>1, <3>1, <3>2, HeadTailProperties
      <3>4. Append(all, ch) = all \o <<ch>> /\ Append(all, ch) \in Seq(S)
        BY <3>1, <3>3, AppendIsConcat, AppendProperties
      <3>5. (all \o <<ch>>) \o rest = all \o (<<ch>> \o rest)
        BY <3>1, <3>3, ConcatAssociative
      <3>6. all' \in Seq(S) /\ todo' \in Seq(S) /\ all' \o todo' = all \o todo
        BY <2>1, <3>2, <3>3, <3>4, <3>5
      <3>7. all' \in Seq(S) /\ todo' \in Seq(S)
            /\ strtol(all' \o todo', BaseOf(Conv)') = TheNumber'
        BY <1>2, <3>1, <3>6
      <3> QED BY <3>7 DEF SaysNumber
    <2> QED BY <1>1, <1>2, <2>2, <2>3 DEF ReadInv
  <1>4. CASE EndOfFmt
    <2>1. UNCHANGED <<todo, all>> /\ PfChar = NUL /\ ~esc.on
      BY <1>4 DEF EndOfFmt, InText
    <2>2. next # 1
      <3>1. next = 1 => PfChar = fmt[1]
        BY OneNumberIs DEF PfChar, At, LitInv
      <3> QED BY <2>1, <3>1 DEF OneNumber, NUL
    <2>3. next = Len(fmt) + 1 /\ (Readable => SaysNumber)
      BY <2>1, <2>2 DEF ReadInv
    <2>4. SaysNumber => SaysNumber'
      BY <1>2, <2>1 DEF SaysNumber
    <2> QED BY <1>1, <1>2, <2>1, <2>3, <2>4 DEF ReadInv
  <1> QED BY <1>3, <1>4

\* The start of the escape.
LEMMA ReadPercent == ASSUME LitInv, ReadInv, OneNumber, Percent PROVE ReadInv'
  <1>1. PICK len : len = Len(fmt) /\ len \in Nat /\ len >= 2
    BY OneNumberIs DEF LitInv
  <1>2. /\ ~esc.on /\ PfChar = "%" /\ esc' = [NoEscape EXCEPT !.on = TRUE]
        /\ next' = next + 1 /\ UNCHANGED <<fmt, arg, todo, all>>
    BY DEF Percent, InText, EmitNothing
  <1>3. next # len + 1
    BY <1>1, <1>2 DEF PfChar, At, NUL
  <1>4. next = 1 /\ todo = <<>> /\ all = <<>>
    BY <1>1, <1>2, <1>3 DEF ReadInv
  <1>5. next' = 2 /\ next' - 1 = 1
    BY <1>2, <1>4
  <1>6. esc' = [on |-> TRUE, padc |-> Blank, width |-> -1, precision |-> -1,
                lflag |-> 0, altflag |-> FALSE]
    BY <1>2 DEF NoEscape
  <1>7. Longs(1) = 0
    <2>1. fmt[0 + 1] # "l" /\ 0 \in Nat /\ 0 + 1 = 1
      BY DEF OneNumber
    <2> QED BY <2>1, LongsAre
  <1>8. \A k : Longs(k)' = Longs(k)
    BY <1>2 DEF Longs
  <1>9. EscapeSays' /\ esc'.on
    BY <1>5, <1>6, <1>7, <1>8 DEF EscapeSays
  <1> QED BY <1>1, <1>2, <1>4, <1>5, <1>9 DEF ReadInv

\* In such a format nothing else happens.
LEMMA ReadStep == ASSUME LitInv, ReadInv, OneNumber, PfNext PROVE ReadInv'
  <1>1. CASE Text
    <2>1. ~esc.on /\ PfChar \notin {"%", NUL}
      BY <1>1 DEF Text, InText
    <2>2. next = 1 \/ next = Len(fmt) + 1
      BY <2>1 DEF ReadInv
    <2>3. next = 1 => PfChar = "%"
      BY OneNumberIs DEF PfChar, At, LitInv, OneNumber
    <2>4. next = Len(fmt) + 1 => PfChar = NUL
      BY OneNumberIs DEF PfChar, At, LitInv
    <2> QED BY <2>1, <2>2, <2>3, <2>4
  <1>2. CASE StarField \/ Unknown
    <2>1. esc.on /\ (PfChar = "*" \/ PfChar \notin Conversion \cup Between)
      BY <1>2 DEF StarField, Unknown, InEscape, Between
    <2>2. PfChar \in Between \/ PfChar \in {"d", "u", "x", "o"}
      BY <2>1, InOneNumber
    <2> QED BY <2>1, <2>2, Characters DEF Conversion
  <1> QED BY <1>1, <1>2, ReadPutch, ReadPercent, ReadFlag, ReadField, ReadConvert DEF PfNext

\* The number is read back, for every format and every argument.
THEOREM NumbersReadBack == Spec => []NumberReadsBack
  <1>1. Init => ReadInv
    <2> SUFFICES ASSUME Init PROVE ReadInv
      OBVIOUS
    <2>1. PfInit \/ PfIdle
      BY DEF Init
    <2>2. arg \in Arg /\ next = 1 /\ esc = NoEscape /\ todo = <<>> /\ all = <<>>
      BY <2>1 DEF PfInit, PfIdle
    <2> QED BY <2>2, NoEscapeIs DEF ReadInv
  <1>2. LitInv /\ ReadInv /\ [Next]_vars => ReadInv'
    <2> SUFFICES ASSUME LitInv, ReadInv, [Next]_vars PROVE ReadInv'
      OBVIOUS
    <2>1. CASE UNCHANGED pfVars
      BY <2>1 DEF pfVars, ReadInv, OneNumber, EscapeEnd, Skip, At, Conv, EscapeSays,
                  SaysNumber, Readable, TheNumber, Longs, Asked, getuint, BaseOf
    <2>2. CASE PfNext
      <3>1. fmt' = fmt /\ arg' = arg
        BY <2>2 DEF PfNext, Putch, Text, Percent, EndOfFmt, Flag, Field, StarField, Convert,
                    Unknown
      <3>2. OneNumber' <=> OneNumber
        BY <3>1 DEF OneNumber, EscapeEnd, Skip, At, Conv
      <3>3. CASE ~OneNumber
        BY <3>1, <3>2, <3>3 DEF ReadInv
      <3> QED BY <2>2, <3>3, ReadStep
    <2> QED BY <2>1, <2>2 DEF Next, Routine, vars
  <1>3. LitInv /\ ReadInv => NumberReadsBack
    <2> SUFFICES ASSUME LitInv, ReadInv PROVE NumberReadsBack
      OBVIOUS
    <2>1. PICK base, num :
              /\ base = (CASE Conv = "x" -> 16 [] Conv = "o" -> 8 [] OTHER -> 10)
              /\ num = IF Conv = "d" THEN arg.num
                      ELSE arg.num % (2^(IF Cardinality({n \in 1..Len(fmt) : fmt[n] = "l"}) >= 2
                                         THEN 2 * INTBITS ELSE INTBITS))
      OBVIOUS
    <2>2. base = BaseOf(Conv) /\ num = TheNumber
      <3>1. base = BaseOf(Conv)
        BY <2>1 DEF BaseOf
      <3>2. num = TheNumber
        BY <2>1, Zenon DEF TheNumber, Asked, getuint, Longs
      <3> QED BY <3>1, <3>2
    <2>3. ASSUME done, OneNumber, num >= 0 \/ At(fmt, 2) = "0" \/ Len(fmt) = 2
          PROVE  strtol(all, base) = num
      <3>1. next = Len(fmt) + 1 /\ todo = <<>>
        BY <2>3, OneNumberIs DEF LitInv, ReadInv
      <3>2. Readable
        BY <2>2, <2>3 DEF Readable
      <3>3. SaysNumber
        <4>1. ~esc.on /\ next # 1 /\ ~(next \in 2..Len(fmt))
          BY <2>3, <3>1, OneNumberIs DEF LitInv
        <4> QED BY <2>3, <3>2, <4>1 DEF ReadInv
      <3>4. PICK S : all \in Seq(S) /\ strtol(all \o todo, BaseOf(Conv)) = TheNumber
        BY <3>3 DEF SaysNumber
      <3>5. all \o todo = all
        BY <3>1, <3>4, ConcatEmptySeq
      <3> QED BY <2>2, <3>4, <3>5
    <2>4. SUFFICES ASSUME done, fmt # <<>>, fmt[1] = "%", EscapeEnd(1) = Len(fmt),
                          Conv \in {"d", "u", "x", "o"},
                          ~\E n \in 1..Len(fmt) : fmt[n] = "-",
                          num >= 0 \/ At(fmt, 2) = "0" \/ Len(fmt) = 2
                   PROVE  strtol(all, base) = num
      BY <2>1 DEF NumberReadsBack, Conv
    <2> QED BY <2>3, <2>4 DEF OneNumber
  <1> QED BY <1>1, <1>2, <1>3, FormatSafe, PTL DEF Spec
=============================================================================
