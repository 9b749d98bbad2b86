------------------------------ MODULE DebugInfo ------------------------------
(***************************************************************************)
(* kern/kdebug.c: stab_binsearch and debuginfo_eip, which finds the file,  *)
(* the function and the line of an address in the table of stabs.          *)
(*                                                                         *)
(* A round of the loop of stab_binsearch is a step.  The table of the      *)
(* program is valid memory; names are not modelled, a stab stands for its  *)
(* name.  Indices start at 0 as in the code.                               *)
(***************************************************************************)
EXTENDS Integers, FiniteSets

CONSTANTS
    Tables,    \* stab tables: functions from 0..n-1 to [n_type, n_value]
    MaxAddr    \* addresses that are looked up

None == -1

\* Stabs of a type are in the order of their addresses.  That none begins at the
\* address after another's is what the search needs: it looks for addr + 1 once it
\* has met addr, and then takes a stab that begins there.  A function begins in its
\* file, and no file at address 0.
ASSUME StabAssumption ==
    /\ MaxAddr \in Nat
    /\ \A t \in Tables :
          /\ IsFiniteSet(DOMAIN t) /\ DOMAIN t = 0..(Cardinality(DOMAIN t) - 1)
          /\ \A i \in DOMAIN t :
                t[i].n_value \in Nat /\ (t[i].n_type = "SO" => t[i].n_value > 0)
          /\ \A i, k \in DOMAIN t :
                /\ (i < k /\ t[i].n_type = t[k].n_type /\ t[i].n_type \in {"SO", "FUN"})
                       => t[i].n_value + 1 < t[k].n_value
                /\ (i < k /\ t[i].n_type = "SO" /\ t[k].n_type = "FUN")
                       => t[i].n_value <= t[k].n_value

VARIABLES
    stabs, eip,          \* the table, the address looked up
    addr,                \* addr of debuginfo_eip: relative to the function later
    phase,               \* "idle", "file", "fun", "line", "done" or "failed"
    l, r, any, key,      \* of stab_binsearch; key is its addr
    region,              \* [left, right] of the search
    asked,               \* the region that was given to the search
    file, fun,           \* regions found: lfile and rfile, lfun and rfun
    info                 \* [fn, line, file, narg]: stabs that were chosen

dbVars == <<stabs, eip, addr, phase, l, r, any, key, region, asked, file, fun,
            info>>

NoInfo == [fn |-> None, line |-> None, file |-> None, narg |-> 0]
NoRegion == [left |-> 0, right |-> None]

DbIdle ==
    /\ stabs \in Tables /\ stabs = CHOOSE t \in Tables : TRUE
    /\ eip = 0 /\ addr = 0 /\ phase = "idle"
    /\ l = 0 /\ r = 0 /\ any = FALSE /\ key = 0
    /\ region = NoRegion /\ asked = NoRegion
    /\ file = NoRegion /\ fun = NoRegion /\ info = NoInfo

Type == CASE phase = "file" -> "SO" [] phase = "fun" -> "FUN"
          [] phase = "line" -> "SLINE" [] OTHER -> "none"

LastOf(S) == CHOOSE n \in S : \A k \in S : k <= n

\* Where a loop that goes down from n as far as low stops: at the last stab in S,
\* or at low - 1.
Stop(n, low, S) == IF S \cap (low..n) = {} THEN low - 1 ELSE LastOf(S \cap (low..n))

OfType(type) == {n \in DOMAIN stabs : stabs[n].n_type = type}

Downto(n, low, type) == Stop(n, low, OfType(type))

-----------------------------------------------------------------------------
(* stab_binsearch                                                          *)

Search(ph, left, right, a) ==
    /\ phase' = ph
    /\ l' = left /\ r' = right /\ any' = FALSE /\ key' = a
    /\ region' = [left |-> left, right |-> right]
    /\ asked' = [left |-> left, right |-> right]

DbInit ==
    /\ stabs \in Tables
    /\ eip \in 0..MaxAddr
    /\ addr = eip
    /\ phase = "file"
    /\ l = 0 /\ r = Cardinality(DOMAIN stabs) - 1 /\ any = FALSE /\ key = eip
    /\ region = [left |-> 0, right |-> r] /\ asked = region
    /\ file = NoRegion /\ fun = NoRegion /\ info = NoInfo

\* A bug for the runs: after an exact match the search goes on to its right.
BinsearchSkips ==
    /\ Type # "none" /\ l <= r
    /\ LET true_m == (l + r) \div 2
           m == Downto(true_m, l, Type)
       IN  IF m < l
           THEN l' = true_m + 1 /\ UNCHANGED <<r, any, key, region>>
           ELSE /\ any' = TRUE
                /\ \/ /\ stabs[m].n_value < key
                      /\ region' = [region EXCEPT !.left = m]
                      /\ l' = true_m + 1
                      /\ UNCHANGED <<r, key>>
                   \/ /\ stabs[m].n_value > key
                      /\ region' = [region EXCEPT !.right = m - 1]
                      /\ r' = true_m - 1
                      /\ UNCHANGED <<l, key>>
                   \/ /\ stabs[m].n_value = key
                      /\ region' = [region EXCEPT !.right = m]
                      /\ l' = true_m + 1
                      /\ UNCHANGED <<r, key>>
    /\ UNCHANGED <<stabs, eip, addr, phase, asked, file, fun, info>>

\* One round of the loop.
Binsearch ==
    /\ Type # "none" /\ l <= r
    /\ LET true_m == (l + r) \div 2
           m == Downto(true_m, l, Type)
       IN  IF m < l
           THEN l' = true_m + 1 /\ UNCHANGED <<r, any, key, region>>
           ELSE /\ any' = TRUE
                /\ \/ /\ stabs[m].n_value < key
                      /\ region' = [region EXCEPT !.left = m]
                      /\ l' = true_m + 1
                      /\ UNCHANGED <<r, key>>
                   \/ /\ stabs[m].n_value > key
                      /\ region' = [region EXCEPT !.right = m - 1]
                      /\ r' = m - 1
                      /\ UNCHANGED <<l, key>>
                   \/ /\ stabs[m].n_value = key
                      /\ region' = [region EXCEPT !.left = m]
                      /\ l' = m
                      /\ key' = key + 1
                      /\ UNCHANGED r
    /\ UNCHANGED <<stabs, eip, addr, phase, asked, file, fun, info>>

\* What follows the loop: the rightmost stab of the type in the region.
Found ==
    IF ~any
    THEN [region EXCEPT !.right = region.left - 1]
    ELSE LET m == Downto(region.right, region.left, Type)
         IN  [region EXCEPT !.left = IF m < region.left THEN region.left ELSE m]

Ends(ph) == phase = ph /\ l > r

-----------------------------------------------------------------------------
(* debuginfo_eip                                                           *)

FileEnds ==
    /\ Ends("file")
    /\ file' = Found
    /\ IF Found.left = 0
       THEN phase' = "failed" /\ UNCHANGED <<l, r, any, key, region, asked>>
       ELSE Search("fun", Found.left, Found.right, addr)
    /\ UNCHANGED <<stabs, eip, addr, fun, info>>

\* Without a function (assembly) the line is looked for in the whole file.
FunEnds ==
    /\ Ends("fun")
    /\ fun' = Found
    /\ IF Found.left <= Found.right
       THEN LET a == addr - stabs[Found.left].n_value
            IN  /\ info' = [info EXCEPT !.fn = Found.left]
                /\ addr' = a
                /\ Search("line", Found.left, Found.right, a)
       ELSE /\ Search("line", file.left, file.right, addr)
            /\ UNCHANGED <<addr, info>>
    /\ UNCHANGED <<stabs, eip, file>>

\* The stab of the file name: backwards from the line.
FileOf(n) ==
    Stop(n, file.left, OfType("SOL") \cup {k \in OfType("SO") : stabs[k].n_value # 0})

\* The stabs of the parameters follow the one of the function.
Params ==
    LET k == {n \in (fun.left + 1)..(fun.right - 1) :
                \A i \in (fun.left + 1)..n : stabs[i].n_type = "PSYM"}
    IN  IF fun.left < fun.right THEN Cardinality(k) ELSE 0

LineEnds ==
    /\ Ends("line")
    /\ phase' = "done"
    /\ region' = Found
    /\ info' = [info EXCEPT
                  !.line = IF Found.left <= Found.right THEN Found.left ELSE @,
                  !.file = IF FileOf(Found.left) >= file.left
                           THEN FileOf(Found.left) ELSE @,
                  !.narg = Params]
    /\ UNCHANGED <<stabs, eip, addr, l, r, any, key, asked, file, fun>>

DbNext == Binsearch \/ FileEnds \/ FunEnds \/ LineEnds

-----------------------------------------------------------------------------
(* Properties                                                              *)

\* The stabs of a type in a region that begin at or before a.
Before(reg, type, a) == {n \in reg.left..reg.right :
                            stabs[n].n_type = type /\ stabs[n].n_value <= a}

\* stab_binsearch: "*region_left points to the matching stab that contains
\* 'addr', and *region_right points just before the next stab".
BinsearchBrackets ==
    (Type # "none" /\ l > r /\ Before(asked, Type, addr) # {}) =>
        /\ Found.left = LastOf(Before(asked, Type, addr))
        /\ Found.right = LastOf({n \in asked.left..asked.right :
              \A k \in (Found.left + 1)..n : stabs[k].n_type # Type})

\* The whole table.
Whole == [left |-> 0, right |-> Cardinality(DOMAIN stabs) - 1]

\* debuginfo_eip: an address in a function is given that function, which is in the
\* file that is named, and a line of it that starts at or before the address with no
\* other line in between.
FunctionIsFound ==
    Before(fun, "FUN", eip) # {} =>
        LET fn == LastOf(Before(Whole, "FUN", eip))
            lines == {n \in Before(Whole, "SLINE", eip - stabs[fn].n_value) :
                        n > fn /\ \A k \in (fn + 1)..n : stabs[k].n_type \notin
                                                       {"FUN", "SO"}}
        IN  /\ info.fn = fn
            /\ lines # {} => info.line = LastOf(lines)
            /\ info.file <= info.line \/ info.line = None
            /\ \A k \in (info.file + 1)..fn : stabs[k].n_type # "SO"

\* The three searches of debuginfo_eip find what they should (BinsearchBrackets), and
\* what it says of an address is right (FunctionIsFound).
DebugInfoRight ==
    /\ BinsearchBrackets
    /\ phase = "done" => FunctionIsFound
=============================================================================
