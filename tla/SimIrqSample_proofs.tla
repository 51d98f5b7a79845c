------------------------ MODULE SimIrqSample_proofs ------------------------
(***************************************************************************)
(* What holds of every sample with one simulated line, for any CPUs and    *)
(* any users of its debugfs files.  The first part shows that each of the  *)
(* programs is well formed.  The second uses no more of a program: what is *)
(* held is always a prefix of what its init function acquires, as long as  *)
(* Level says.                                                             *)
(***************************************************************************)
EXTENDS SimIrqSample, SequenceTheorems, TLAPS

-----------------------------------------------------------------------------
(***************************************************************************)
(* The programs are well formed.                                           *)
(***************************************************************************)

\* The labels from the i-th on.
LEMMA FallThroughFrom ==
  ASSUME NEW err \in Seq(Calls), NEW i \in 1 .. Len(err),
         \A j, k \in 1 .. Len(err) : err[j] = err[k] => j = k
  PROVE  /\ FallThrough(err, err[i]) \in Seq(Calls)
         /\ Len(FallThrough(err, err[i])) = Len(err) + 1 - i
         /\ \A k \in 1 .. Len(err) + 1 - i : FallThrough(err, err[i])[k] = err[i + k - 1]
<1>1. (CHOOSE j \in DOMAIN err : err[j] = err[i]) = i
  <2>1. PICK c : c = CHOOSE j \in DOMAIN err : err[j] = err[i]
    OBVIOUS
  <2>2. i \in DOMAIN err /\ DOMAIN err = 1 .. Len(err)
    OBVIOUS
  <2>3. c \in DOMAIN err /\ err[c] = err[i]
    BY <2>1, <2>2, Zenon
  <2> QED
    BY <2>1, <2>2, <2>3
<1>2. FallThrough(err, err[i]) = SubSeq(err, i, Len(err))
  <2>1. \E j \in DOMAIN err : err[j] = err[i]
    OBVIOUS
  <2> QED
    BY <1>1, <2>1, Zenon DEF FallThrough
<1>3. /\ i \in Int /\ Len(err) \in Int /\ i <= Len(err)
      /\ \A k \in i .. Len(err) : err[k] \in Calls
  OBVIOUS
<1>4. /\ SubSeq(err, i, Len(err)) \in Seq(Calls)
      /\ Len(SubSeq(err, i, Len(err))) = Len(err) - i + 1
      /\ \A k \in 1 .. Len(err) - i + 1 : SubSeq(err, i, Len(err))[k] = err[i + k - 1]
  BY <1>3, SubSeqProperties
<1>5. Len(err) - i + 1 = Len(err) + 1 - i
  BY <1>3
<1> QED
  BY <1>2, <1>4, <1>5

\* A ladder of labels that mirrors the init function's calls unwinds each failure.
LEMMA MirrorUnwinds ==
  ASSUME NEW p, NEW n \in Nat, n > 0,
         p.init \in Seq(Calls), Len(p.init) = n,
         \A i, j \in 1 .. n : p.init[i] = p.init[j] => i = j,
         \A i \in 1 .. n : p.init[i] = "raise" => i = n,
         p.err \in Seq(Calls), Len(p.err) = n - 1,
         \A k \in 1 .. n - 1 : p.err[k] = p.init[n - k],
         \A i \in 2 .. n : p.goto[i] = p.init[i - 1],
         \A k \in 1 .. n : p.init[k] # p.goto[1],
         NEW i \in 1 .. n
  PROVE  Undoes(Unwind(p, i), p, i - 1)
<1>1. CASE i = 1
  <2>1. ~ \E k \in DOMAIN p.err : p.err[k] = p.goto[1]
    OBVIOUS
  <2>2. Unwind(p, 1) = << >>
    BY <2>1 DEF Unwind, FallThrough
  <2> QED
    <3>1. << >> \in Seq(Calls) /\ Len(<< >>) = i - 1 /\ 1 .. i - 1 = {}
      BY <1>1, EmptySeq
    <3> QED
      BY <1>1, <2>2, <3>1 DEF Undoes
<1>2. CASE i # 1
  <2> DEFINE m == n + 1 - i
             u == Unwind(p, i)
  <2>1. m \in 1 .. Len(p.err) /\ p.err[m] = p.goto[i]
    BY <1>2
  <2>2. \A j, k \in 1 .. Len(p.err) : p.err[j] = p.err[k] => j = k
    <3> SUFFICES ASSUME NEW j \in 1 .. n - 1, NEW k \in 1 .. n - 1, p.err[j] = p.err[k]
                 PROVE  j = k
      OBVIOUS
    <3>1. p.init[n - j] = p.init[n - k] /\ n - j \in 1 .. n /\ n - k \in 1 .. n
      OBVIOUS
    <3>2. n - j = n - k
      BY <3>1
    <3> QED
      BY <3>2
  <2>3. /\ u \in Seq(Calls) /\ Len(u) = i - 1
        /\ \A k \in 1 .. i - 1 : u[k] = p.err[m + k - 1]
    <3>1. u = FallThrough(p.err, p.err[m])
      BY <2>1 DEF Unwind
    <3>2. Len(p.err) + 1 - m = i - 1
      OBVIOUS
    <3> HIDE DEF u, m
    <3>3. /\ FallThrough(p.err, p.err[m]) \in Seq(Calls)
          /\ Len(FallThrough(p.err, p.err[m])) = Len(p.err) + 1 - m
          /\ \A k \in 1 .. Len(p.err) + 1 - m :
               FallThrough(p.err, p.err[m])[k] = p.err[m + k - 1]
      BY <2>1, <2>2, FallThroughFrom, Zenon
    <3> QED
      BY <3>1, <3>2, <3>3
  <2>4. \A k \in 1 .. i - 1 : u[k] = p.init[i - k]
    <3> SUFFICES ASSUME NEW k \in 1 .. i - 1 PROVE u[k] = p.init[i - k]
      OBVIOUS
    <3>1. m + k - 1 \in 1 .. n - 1 /\ n - (m + k - 1) = i - k
      OBVIOUS
    <3> QED
      BY <2>3, <3>1
  <2> QED
    BY <2>3, <2>4 DEF Undoes
<1> QED
  BY <1>1, <1>2

\* A line and a raise.
LEMMA PlainWellFormed ==
  ASSUME NEW p, p.init = <<"sim", "map", "irq", "raise">>,
         p.goto = <<"return", "sim", "map", "irq">>,
         p.err = <<"irq", "map", "sim">>,
         p.exit = <<"irq", "map", "sim">>, p.bottom \in {"none", "thread"}
  PROVE  WellFormed(p)
<1>1. p.init \in Seq(Calls) /\ p.err \in Seq(Calls) /\ p.exit \in Seq(Calls)
  BY DEF Calls
<1>2. \A i \in 1 .. 4 : Undoes(Unwind(p, i), p, i - 1)
  <2>1. \A i, j \in 1 .. 4 : p.init[i] = p.init[j] => i = j
    OBVIOUS
  <2>2. \A i \in 1 .. 4 : p.init[i] = "raise" => i = 4
    OBVIOUS
  <2>3. \A k \in 1 .. 4 - 1 : p.err[k] = p.init[4 - k]
    OBVIOUS
  <2>4. \A i \in 2 .. 4 : p.goto[i] = p.init[i - 1]
    OBVIOUS
  <2>5. \A k \in 1 .. 4 : p.init[k] # p.goto[1]
    OBVIOUS
  <2>6. 4 \in Nat /\ 4 > 0 /\ Len(p.init) = 4 /\ Len(p.err) = 4 - 1
    OBVIOUS
  <2> QED
    BY <1>1, <2>1, <2>2, <2>3, <2>4, <2>5, <2>6, MirrorUnwinds, Zenon
<1>3. Undoes(p.exit, p, 3)
  <2>1. \A k \in 1 .. 3 : p.exit[k] = p.init[3 + 1 - k]
    OBVIOUS
  <2> QED
    BY <1>1, <2>1 DEF Undoes
<1>4. Precedes(p, "sim", "map") /\ Precedes(p, "map", "irq") /\ "irq" \in Resources(p)
  BY DEF Precedes, Resources
<1>5. Precedes(p, "irq", "raise") /\ Precedes(p, "irq", "dir")
  BY DEF Precedes
<1>6. p.bottom \in {"none", "thread"} \/ Precedes(p, p.bottom, "irq")
  BY DEF Precedes
<1> QED
  BY <1>1, <1>2, <1>3, <1>4, <1>5, <1>6 DEF WellFormed

\* A line, a raise, and a tasklet or a workqueue to defer to.
LEMMA DeferringWellFormed ==
  ASSUME NEW p, NEW m \in {"tasklet", "workqueue"}, NEW g \in {"never", "return"},
         p.init = <<m, "sim", "map", "irq", "raise">>,
         p.goto = <<g, m, "sim", "map", "irq">>,
         p.err = <<"irq", "map", "sim", m>>,
         p.exit = <<"irq", "map", "sim", m>>, p.bottom = m
  PROVE  WellFormed(p)
<1>1. p.init \in Seq(Calls) /\ p.err \in Seq(Calls) /\ p.exit \in Seq(Calls)
  BY DEF Calls
<1>2. \A i \in 1 .. 5 : Undoes(Unwind(p, i), p, i - 1)
  <2>1. \A i, j \in 1 .. 5 : p.init[i] = p.init[j] => i = j
    OBVIOUS
  <2>2. \A i \in 1 .. 5 : p.init[i] = "raise" => i = 5
    OBVIOUS
  <2>3. \A k \in 1 .. 5 - 1 : p.err[k] = p.init[5 - k]
    OBVIOUS
  <2>4. \A i \in 2 .. 5 : p.goto[i] = p.init[i - 1]
    OBVIOUS
  <2>5. \A k \in 1 .. 5 : p.init[k] # p.goto[1]
    OBVIOUS
  <2>6. 5 \in Nat /\ 5 > 0 /\ Len(p.init) = 5 /\ Len(p.err) = 5 - 1
    OBVIOUS
  <2> QED
    BY <1>1, <2>1, <2>2, <2>3, <2>4, <2>5, <2>6, MirrorUnwinds, Zenon
<1>3. Undoes(p.exit, p, 4)
  <2>1. \A k \in 1 .. 4 : p.exit[k] = p.init[4 + 1 - k]
    OBVIOUS
  <2> QED
    BY <1>1, <2>1 DEF Undoes
<1>4. Precedes(p, "sim", "map") /\ Precedes(p, "map", "irq") /\ "irq" \in Resources(p)
  BY DEF Precedes, Resources
<1>5. Precedes(p, "irq", "raise") /\ Precedes(p, "irq", "dir")
  BY DEF Precedes
<1>6. p.bottom \in {"none", "thread"} \/ Precedes(p, p.bottom, "irq")
  BY DEF Precedes
<1> QED
  BY <1>1, <1>2, <1>3, <1>4, <1>5, <1>6 DEF WellFormed

\* A line and the debugfs files.
LEMMA DangerWellFormed ==
  ASSUME NEW p, p.init = <<"sim", "map", "irq", "dir">>,
         p.goto = <<"return", "sim", "map", "irq">>,
         p.err = <<"irq", "map", "sim">>,
         p.exit = <<"dir", "irq", "map", "sim">>, p.bottom = "none"
  PROVE  WellFormed(p)
<1>1. p.init \in Seq(Calls) /\ p.err \in Seq(Calls) /\ p.exit \in Seq(Calls)
  BY DEF Calls
<1>2. \A i \in 1 .. 4 : Undoes(Unwind(p, i), p, i - 1)
  <2>1. \A i, j \in 1 .. 4 : p.init[i] = p.init[j] => i = j
    OBVIOUS
  <2>2. \A i \in 1 .. 4 : p.init[i] = "raise" => i = 4
    OBVIOUS
  <2>3. \A k \in 1 .. 4 - 1 : p.err[k] = p.init[4 - k]
    OBVIOUS
  <2>4. \A i \in 2 .. 4 : p.goto[i] = p.init[i - 1]
    OBVIOUS
  <2>5. \A k \in 1 .. 4 : p.init[k] # p.goto[1]
    OBVIOUS
  <2>6. 4 \in Nat /\ 4 > 0 /\ Len(p.init) = 4 /\ Len(p.err) = 4 - 1
    OBVIOUS
  <2> QED
    BY <1>1, <2>1, <2>2, <2>3, <2>4, <2>5, <2>6, MirrorUnwinds, Zenon
<1>3. Undoes(p.exit, p, 4)
  <2>1. \A k \in 1 .. 4 : p.exit[k] = p.init[4 + 1 - k]
    OBVIOUS
  <2> QED
    BY <1>1, <2>1 DEF Undoes
<1>4. Precedes(p, "sim", "map") /\ Precedes(p, "map", "irq") /\ "irq" \in Resources(p)
  BY DEF Precedes, Resources
<1>5. Precedes(p, "irq", "raise") /\ Precedes(p, "irq", "dir")
  BY DEF Precedes
<1>6. p.bottom \in {"none", "thread"} \/ Precedes(p, p.bottom, "irq")
  BY DEF Precedes
<1> QED
  BY <1>1, <1>2, <1>3, <1>4, <1>5, <1>6 DEF WellFormed

\* A line, the debugfs files, and a tasklet.
LEMMA DeferringDangerWellFormed ==
  ASSUME NEW p, NEW m \in {"tasklet", "workqueue"}, NEW g \in {"never", "return"},
         p.init = <<m, "sim", "map", "irq", "dir">>,
         p.goto = <<g, m, "sim", "map", "irq">>,
         p.err = <<"irq", "map", "sim", m>>,
         p.exit = <<"dir", "irq", "map", "sim", m>>, p.bottom = m
  PROVE  WellFormed(p)
<1>1. p.init \in Seq(Calls) /\ p.err \in Seq(Calls) /\ p.exit \in Seq(Calls)
  BY DEF Calls
<1>2. \A i \in 1 .. 5 : Undoes(Unwind(p, i), p, i - 1)
  <2>1. \A i, j \in 1 .. 5 : p.init[i] = p.init[j] => i = j
    OBVIOUS
  <2>2. \A i \in 1 .. 5 : p.init[i] = "raise" => i = 5
    OBVIOUS
  <2>3. \A k \in 1 .. 5 - 1 : p.err[k] = p.init[5 - k]
    OBVIOUS
  <2>4. \A i \in 2 .. 5 : p.goto[i] = p.init[i - 1]
    OBVIOUS
  <2>5. \A k \in 1 .. 5 : p.init[k] # p.goto[1]
    OBVIOUS
  <2>6. 5 \in Nat /\ 5 > 0 /\ Len(p.init) = 5 /\ Len(p.err) = 5 - 1
    OBVIOUS
  <2> QED
    BY <1>1, <2>1, <2>2, <2>3, <2>4, <2>5, <2>6, MirrorUnwinds, Zenon
<1>3. Undoes(p.exit, p, 5)
  <2>1. \A k \in 1 .. 5 : p.exit[k] = p.init[5 + 1 - k]
    OBVIOUS
  <2> QED
    BY <1>1, <2>1 DEF Undoes
<1>4. Precedes(p, "sim", "map") /\ Precedes(p, "map", "irq") /\ "irq" \in Resources(p)
  BY DEF Precedes, Resources
<1>5. Precedes(p, "irq", "raise") /\ Precedes(p, "irq", "dir")
  BY DEF Precedes
<1>6. p.bottom \in {"none", "thread"} \/ Precedes(p, p.bottom, "irq")
  BY DEF Precedes
<1> QED
  BY <1>1, <1>2, <1>3, <1>4, <1>5, <1>6 DEF WellFormed

(***************************************************************************)
(* Every sample of the repository releases what it acquired, in reverse,   *)
(* in its exit function and from every call of its init function that can  *)
(* fail.                                                                   *)
(***************************************************************************)
THEOREM RepositoryWellFormed == \A p \in AllPrograms : WellFormed(p)
<1>1. WellFormed(hardirq)
  BY PlainWellFormed DEF hardirq
<1>2. WellFormed(irq_none)
  BY PlainWellFormed DEF irq_none
<1>3. WellFormed(threaded_irq)
  BY PlainWellFormed DEF threaded_irq
<1>4. WellFormed(tasklet)
  BY DeferringWellFormed DEF tasklet
<1>5. WellFormed(bh_workqueue)
  BY DeferringWellFormed DEF bh_workqueue
<1>6. WellFormed(workqueue_sample)
  BY DeferringWellFormed DEF workqueue_sample
<1>7. WellFormed(sleep_in_hardirq_danger)
  BY DangerWellFormed DEF sleep_in_hardirq_danger
<1>8. WellFormed(sleep_in_softirq_danger)
  BY DeferringDangerWellFormed DEF sleep_in_softirq_danger
<1> QED
  BY <1>1, <1>2, <1>3, <1>4, <1>5, <1>6, <1>7, <1>8 DEF AllPrograms

-----------------------------------------------------------------------------
(***************************************************************************)
(* The invariant.                                                          *)
(***************************************************************************)

\* The first k resources that p acquires.
Prefix(p, k) == {p.init[i] : i \in 1 .. k} \ {"raise"}

\* How many calls of the init function are not undone.
Level ==
  CASE phase = "init" -> at - 1
    [] phase = "live" -> Len(prog.init)
    [] phase = "down" -> Len(path) + 1 - at
    [] OTHER          -> 0

\* Where the insmod/rmmod task is and what it holds.
LoaderInv ==
  /\ held = Prefix(prog, Level)
  /\ phase = "init" => path = prog.init
  /\ phase = "down" =>
       /\ Undoes(path, prog, Len(path))
       /\ Len(path) <= Len(prog.init)
       /\ Len(path) = Len(prog.init) => prog.init[Len(path)] # "raise"
  /\ begun => phase = "down"

IInv == TypeOK /\ LoaderInv /\ NoUseAfterRelease

-----------------------------------------------------------------------------
(***************************************************************************)
(* Prefixes of a well-formed program.                                      *)
(***************************************************************************)

LEMMA PrefixBounds ==
  ASSUME NEW p, WellFormed(p)
  PROVE  /\ Len(p.init) \in Nat \ {0}
         /\ Prefix(p, 0) = {}
         /\ Prefix(p, Len(p.init)) = Resources(p)
         /\ \A k \in 0 .. Len(p.init) : Prefix(p, k) \subseteq Resources(p)
<1>1. p.init \in Seq(Calls) /\ Len(p.init) \in Nat \ {0} /\ DOMAIN p.init = 1 .. Len(p.init)
  BY DEF WellFormed
<1>2. Prefix(p, 0) = {}
  BY DEF Prefix
<1> QED
  BY <1>1, <1>2 DEF Prefix, Resources

\* What is held has been built on what it needs.
LEMMA PrefixClosed ==
  ASSUME NEW p, WellFormed(p), NEW k \in 0 .. Len(p.init), NEW q \in Prefix(p, k),
         NEW r, r # "raise", Precedes(p, r, q)
  PROVE  r \in Prefix(p, k)
<1>1. PICK j \in 1 .. k : p.init[j] = q
  BY DEF Prefix
<1>2. j \in DOMAIN p.init
  BY PrefixBounds DEF WellFormed
<1>3. PICK i \in 1 .. j - 1 : p.init[i] = r
  BY <1>1, <1>2 DEF Precedes
<1> QED
  BY <1>3, PrefixBounds DEF Prefix

\* Nothing that is held needs to be released after the last resource held.
LEMMA PrefixTop ==
  ASSUME NEW p, WellFormed(p), NEW k \in 1 .. Len(p.init), NEW q,
         Precedes(p, p.init[k], q)
  PROVE  q \notin Prefix(p, k)
<1> SUFFICES ASSUME NEW j \in 1 .. k, p.init[j] = q PROVE FALSE
  BY DEF Prefix
<1>1. j \in DOMAIN p.init
  BY PrefixBounds DEF WellFormed
<1>2. PICK i \in 1 .. j - 1 : p.init[i] = p.init[k]
  BY <1>1 DEF Precedes
<1>3. i = k
  BY <1>2, PrefixBounds DEF WellFormed
<1> QED
  BY <1>2, <1>3, PrefixBounds

LEMMA PrefixStep ==
  ASSUME NEW p, WellFormed(p), NEW k \in 1 .. Len(p.init)
  PROVE  /\ Prefix(p, k) = Prefix(p, k - 1) \cup ({p.init[k]} \ {"raise"})
         /\ p.init[k] \notin Prefix(p, k - 1)
<1>1. \A i \in 1 .. k - 1 : p.init[i] # p.init[k]
  BY PrefixBounds DEF WellFormed
<1>2. 1 .. k = (1 .. k - 1) \cup {k}
  BY PrefixBounds
<1> QED
  BY <1>1, <1>2 DEF Prefix

LEMMA ProgWellFormed ==
  ASSUME TypeOK
  PROVE  WellFormed(prog)
BY RepositoryWellFormed, ProgramsAssumption DEF ProgramsAssumption, TypeOK

LEMMA LevelType ==
  ASSUME TypeOK, LoaderInv
  PROVE  Level \in 0 .. Len(prog.init) /\ (phase \in {"live", "down"} => Level > 0)
<1>1. Len(prog.init) \in Nat \ {0}
  BY ProgWellFormed, PrefixBounds
<1>2. phase = "down" => Len(path) \in Nat
  BY DEF LoaderInv, Undoes
<1> QED
  BY <1>1, <1>2 DEF Level, TypeOK, LoaderInv

\* The resource being released is the last one held.
LEMMA ReleasedIsTop ==
  ASSUME TypeOK, LoaderInv, phase = "down"
  PROVE  /\ Level \in 1 .. Len(prog.init)
         /\ path[at] = prog.init[Level]
         /\ path[at] # "raise"
         /\ path[at] \in held
<1>1. WellFormed(prog) /\ Len(prog.init) \in Nat \ {0}
  BY ProgWellFormed, PrefixBounds
<1>2. Len(path) \in Nat /\ at \in 1 .. Len(path) /\ Level = Len(path) + 1 - at
  BY DEF LoaderInv, Undoes, TypeOK, Level
<1>3. Level \in 1 .. Len(prog.init)
  BY <1>1, <1>2, LevelType
<1>4. path[at] = prog.init[Level]
  BY <1>2 DEF LoaderInv, Undoes
<1>5. path[at] # "raise"
  <2>1. CASE Level = Len(prog.init)
    BY <1>1, <1>2, <1>4, <2>1 DEF LoaderInv
  <2>2. CASE Level # Len(prog.init)
    BY <1>1, <1>3, <1>4, <2>2 DEF WellFormed
  <2> QED
    BY <2>1, <2>2
<1>6. path[at] \in held
  BY <1>1, <1>3, <1>4, <1>5, PrefixStep DEF LoaderInv
<1> QED
  BY <1>3, <1>4, <1>5, <1>6

\* What something else that is held is built on is in use.
LEMMA InUseBelow ==
  ASSUME TypeOK, LoaderInv, NEW q \in held, NEW r, r # "raise", Precedes(prog, r, q)
  PROVE  InUse(r)
<1>1. WellFormed(prog) /\ Level \in 0 .. Len(prog.init)
  BY ProgWellFormed, LevelType
<1>2. r \in held
  BY <1>1, PrefixClosed DEF LoaderInv
<1>3. phase = "down" => path[at] # r
  BY <1>1, ReleasedIsTop, PrefixTop DEF LoaderInv
<1> QED
  BY <1>2, <1>3 DEF InUse

-----------------------------------------------------------------------------
LEMMA InitIInv ==
  ASSUME Init
  PROVE  IInv
<1>1. prog \in Programs /\ path = prog.init /\ phase = "init" /\ at = 1 /\ held = {}
  BY DEF Init
<1>2. WellFormed(prog)
  BY <1>1, RepositoryWellFormed, ProgramsAssumption DEF ProgramsAssumption
<1>3. TypeOK
  <2>1. Line!LineTypeOK
    BY DEF Init, Line!LineInit, Line!LineTypeOK
  <2>2. at \in Nat /\ at \in 1 .. Len(path) /\ held \subseteq Resources(prog)
    BY <1>1, <1>2, PrefixBounds
  <2>3. begun \in BOOLEAN /\ queued \in BOOLEAN /\ running \in BOOLEAN /\ served \in BOOLEAN
    BY DEF Init
  <2> QED
    BY <1>1, <2>1, <2>2, <2>3 DEF Init, TypeOK
<1>4. Level = 0
  BY <1>1 DEF Level
<1>5. LoaderInv
  BY <1>1, <1>2, <1>4, PrefixBounds DEF Init, LoaderInv
<1>6. NoUseAfterRelease
  BY DEF Init, NoUseAfterRelease, Line!LineInit, Line!Quiet, Line!InProgress
<1> QED
  BY <1>3, <1>5, <1>6 DEF IInv

-----------------------------------------------------------------------------
(***************************************************************************)
(* Steps of the loader keep its invariant.                                 *)
(***************************************************************************)

\* The state of the line after a raise.
LEMMA RaiseType ==
  ASSUME Line!LineTypeOK, NEW c \in CPUs, Line!Raise(c)
  PROVE  Line!LineTypeOK'
BY DEF Line!Raise, Line!LineTypeOK

LEMMA InitCallKeeps ==
  ASSUME TypeOK, LoaderInv, InitCall
  PROVE  TypeOK' /\ LoaderInv'
<1>1. WellFormed(prog) /\ Len(prog.init) \in Nat \ {0}
  BY ProgWellFormed, PrefixBounds
<1>2. phase = "init" /\ path = prog.init /\ at \in 1 .. Len(prog.init) /\ Level = at - 1
  BY DEF InitCall, TypeOK, LoaderInv, Level
<1>3. UNCHANGED <<prog, path, begun, queued, running, served, triggering, knobbing>>
  BY DEF InitCall, bottomVars, userVars
<1>4. \/ at = Len(prog.init) /\ phase' = "live" /\ at' = at
      \/ at < Len(prog.init) /\ phase' = "init" /\ at' = at + 1
  BY <1>1, <1>2 DEF InitCall
<1>5. Level' = at
  BY <1>1, <1>2, <1>3, <1>4 DEF Level
<1>6. held' = held \cup ({path[at]} \ {"raise"})
  BY DEF InitCall
<1>7. held' = Prefix(prog, at)
  BY <1>1, <1>2, <1>6, PrefixStep DEF LoaderInv
<1>8. LoaderInv'
  BY <1>2, <1>3, <1>4, <1>5, <1>7 DEF LoaderInv
<1>9. Line!LineTypeOK'
  <2>1. CASE path[at] = "raise"
    BY <2>1, RaiseType DEF InitCall, TypeOK
  <2>2. CASE path[at] # "raise"
    BY <2>2 DEF InitCall, TypeOK, lineVars, Line!LineTypeOK
  <2> QED
    BY <2>1, <2>2
<1>10. held' \subseteq Resources(prog)
  BY <1>1, <1>2, <1>7, PrefixBounds
<1>11. at' \in Nat /\ (phase' \in {"init", "down"} => at' \in 1 .. Len(path'))
  BY <1>1, <1>2, <1>3, <1>4
<1>12. phase' \in {"init", "live", "down", "gone"}
  BY <1>4
<1>13. TypeOK'
  BY <1>3, <1>9, <1>10, <1>11, <1>12 DEF TypeOK
<1> QED
  BY <1>8, <1>13

\* The releases of seq, which undoes what is held, are begun.
LEMMA ReleaseKeeps ==
  ASSUME TypeOK, LoaderInv, NEW seq, Release(seq),
         Undoes(seq, prog, Len(seq)), Len(seq) <= Len(prog.init),
         Len(seq) = Len(prog.init) => prog.init[Len(seq)] # "raise",
         held = Prefix(prog, Len(seq)), ~begun,
         UNCHANGED <<prog, begun, held, lineVars, bottomVars, userVars>>
  PROVE  TypeOK' /\ LoaderInv'
<1>1. Len(seq) \in Nat /\ seq \in Seq(Calls)
  BY DEF Undoes
<1>2. path' = seq /\ at' = 1 /\ phase' = IF seq = << >> THEN "gone" ELSE "down"
  BY DEF Release
<1>3. seq = << >> <=> Len(seq) = 0
  BY <1>1
<1>4. Level' = Len(seq)
  BY <1>1, <1>2, <1>3 DEF Level
<1>5. LoaderInv'
  BY <1>2, <1>4 DEF LoaderInv
<1>6. at' \in Nat /\ (phase' \in {"init", "down"} => at' \in 1 .. Len(path'))
  BY <1>1, <1>2, <1>3
<1>7. Line!LineTypeOK'
  BY DEF TypeOK, lineVars, Line!LineTypeOK
<1>8. phase' \in {"init", "live", "down", "gone"}
  BY <1>2
<1>9. TypeOK'
  BY <1>6, <1>7, <1>8 DEF TypeOK, bottomVars, userVars
<1> QED
  BY <1>5, <1>9

LEMMA InitFailsKeeps ==
  ASSUME TypeOK, LoaderInv, InitFails
  PROVE  TypeOK' /\ LoaderInv'
<1>1. WellFormed(prog) /\ Len(prog.init) \in Nat \ {0}
  BY ProgWellFormed, PrefixBounds
<1>2. phase = "init" /\ path = prog.init /\ at \in 1 .. Len(prog.init) /\ Level = at - 1
  BY DEF InitFails, TypeOK, LoaderInv, Level
<1>3. Undoes(Unwind(prog, at), prog, at - 1)
  BY <1>1, <1>2 DEF InitFails, WellFormed
<1>4. Len(Unwind(prog, at)) = at - 1
  BY <1>3 DEF Undoes
<1>5. held = Prefix(prog, at - 1) /\ ~begun
  BY <1>2 DEF LoaderInv
<1>6. /\ Undoes(Unwind(prog, at), prog, Len(Unwind(prog, at)))
      /\ Len(Unwind(prog, at)) < Len(prog.init)
      /\ held = Prefix(prog, Len(Unwind(prog, at)))
  BY <1>1, <1>2, <1>3, <1>4, <1>5
<1> QED
  BY <1>1, <1>4, <1>5, <1>6, ReleaseKeeps DEF InitFails

LEMMA RmmodKeeps ==
  ASSUME TypeOK, LoaderInv, Rmmod
  PROVE  TypeOK' /\ LoaderInv'
<1> DEFINE n == Len(prog.init)
<1>1. WellFormed(prog) /\ n \in Nat \ {0}
  BY ProgWellFormed, PrefixBounds
<1>2. phase = "live" /\ Level = n /\ held = Prefix(prog, n) /\ ~begun
  BY DEF Rmmod, LoaderInv, Level
<1>3. /\ Undoes(prog.exit, prog, Len(prog.exit))
      /\ Len(prog.exit) = IF prog.init[n] = "raise" THEN n - 1 ELSE n
  BY <1>1 DEF WellFormed, Undoes
<1>4. n \in 1 .. n /\ n - 1 \in Nat
  BY <1>1
<1>5. held = Prefix(prog, Len(prog.exit))
  <2>1. CASE prog.init[n] = "raise"
    <3>1. Prefix(prog, n) = Prefix(prog, n - 1) \cup ({prog.init[n]} \ {"raise"})
      BY <1>1, <1>4, PrefixStep
    <3> QED
      BY <1>2, <1>3, <2>1, <3>1
  <2>2. CASE prog.init[n] # "raise"
    BY <1>2, <1>3, <2>2
  <2> QED
    BY <2>1, <2>2
<1>6. /\ Len(prog.exit) <= n
      /\ Len(prog.exit) = n => prog.init[Len(prog.exit)] # "raise"
  BY <1>1, <1>3
<1> QED
  BY <1>2, <1>3, <1>5, <1>6, ReleaseKeeps DEF Rmmod

LEMMA ReleaseBeginsKeeps ==
  ASSUME TypeOK, LoaderInv, ReleaseBegins
  PROVE  TypeOK' /\ LoaderInv'
<1>1. UNCHANGED <<prog, phase, path, at, held, pending, work, irq, queued, running, served,
                  triggering, knobbing>>
  BY DEF ReleaseBegins, lineVars, bottomVars, userVars
<1>2. begun' = TRUE /\ phase = "down"
  BY DEF ReleaseBegins
<1>3. Level' = Level
  BY <1>1 DEF Level
<1> QED
  BY <1>1, <1>2, <1>3 DEF TypeOK, LoaderInv, Line!LineTypeOK

LEMMA ReleaseReturnsKeeps ==
  ASSUME TypeOK, LoaderInv, ReleaseReturns
  PROVE  TypeOK' /\ LoaderInv'
<1>1. WellFormed(prog) /\ Len(prog.init) \in Nat \ {0}
  BY ProgWellFormed, PrefixBounds
<1>2. phase = "down"
  BY DEF ReleaseReturns
<1>3. /\ Level \in 1 .. Len(prog.init) /\ path[at] = prog.init[Level]
      /\ path[at] # "raise"
  BY <1>2, ReleasedIsTop
<1>4. Len(path) \in Nat /\ at \in 1 .. Len(path) /\ Level = Len(path) + 1 - at
  BY <1>2 DEF LoaderInv, Undoes, TypeOK, Level
<1>5. UNCHANGED <<prog, path, pending, work, irq, queued, running, served, triggering,
                  knobbing>>
  BY DEF ReleaseReturns, lineVars, bottomVars, userVars
<1>6. begun' = FALSE /\ held' = held \ {path[at]}
  BY DEF ReleaseReturns
<1>7. \/ at = Len(path) /\ phase' = "gone" /\ at' = at
      \/ at < Len(path) /\ phase' = "down" /\ at' = at + 1
  BY <1>2, <1>4 DEF ReleaseReturns
<1>8. Level' = Level - 1
  BY <1>4, <1>5, <1>7 DEF Level
<1>9. held' = Prefix(prog, Level - 1)
  BY <1>1, <1>3, <1>6, PrefixStep DEF LoaderInv
<1>10. LoaderInv'
  BY <1>2, <1>5, <1>6, <1>7, <1>8, <1>9 DEF LoaderInv
<1>11. at' \in Nat /\ (phase' \in {"init", "down"} => at' \in 1 .. Len(path'))
  BY <1>4, <1>5, <1>7
<1>12. phase' \in {"init", "live", "down", "gone"}
  BY <1>7
<1>13. TypeOK'
  BY <1>5, <1>6, <1>11, <1>12 DEF TypeOK, Line!LineTypeOK
<1> QED
  BY <1>10, <1>13

\* The other actors leave the loader alone.
LEMMA OthersKeep ==
  ASSUME TypeOK, LoaderInv, UNCHANGED loaderVars
  PROVE  LoaderInv'
<1>1. Level' = Level
  BY DEF loaderVars, Level
<1> QED
  BY <1>1 DEF loaderVars, LoaderInv

-----------------------------------------------------------------------------
(***************************************************************************)
(* What the order of acquisition says of the resources held.               *)
(***************************************************************************)

\* The bottom half that has a resource of its own is one of those acquired.
LEMMA BottomAcquired ==
  ASSUME TypeOK
  PROVE  /\ "irq" \in Resources(prog) /\ "none" \notin Resources(prog)
         /\ prog.bottom \in {"none", "thread", "tasklet", "workqueue"}
         /\ prog.bottom \in {"tasklet", "workqueue"} => prog.bottom \in Resources(prog)
<1>1. WellFormed(prog)
  BY ProgWellFormed
<1>2. /\ "irq" \in Resources(prog) /\ prog.init \in Seq(Calls)
      /\ prog.bottom \in {"none", "thread", "tasklet", "workqueue"}
      /\ prog.bottom \in {"none", "thread"} \/ Precedes(prog, prog.bottom, "irq")
  BY <1>1 DEF WellFormed
<1>3. "none" \notin Resources(prog)
  BY <1>2 DEF Resources, Calls
<1>4. ASSUME prog.bottom \in {"tasklet", "workqueue"} PROVE prog.bottom \in Resources(prog)
  <2>1. PICK j \in DOMAIN prog.init : prog.init[j] = "irq"
    BY <1>2 DEF Resources
  <2>2. PICK i \in 1 .. j - 1 : prog.init[i] = prog.bottom
    BY <1>2, <1>4, <2>1 DEF Precedes
  <2>3. i \in DOMAIN prog.init
    BY <1>2, <2>1
  <2> QED
    BY <1>4, <2>2, <2>3 DEF Resources
<1> QED
  BY <1>2, <1>3, <1>4

\* Who may raise the line may because the line is in use.
LEMMA LineInUse ==
  ASSUME TypeOK, LoaderInv, "dir" \in held
  PROVE  InUse("sim") /\ InUse("map") /\ InUse("irq")
<1>1. /\ Precedes(prog, "sim", "map") /\ Precedes(prog, "map", "irq")
      /\ Precedes(prog, "irq", "dir")
  BY ProgWellFormed DEF WellFormed
<1>2. InUse("irq")
  BY <1>1, InUseBelow
<1>3. InUse("map")
  BY <1>1, <1>2, InUseBelow DEF InUse
<1>4. InUse("sim")
  BY <1>1, <1>3, InUseBelow DEF InUse
<1> QED
  BY <1>2, <1>3, <1>4

\* So may the init function.
LEMMA LineAcquired ==
  ASSUME TypeOK, LoaderInv, phase = "init", path[at] = "raise"
  PROVE  InUse("sim") /\ InUse("map") /\ InUse("irq")
<1>1. /\ WellFormed(prog) /\ prog.init \in Seq(Calls)
      /\ Precedes(prog, "sim", "map") /\ Precedes(prog, "map", "irq")
      /\ Precedes(prog, "irq", "raise")
  BY ProgWellFormed DEF WellFormed
<1>2. at \in DOMAIN prog.init /\ prog.init[at] = "raise" /\ held = Prefix(prog, at - 1)
  BY <1>1 DEF TypeOK, LoaderInv, Level
<1>3. "irq" \in held
  BY <1>1, <1>2 DEF Precedes, Prefix
<1>4. at - 1 \in 0 .. Len(prog.init)
  BY <1>1, <1>2
<1>5. "map" \in held
  BY <1>1, <1>2, <1>3, <1>4, PrefixClosed
<1>6. "sim" \in held
  BY <1>1, <1>2, <1>4, <1>5, PrefixClosed
<1> QED
  BY <1>3, <1>5, <1>6 DEF InUse

\* The bottom half of a handler that is entered is there.
LEMMA BottomHeld ==
  ASSUME TypeOK, LoaderInv, "irq" \in held
  PROVE  {"irq", prog.bottom} \cap Resources(prog) \subseteq held
<1>1. WellFormed(prog) /\ Level \in 0 .. Len(prog.init) /\ held = Prefix(prog, Level)
  BY ProgWellFormed, LevelType DEF LoaderInv
<1>2. prog.bottom \in {"none", "thread"} \/ Precedes(prog, prog.bottom, "irq")
  BY <1>1 DEF WellFormed
<1>3. "none" \notin Resources(prog) /\ "thread" \notin Resources(prog)
  <2>1. prog.init \in Seq(Calls)
    BY <1>1 DEF WellFormed
  <2>2. \A i \in DOMAIN prog.init : prog.init[i] \in Calls
    BY <2>1
  <2>3. "none" \notin Calls /\ "thread" \notin Calls
    BY DEF Calls
  <2> QED
    BY <2>2, <2>3 DEF Resources
<1>4. CASE prog.bottom \in {"none", "thread"}
  BY <1>3, <1>4
<1>5. CASE prog.bottom \notin {"none", "thread"}
  <2>1. prog.bottom \in Resources(prog) => prog.bottom \in held
    BY <1>1, <1>2, <1>5, PrefixClosed DEF Resources
  <2> QED
    BY <2>1
<1> QED
  BY <1>4, <1>5

-----------------------------------------------------------------------------
(***************************************************************************)
(* No step takes away what is still used.                                  *)
(***************************************************************************)

\* The parts of NoUseAfterRelease.
LineBacked == ~Line!Quiet => "sim" \in held
HandlerBacked == Line!InProgress => {"irq", prog.bottom} \cap Resources(prog) \subseteq held
BottomBacked ==
  queued \/ running => (IF prog.bottom = "thread" THEN "irq" ELSE prog.bottom) \in held
UsersBacked == triggering \cup knobbing # {} => "dir" \in held

LEMMA NoUseParts ==
  NoUseAfterRelease <=> LineBacked /\ HandlerBacked /\ BottomBacked /\ UsersBacked
BY DEF NoUseAfterRelease, LineBacked, HandlerBacked, BottomBacked, UsersBacked

\* A raise by one who has the line.
LEMMA RaiseKeepsUse ==
  ASSUME IInv, "sim" \in held, NEW c \in CPUs, Line!Raise(c),
         UNCHANGED <<prog, held, queued, running, triggering, knobbing>>
  PROVE  NoUseAfterRelease'
<1>1. LineBacked'
  BY DEF LineBacked
<1>2. HandlerBacked'
  BY NoUseParts DEF IInv, HandlerBacked, Line!Raise, Line!InProgress
<1>3. BottomBacked' /\ UsersBacked'
  BY NoUseParts DEF IInv, BottomBacked, UsersBacked
<1> QED
  BY <1>1, <1>2, <1>3 DEF NoUseAfterRelease, LineBacked, HandlerBacked, BottomBacked,
     UsersBacked

LEMMA InitCallKeepsUse ==
  ASSUME IInv, InitCall
  PROVE  NoUseAfterRelease'
<1>1. phase = "init" /\ UNCHANGED <<prog, queued, running, triggering, knobbing>>
  BY DEF InitCall, bottomVars, userVars
<1>2. CASE path[at] = "raise"
  <2>1. "sim" \in held
    BY <1>1, <1>2, LineAcquired DEF IInv, InUse
  <2>2. PICK c \in CPUs : Line!Raise(c) /\ held' = held
    BY <1>2 DEF InitCall
  <2> QED
    BY <1>1, <2>1, <2>2, RaiseKeepsUse
<1>3. CASE path[at] # "raise"
  <2>1. held \subseteq held' /\ UNCHANGED <<pending, work, irq>>
    BY <1>3 DEF InitCall, lineVars
  <2>2. (Line!Quiet)' = Line!Quiet /\ (Line!InProgress)' = Line!InProgress
    BY <2>1 DEF Line!Quiet, Line!InProgress
  <2> QED
    BY <1>1, <2>1, <2>2 DEF IInv, NoUseAfterRelease
<1> QED
  BY <1>2, <1>3

\* A release that returns has waited for those who use the resource, and those
\* who would need it for something else are gone with that.
LEMMA ReleaseReturnsKeepsUse ==
  ASSUME IInv, ReleaseReturns
  PROVE  NoUseAfterRelease'
<1>1. phase = "down" /\ Unused(path[at]) /\ held' = held \ {path[at]}
  BY DEF ReleaseReturns
<1>2. UNCHANGED <<prog, pending, work, irq, queued, running, triggering, knobbing>>
  BY DEF ReleaseReturns, lineVars, bottomVars, userVars
<1>3. (Line!Quiet)' = Line!Quiet /\ (Line!InProgress)' = Line!InProgress
  BY <1>2 DEF Line!Quiet, Line!InProgress
<1>4. WellFormed(prog) /\ Level \in 1 .. Len(prog.init) /\ path[at] = prog.init[Level]
  BY <1>1, ProgWellFormed, ReleasedIsTop DEF IInv
<1>5. LineBacked'
  BY <1>1, <1>2, <1>3 DEF IInv, NoUseAfterRelease, LineBacked, Unused
<1>6. HandlerBacked'
  <2>1. SUFFICES ASSUME Line!InProgress
                 PROVE  {"irq", prog.bottom} \cap Resources(prog) \subseteq held'
    BY <1>2, <1>3 DEF HandlerBacked
  <2>2. {"irq", prog.bottom} \cap Resources(prog) \subseteq held /\ "irq" \in held
    BY <2>1, BottomAcquired DEF IInv, NoUseAfterRelease
  <2>3. path[at] # "irq"
    BY <1>1, <2>1 DEF Unused
  <2>4. prog.bottom \in Resources(prog) => path[at] # prog.bottom
    <3>1. prog.bottom \in Resources(prog) => prog.bottom \notin {"none", "thread"}
      BY <1>4 DEF WellFormed, Resources, Calls
    <3>2. prog.bottom \in Resources(prog) => Precedes(prog, prog.bottom, "irq")
      BY <1>4, <3>1 DEF WellFormed
    <3>3. held = Prefix(prog, Level)
      BY DEF IInv, LoaderInv
    <3> QED
      BY <1>4, <2>2, <3>2, <3>3, PrefixTop
  <2> QED
    BY <1>1, <2>2, <2>3, <2>4
<1>7. BottomBacked'
  <2>1. SUFFICES ASSUME queued \/ running
                 PROVE  (IF prog.bottom = "thread" THEN "irq" ELSE prog.bottom) \in held'
    BY <1>2 DEF BottomBacked
  <2>2. (IF prog.bottom = "thread" THEN "irq" ELSE prog.bottom) \in held
    BY <2>1 DEF IInv, NoUseAfterRelease
  <2>3. path[at] \notin {"tasklet", "workqueue"}
        /\ ~(path[at] = "irq" /\ prog.bottom = "thread")
    BY <1>1, <2>1 DEF Unused
  <2>4. prog.bottom \in {"none", "thread", "tasklet", "workqueue"}
        /\ "none" \notin Resources(prog) /\ held \subseteq Resources(prog)
    BY BottomAcquired DEF IInv, TypeOK
  <2> QED
    BY <1>1, <2>2, <2>3, <2>4
<1>8. UsersBacked'
  BY <1>1, <1>2 DEF IInv, NoUseAfterRelease, UsersBacked, Unused
<1> QED
  BY <1>5, <1>6, <1>7, <1>8 DEF NoUseAfterRelease, LineBacked, HandlerBacked, BottomBacked,
     UsersBacked

\* The rest of what the insmod/rmmod task does releases nothing.
LEMMA LoaderKeepsUse ==
  ASSUME IInv, UNCHANGED <<prog, held, lineVars, bottomVars, userVars>>
  PROVE  NoUseAfterRelease'
BY DEF IInv, NoUseAfterRelease, lineVars, bottomVars, userVars, Line!Quiet, Line!InProgress

-----------------------------------------------------------------------------
(***************************************************************************)
(* Steps of the users, the line and the bottom half.                       *)
(***************************************************************************)

\* Types of what the loader does not change, when only they may change.
LEMMA OthersType ==
  ASSUME TypeOK, UNCHANGED loaderVars, Line!LineTypeOK',
         queued' \in BOOLEAN /\ running' \in BOOLEAN /\ served' \in BOOLEAN,
         triggering' \subseteq Users /\ knobbing' \subseteq Users
  PROVE  TypeOK'
BY DEF TypeOK, loaderVars

LEMMA LineUnchanged ==
  ASSUME Line!LineTypeOK, UNCHANGED lineVars
  PROVE  /\ Line!LineTypeOK'
         /\ (Line!Quiet)' = Line!Quiet /\ (Line!InProgress)' = Line!InProgress
BY DEF lineVars, Line!LineTypeOK, Line!Quiet, Line!InProgress

LEMMA UserStepKeeps ==
  ASSUME IInv, NEW u \in Users, UserStep(u)
  PROVE  IInv'
<1>1. TypeOK /\ LoaderInv /\ NoUseAfterRelease /\ Line!LineTypeOK
  BY DEF IInv, TypeOK
<1>2. UNCHANGED loaderVars /\ LoaderInv'
  BY <1>1, OthersKeep DEF UserStep, OpenTrigger, CloseTrigger, EnterKnob, LeaveKnob,
     trigger_write
<1>3. ASSUME UNCHANGED <<lineVars, bottomVars>>,
             triggering' \subseteq Users /\ knobbing' \subseteq Users,
             triggering' \cup knobbing' # {} => "dir" \in held
      PROVE  IInv'
  <2>1. /\ Line!LineTypeOK'
        /\ (Line!Quiet)' = Line!Quiet /\ (Line!InProgress)' = Line!InProgress
    BY <1>1, <1>3, LineUnchanged
  <2>2. TypeOK'
    BY <1>1, <1>2, <1>3, <2>1, OthersType DEF TypeOK, bottomVars
  <2>3. NoUseAfterRelease'
    BY <1>1, <1>2, <1>3, <2>1 DEF NoUseAfterRelease, loaderVars, bottomVars
  <2> QED
    BY <1>2, <2>2, <2>3 DEF IInv
<1>4. CASE OpenTrigger(u)
  BY <1>1, <1>3, <1>4 DEF OpenTrigger, InUse, TypeOK
<1>5. CASE CloseTrigger(u)
  BY <1>1, <1>3, <1>5 DEF CloseTrigger, NoUseAfterRelease, TypeOK
<1>6. CASE EnterKnob(u)
  BY <1>1, <1>3, <1>6 DEF EnterKnob, InUse, TypeOK
<1>7. CASE LeaveKnob(u)
  BY <1>1, <1>3, <1>7 DEF LeaveKnob, NoUseAfterRelease, TypeOK
<1>8. CASE \E c \in CPUs : trigger_write(u, c)
  <2>1. PICK c \in CPUs : trigger_write(u, c)
    BY <1>8
  <2>2. Line!Raise(c) /\ u \in triggering /\ UNCHANGED <<bottomVars, userVars>>
    BY <2>1 DEF trigger_write
  <2>3. "sim" \in held
    BY <1>1, <2>2, LineInUse DEF NoUseAfterRelease, InUse
  <2>4. TypeOK'
    BY <1>1, <1>2, <2>2, RaiseType, OthersType DEF TypeOK, bottomVars, userVars
  <2>5. NoUseAfterRelease'
    BY <1>2, <2>2, <2>3, RaiseKeepsUse DEF loaderVars, bottomVars, userVars
  <2> QED
    BY <1>2, <2>4, <2>5 DEF IInv
<1> QED
  BY <1>4, <1>5, <1>6, <1>7, <1>8 DEF UserStep

LEMMA LineStepKeeps ==
  ASSUME IInv, NEW c \in CPUs, LineStep(c)
  PROVE  IInv'
<1>1. TypeOK /\ LoaderInv /\ NoUseAfterRelease /\ Line!LineTypeOK
  BY DEF IInv, TypeOK
<1>2. UNCHANGED <<loaderVars, userVars>> /\ LoaderInv'
  BY <1>1, OthersKeep DEF LineStep, Interrupt, EnterTopHalf, DropRaise, EndIrqWork, TopHalf
<1>3. Line!LineTypeOK'
  BY <1>1 DEF Line!LineTypeOK, LineStep, Interrupt, EnterTopHalf, DropRaise, EndIrqWork,
     TopHalf, Line!Interrupt, Line!Deliver, Line!Drop, Line!Drained, Line!Return
<1>4. queued' \in BOOLEAN /\ running' = running /\ served' \in BOOLEAN
  BY <1>1 DEF TypeOK, LineStep, Interrupt, EnterTopHalf, DropRaise, EndIrqWork, TopHalf,
     bottomVars
<1>5. TypeOK'
  BY <1>1, <1>2, <1>3, <1>4, OthersType DEF TypeOK, userVars
<1>6. "sim" \in held
  <2>1. ~Line!Quiet
    BY <1>1 DEF Line!Quiet, LineStep, Interrupt, EnterTopHalf, DropRaise, EndIrqWork,
       TopHalf, Line!Interrupt, Line!Deliver, Line!Drop, Line!Drained, Line!Return
  <2> QED
    BY <1>1, <2>1 DEF NoUseAfterRelease
<1>7. LineBacked' /\ UsersBacked'
  BY <1>1, <1>2, <1>6 DEF LineBacked, UsersBacked, NoUseAfterRelease, loaderVars, userVars
<1>8. HandlerBacked'
  <2>1. CASE EnterTopHalf(c)
    <3>1. "irq" \in held
      BY <2>1 DEF EnterTopHalf, InUse
    <3> QED
      BY <1>1, <1>2, <3>1, BottomHeld DEF HandlerBacked, loaderVars
  <2>2. CASE ~EnterTopHalf(c)
    <3>1. (Line!InProgress)' => Line!InProgress
      BY <1>1, <2>2 DEF Line!LineTypeOK, Line!InProgress, LineStep, Interrupt, DropRaise,
         EndIrqWork, TopHalf, Line!Interrupt, Line!Drop, Line!Drained, Line!Return
    <3> QED
      BY <1>1, <1>2, <3>1 DEF HandlerBacked, NoUseAfterRelease, loaderVars
  <2> QED
    BY <2>1, <2>2
<1>9. BottomBacked'
  <2>1. CASE TopHalf(c)
    <3>1. Line!InProgress
      BY <2>1 DEF TopHalf, Line!Return, Line!InProgress
    <3>2. {"irq", prog.bottom} \cap Resources(prog) \subseteq held
      BY <1>1, <3>1 DEF NoUseAfterRelease
    <3>3. CASE prog.bottom = "none"
      BY <1>1, <1>2, <1>4, <2>1, <3>3 DEF TopHalf, BottomBacked, NoUseAfterRelease, loaderVars
    <3>4. CASE prog.bottom # "none"
      <4>1. (IF prog.bottom = "thread" THEN "irq" ELSE prog.bottom) \in held
        BY <1>1, <3>2, <3>4, BottomAcquired
      <4> QED
        BY <1>2, <4>1 DEF BottomBacked, loaderVars
    <3> QED
      BY <3>3, <3>4
  <2>2. CASE ~TopHalf(c)
    <3>1. UNCHANGED <<queued, running>>
      BY <2>2 DEF LineStep, Interrupt, EnterTopHalf, DropRaise, EndIrqWork, bottomVars
    <3> QED
      BY <1>1, <1>2, <3>1 DEF BottomBacked, NoUseAfterRelease, loaderVars
  <2> QED
    BY <2>1, <2>2
<1>10. NoUseAfterRelease'
  BY <1>7, <1>8, <1>9 DEF NoUseAfterRelease, LineBacked, HandlerBacked, BottomBacked,
     UsersBacked
<1> QED
  BY <1>2, <1>5, <1>10 DEF IInv

LEMMA BottomStepKeeps ==
  ASSUME IInv, BottomStep
  PROVE  IInv'
<1>1. TypeOK /\ LoaderInv /\ NoUseAfterRelease /\ Line!LineTypeOK
  BY DEF IInv, TypeOK
<1>2. UNCHANGED <<loaderVars, lineVars, userVars>> /\ LoaderInv'
  BY <1>1, OthersKeep DEF BottomStep, BottomHalfBegins, BottomHalfEnds
<1>3. /\ Line!LineTypeOK'
      /\ (Line!Quiet)' = Line!Quiet /\ (Line!InProgress)' = Line!InProgress
  BY <1>1, <1>2, LineUnchanged
<1>4. queued' \in BOOLEAN /\ running' \in BOOLEAN /\ served' \in BOOLEAN
  BY <1>1 DEF TypeOK, BottomStep, BottomHalfBegins, BottomHalfEnds
<1>5. queued' \/ running' => queued \/ running
  BY DEF BottomStep, BottomHalfBegins, BottomHalfEnds
<1>6. TypeOK'
  BY <1>1, <1>2, <1>3, <1>4, OthersType DEF TypeOK, userVars
<1>7. NoUseAfterRelease'
  BY <1>1, <1>2, <1>3, <1>5 DEF NoUseAfterRelease, loaderVars, userVars
<1> QED
  BY <1>2, <1>6, <1>7 DEF IInv

LEMMA LoaderStepKeeps ==
  ASSUME IInv, LoaderStep \/ Rmmod
  PROVE  IInv'
<1>1. TypeOK /\ LoaderInv
  BY DEF IInv
<1>2. CASE InitCall
  BY <1>1, <1>2, InitCallKeeps, InitCallKeepsUse DEF IInv
<1>3. CASE InitFails
  <2>1. NoUseAfterRelease'
    BY <1>3, LoaderKeepsUse DEF InitFails
  <2> QED
    BY <1>1, <1>3, <2>1, InitFailsKeeps DEF IInv
<1>4. CASE Rmmod
  <2>1. NoUseAfterRelease'
    BY <1>4, LoaderKeepsUse DEF Rmmod
  <2> QED
    BY <1>1, <1>4, <2>1, RmmodKeeps DEF IInv
<1>5. CASE ReleaseBegins
  <2>1. NoUseAfterRelease'
    BY <1>5, LoaderKeepsUse DEF ReleaseBegins
  <2> QED
    BY <1>1, <1>5, <2>1, ReleaseBeginsKeeps DEF IInv
<1>6. CASE ReleaseReturns
  BY <1>1, <1>6, ReleaseReturnsKeeps, ReleaseReturnsKeepsUse DEF IInv
<1> QED
  BY <1>2, <1>3, <1>4, <1>5, <1>6 DEF LoaderStep

LEMMA NextIInv ==
  ASSUME IInv, [Next]_vars
  PROVE  IInv'
<1>1. CASE UNCHANGED vars
  <2>1. LoaderInv'
    BY <1>1, OthersKeep DEF IInv, vars
  <2>2. TypeOK'
    BY <1>1, OthersType, LineUnchanged DEF IInv, TypeOK, vars, bottomVars, userVars
  <2>3. NoUseAfterRelease'
    BY <1>1, LoaderKeepsUse DEF vars, loaderVars
  <2> QED
    BY <2>1, <2>2, <2>3 DEF IInv
<1>2. CASE Next
  BY <1>1, <1>2, LoaderStepKeeps, LineStepKeeps, BottomStepKeeps, UserStepKeeps
  DEF Next, Unloaded
<1> QED
  BY <1>1, <1>2

-----------------------------------------------------------------------------
(***************************************************************************)
(* What the invariant says.                                                *)
(***************************************************************************)

LEMMA SpecIInv == Spec => []IInv
<1>1. Init => IInv
  BY InitIInv
<1>2. IInv /\ [Next]_vars => IInv'
  BY NextIInv
<1> QED
  BY <1>1, <1>2, PTL DEF Spec

LEMMA PrefixBuilt ==
  ASSUME TypeOK, LoaderInv
  PROVE  BuiltOnHeld
<1>1. /\ WellFormed(prog) /\ prog.init \in Seq(Calls)
      /\ \A i \in 1 .. Len(prog.init) : prog.init[i] = "raise" => i = Len(prog.init)
      /\ \A i, j \in 1 .. Len(prog.init) : prog.init[i] = prog.init[j] => i = j
  BY ProgWellFormed DEF WellFormed
<1>2. Level \in 0 .. Len(prog.init) /\ held = Prefix(prog, Level)
  BY LevelType DEF LoaderInv
<1>3. SUFFICES ASSUME NEW j \in DOMAIN prog.init, prog.init[j] \in held,
                      NEW i \in 1 .. j - 1
               PROVE  prog.init[i] \in held
  BY DEF BuiltOnHeld
<1>4. PICK k \in 1 .. Level : prog.init[k] = prog.init[j]
  BY <1>2, <1>3 DEF Prefix
<1>5. k = j
  BY <1>1, <1>2, <1>3, <1>4
<1>6. i \in 1 .. Level /\ i \in 1 .. Len(prog.init) /\ i < Len(prog.init)
  BY <1>1, <1>2, <1>3, <1>4, <1>5
<1>7. prog.init[i] # "raise"
  BY <1>1, <1>6
<1> QED
  BY <1>2, <1>6, <1>7 DEF Prefix

LEMMA NothingHeldWhenGone ==
  ASSUME TypeOK, LoaderInv
  PROVE  NothingLeaks
BY ProgWellFormed, PrefixBounds DEF LoaderInv, Level, NothingLeaks

\* Only the last call of an init function and a write to "trigger" raise the line.
LEMMA RaisedInUse ==
  ASSUME IInv, Next, (pending' /\ ~pending) \/ (work = {} /\ work' # {})
  PROVE  {"sim", "map"} \subseteq held /\ InUse("irq")
<1>1. TypeOK /\ LoaderInv
  BY DEF IInv
<1>2. CASE LoaderStep \/ Rmmod
  <2>1. InitCall /\ phase = "init" /\ path[at] = "raise"
    BY <1>2 DEF LoaderStep, Rmmod, InitCall, InitFails, ReleaseBegins, ReleaseReturns, lineVars
  <2> QED
    BY <1>1, <2>1, LineAcquired DEF InUse
<1>3. CASE \E c \in CPUs : LineStep(c)
  BY <1>3 DEF LineStep, Interrupt, EnterTopHalf, DropRaise, EndIrqWork, TopHalf,
     Line!Interrupt, Line!Deliver, Line!Drop, Line!Drained, Line!Return
<1>4. CASE BottomStep
  BY <1>4 DEF BottomStep, BottomHalfBegins, BottomHalfEnds, lineVars
<1>5. CASE \E u \in Users : UserStep(u)
  <2>1. PICK u \in Users : UserStep(u)
    BY <1>5
  <2>2. u \in triggering
    BY <2>1 DEF UserStep, OpenTrigger, CloseTrigger, EnterKnob, LeaveKnob, trigger_write,
       lineVars
  <2>3. "dir" \in held
    BY <2>2 DEF IInv, NoUseAfterRelease
  <2> QED
    BY <1>1, <2>3, LineInUse DEF InUse
<1>6. CASE Unloaded
  BY <1>6 DEF Unloaded, vars, lineVars
<1> QED
  BY <1>2, <1>3, <1>4, <1>5, <1>6 DEF Next

-----------------------------------------------------------------------------
(***************************************************************************)
(* The variables keep their types: for any of the samples, any CPUs and    *)
(* any users, whatever the interleaving.                                   *)
(***************************************************************************)
THEOREM SampleTypes == Spec => []TypeOK
<1>1. IInv => TypeOK
  BY DEF IInv
<1> QED
  BY <1>1, SpecIInv, PTL

(***************************************************************************)
(* Resources are released in the reverse order of their acquisition, in    *)
(* every exit function and every way out of a failed init function         *)
(* (tasklet.c:85-93 and 96-105, and the same of the other samples).        *)
(***************************************************************************)
THEOREM AlwaysBuiltOnHeld == Spec => []BuiltOnHeld
<1>1. IInv => BuiltOnHeld
  BY PrefixBuilt DEF IInv
<1> QED
  BY <1>1, SpecIInv, PTL

(***************************************************************************)
(* No irq_work, handler, bottom half or debugfs user of a sample ever      *)
(* finds a resource it uses released, and none of them outlives rmmod.     *)
(***************************************************************************)
THEOREM NeverUsedAfterRelease == Spec => []NoUseAfterRelease
<1>1. IInv => NoUseAfterRelease
  BY DEF IInv
<1> QED
  BY <1>1, SpecIInv, PTL

(***************************************************************************)
(* A sample that is gone, unloaded or failed to load, holds nothing        *)
(* (tasklet.c:85-93, and the err_ labels of the other samples).            *)
(***************************************************************************)
THEOREM NeverLeaks == Spec => []NothingLeaks
<1>1. IInv => NothingLeaks
  BY NothingHeldWhenGone DEF IInv
<1> QED
  BY <1>1, SpecIInv, PTL

(***************************************************************************)
(* The line is raised only while it is requested and not being freed, by   *)
(* the init function (tasklet.c:76) and by every writer of "trigger"       *)
(* (sleep_in_softirq_danger.c:178).                                        *)
(***************************************************************************)
THEOREM RaisesOnlyLiveLine == Spec => RaiseOnLiveLine
<1>1. IInv /\ [Next]_vars =>
        [(pending' /\ ~pending) \/ (work = {} /\ work' # {})
           => {"sim", "map"} \subseteq held /\ InUse("irq")]_vars
  BY RaisedInUse
<1> QED
  BY <1>1, SpecIInv, PTL DEF Spec, RaiseOnLiveLine
=============================================================================
