------------------------- MODULE EvalProcess_proofs -------------------------
(***************************************************************************)
(* Proofs about the child processes of an evaluation and the threads that  *)
(* wait for them, for any number of pieces of work, workers, process       *)
(* identifiers and calls.                                                  *)
(***************************************************************************)
EXTENDS EvalProcess, FiniteSetTheorems, TLAPS

-----------------------------------------------------------------------------
(* The invariant.  Of one child and the thread that waits for it: what is  *)
(* in the pipe is what was noted, and who is given up is dead.             *)

USE EvalAssumption DEF EvalAssumption

CStates == [work : {"queued", "polling", "empty", "final", "over", "reaped",
                    "joining", "stuck", "returned"},
            proc : {"none", "young", "running", "handing", "handed", "dead"},
            pid : Pids \cup {0}, heirOf : SUBSET Children, from : Nat,
            asked : 0..MaxBatch, answered : 0..MaxBatch, noted : Nat,
            forked : BOOLEAN,
            pipe : {"empty", "result", "part"},
            item : [status : {"ok", "sentinel", "error"}, use : Nat],
            late : BOOLEAN, delivered : BOOLEAN, usage : Nat]

Lines == [by : Children \cup {0}, pid : Pids \cup {0}, heirOf : SUBSET Children]

Sound(x) ==
    /\ x.work = "queued" <=> x.proc = "none"
    /\ x.proc \in {"none", "young"} => x.noted = 0 /\ x.asked = 0 /\ x.answered = 0
    /\ x.proc \in {"none", "young", "running", "handing"} => x.pipe = "empty"
    /\ x.proc \in {"handing", "handed"} \/ x.pipe = "result" =>
          x.item.use = x.noted /\ x.asked = 0 /\ x.answered = 0
    /\ x.asked + x.answered <= MaxBatch
    /\ kind # "tracked" => x.noted = 0 /\ x.asked = 0 /\ x.answered = 0
    /\ x.delivered => x.pipe = "result" /\ x.work \in {"joining", "returned"}
    /\ x.work = "joining" => x.delivered
    /\ x.work \in {"final", "reaped", "returned"} => x.proc = "dead"
    /\ x.work \in {"over", "reaped", "returned"} /\ ~x.late /\ ~x.delivered =>
          x.proc = "dead" /\ x.pipe # "result"

ChildrenAreSound == \A c \in Children : Sound(child[c])

\* The lines that a child wrote, those signed with its identifier since it was
\* started, and those written by its heirs.
OwnLines(lines, c) == {k \in 1..Len(lines) : lines[k].by = c}
LinesOf(lines, x) == {k \in (x.from + 1)..Len(lines) : lines[k].pid = x.pid}
StraysIn(lines, c) == {k \in 1..Len(lines) : c \in lines[k].heirOf}

\* Every call a child has noted is a line of its own, signed with its identifier
\* since it was started.  Until it is answered for, who else signs so is an heir.
LogIsKept ==
    /\ logs => kind = "tracked"
    /\ ~logs => log = << >>
    /\ logs => \A c \in Children : Cardinality(OwnLines(log, c)) = child[c].noted
    /\ \A c \in Busy : child[c].pid \in Pids /\ child[c].from <= Len(log)
    /\ \A c, d \in Busy :
          c # d /\ child[c].pid = child[d].pid /\ Alive(child[d]) => c \in child[d].heirOf
    /\ \A c \in Busy : /\ OwnLines(log, c) \subseteq LinesOf(log, child[c])
                       /\ LinesOf(log, child[c]) \subseteq OwnLines(log, c) \cup StraysIn(log, c)

\* What was folded into the total are the calls reported by the pieces of work
\* whose answers were taken.
Reports == [c \in folded |-> child[c].usage]

TotalIsKept ==
    /\ \A c \in folded : child[c].work = "returned"
    /\ total = Cardinality(Units(Reports))

IInv == TypeOK /\ ChildrenAreSound /\ LogIsKept /\ UsageIsTheChildsOwn /\ TotalIsKept

-----------------------------------------------------------------------------
(* Steps.  All but Fold change one piece of work.  Quiet ones leave the log *)
(* alone and what was noted; a Fork only adds a line, whatever its piece of *)
(* work has come to.                                                       *)

AtWork(x) == x.work \notin {"queued", "returned"}

\* What a piece of work with the state x reports.
OwnUse(c, x) ==
    IF x.delivered \/ logs
    THEN /\ x.noted <= x.usage
         /\ x.usage <= x.noted + Cardinality(Strays(c))
         /\ x.delivered => x.usage = x.noted
    ELSE x.usage = 0

Same(x, y) == x.pid = y.pid /\ x.heirOf = y.heirOf /\ x.from = y.from /\ x.noted = y.noted

Keeps(c, x) ==
    /\ x \in CStates /\ Sound(x) /\ Becomes(c, x)
    /\ UNCHANGED <<config, total, folded>>

Quiet(c, x) ==
    /\ Keeps(c, x) /\ log' = log /\ AtWork(child[c]) /\ x.work # "queued"
    /\ Same(x, child[c]) /\ (Alive(x) => Alive(child[c]))
    /\ x.work = "returned" => OwnUse(c, x)

\* A line that a child c writes, or, with c = 0, a process that was forked.
LineOf(c, pid, heirOf) == [by |-> c, pid |-> pid, heirOf |-> heirOf]

Writes(c, x) ==
    /\ Keeps(c, x) /\ AtWork(child[c]) /\ AtWork(x) /\ Alive(child[c])
    /\ x.pid = child[c].pid /\ x.heirOf = child[c].heirOf /\ x.from = child[c].from
    /\ x.noted = child[c].noted + 1
    /\ log' = IF logs THEN Append(log, LineOf(c, x.pid, x.heirOf)) ELSE log

Forks(c, x) ==
    /\ Keeps(c, x) /\ logs /\ Same(x, child[c])
    /\ x.work = child[c].work /\ x.proc = child[c].proc
    /\ x.usage = child[c].usage /\ x.delivered = child[c].delivered
    /\ \E pid \in Pids \cup {0} : log' = Append(log, LineOf(0, pid, HeirOf(pid)))

Starts(c, x) ==
    /\ Keeps(c, x) /\ log' = log /\ AtWork(x) /\ child[c].work = "queued"
    /\ x.pid \in Pids \ Taken /\ x.heirOf = HeirOf(x.pid)
    /\ x.from = Len(log) /\ x.noted = 0

LEMMA TypeParts ==
    TypeOK <=> /\ kind \in Kinds /\ logs \in BOOLEAN /\ child \in [Children -> CStates]
               /\ log \in Seq(Lines) /\ total \in Nat /\ folded \subseteq Children
BY DEF TypeOK, CStates, Lines

LEMMA LinesAreFinite ==
    ASSUME NEW c, NEW x, x.from \in Nat, log \in Seq(Lines)
    PROVE  /\ IsFiniteSet(OwnLines(log, c)) /\ Cardinality(OwnLines(log, c)) \in Nat
           /\ IsFiniteSet(LinesOf(log, x)) /\ Cardinality(LinesOf(log, x)) \in Nat
           /\ IsFiniteSet(StraysIn(log, c)) /\ Cardinality(StraysIn(log, c)) \in Nat
<1> DEFINE n == Len(log)
<1>1. n \in Nat
  OBVIOUS
<1>2. LinesOf(log, x) = {k \in (x.from + 1)..n : log[k].pid = x.pid}
  BY DEF LinesOf
<1>3. OwnLines(log, c) \subseteq 1..n /\ StraysIn(log, c) \subseteq 1..n
  BY DEF OwnLines, StraysIn
<1> HIDE DEF n
<1>4. LinesOf(log, x) \subseteq 1..n
  BY <1>1, <1>2
<1>5. IsFiniteSet(1..n)
  <2>1. 1 \in Int /\ n \in Int
    BY <1>1
  <2>2. QED
    BY <2>1, FS_Interval
<1>6. QED
  BY <1>3, <1>4, <1>5, FS_Subset, FS_CardinalityType

\* What a child does by itself.
LEMMA ChildSteps ==
    ASSUME TypeOK, ChildrenAreSound, NEW c \in Children,
           \/ Detach(c) \/ Ask(c) \/ Answer(c) \/ CallFails(c)
           \/ Finish(c) \/ HandOver(c) \/ Exit(c) \/ Tear(c)
    PROVE  \E x : Quiet(c, x)
<1> DEFINE y == child[c]
<1>1. y \in CStates /\ Sound(y) /\ kind \in Kinds
  BY TypeParts DEF ChildrenAreSound
<1> HIDE DEF y
<1>2. ASSUME NEW x, x \in CStates, Sound(x), Becomes(c, x), UNCHANGED <<config, log, total, folded>>,
             Same(x, y), x.work = y.work, Alive(y)
      PROVE  Quiet(c, x)
  BY <1>1, <1>2 DEF Quiet, Keeps, AtWork, y, Sound, Alive
<1>3. CASE Detach(c)
  <2> DEFINE x == [y EXCEPT !.proc = "running"]
  <2>1. y.proc = "young" /\ Becomes(c, x) /\ UNCHANGED <<config, log, total, folded>>
    BY <1>3 DEF Detach, y
  <2>2. x \in CStates
    BY <1>1 DEF CStates
  <2>3. Sound(x) /\ Alive(y)
    BY <1>1, <2>1 DEF CStates, Sound, Alive
  <2>4. Same(x, y) /\ x.work = y.work
    BY <1>1 DEF CStates, Same
  <2> HIDE DEF x
  <2>5. QED
    BY <1>2, <2>1, <2>2, <2>3, <2>4
<1>4. CASE Ask(c)
  <2>1. PICK n \in 1..MaxBatch : Becomes(c, [y EXCEPT !.asked = n])
    BY <1>4 DEF Ask, y
  <2> DEFINE x == [y EXCEPT !.asked = n]
  <2>2. /\ kind = "tracked" /\ y.proc = "running" /\ y.asked + y.answered = 0
        /\ UNCHANGED <<config, log, total, folded>>
    BY <1>4 DEF Ask, y
  <2>3. x \in CStates
    BY <1>1 DEF CStates
  <2>4. Sound(x) /\ Alive(y)
    BY <1>1, <2>2 DEF CStates, Sound, Alive
  <2>5. Same(x, y) /\ x.work = y.work
    BY <1>1 DEF CStates, Same
  <2> HIDE DEF x
  <2>6. QED
    BY <1>2, <2>1, <2>2, <2>3, <2>4, <2>5 DEF x
<1>5. CASE Answer(c)
  <2> DEFINE x == [y EXCEPT !.asked = y.asked - 1, !.answered = y.answered + 1]
  <2>1. /\ y.proc = "running" /\ y.asked > 0 /\ Becomes(c, x)
        /\ UNCHANGED <<config, log, total, folded>>
    BY <1>5 DEF Answer, y
  <2>2. y.asked - 1 \in 0..MaxBatch /\ y.answered + 1 \in 0..MaxBatch
    BY <1>1, <2>1 DEF CStates, Sound
  <2>3. x \in CStates
    BY <1>1, <2>2 DEF CStates
  <2>4. Sound(x) /\ Alive(y)
    BY <1>1, <2>1 DEF CStates, Sound, Alive
  <2>5. Same(x, y) /\ x.work = y.work
    BY <1>1 DEF CStates, Same
  <2> HIDE DEF x
  <2>6. QED
    BY <1>2, <2>1, <2>3, <2>4, <2>5
<1>6. CASE CallFails(c)
  <2> DEFINE x == [y EXCEPT !.asked = 0]
  <2>1. y.proc = "running" /\ y.asked > 0 /\ Becomes(c, x) /\ UNCHANGED <<config, log, total, folded>>
    BY <1>6 DEF CallFails, y
  <2>2. x \in CStates
    BY <1>1 DEF CStates
  <2>3. Sound(x) /\ Alive(y)
    BY <1>1, <2>1 DEF CStates, Sound, Alive
  <2>4. Same(x, y) /\ x.work = y.work
    BY <1>1 DEF CStates, Same
  <2> HIDE DEF x
  <2>5. QED
    BY <1>2, <2>1, <2>2, <2>3, <2>4
<1>7. CASE Finish(c)
  <2>1. PICK i \in Items(y) : Becomes(c, [y EXCEPT !.proc = "handing", !.item = i])
    BY <1>7 DEF Finish, y
  <2> DEFINE x == [y EXCEPT !.proc = "handing", !.item = i]
  <2>2. /\ y.proc = "running" /\ y.asked + y.answered = 0
        /\ UNCHANGED <<config, log, total, folded>>
    BY <1>7 DEF Finish, y
  <2>3. i \in [status : {"ok", "sentinel", "error"}, use : Nat] /\ i.use = y.noted
    <3>1. y.noted \in Nat /\ (kind # "tracked" => y.noted = 0)
      BY <1>1 DEF CStates, Sound
    <3>2. CASE kind = "tracked"
      <4>1. i \in TrackedItems(y)
        BY <2>1, <3>2 DEF Items
      <4>2. QED
        BY <3>1, <4>1 DEF TrackedItems
    <3>3. CASE kind # "tracked"
      <4>1. kind \in {"program", "attempts"}
        BY <1>1, <3>3
      <4>2. i \in ProgramItems \cup AttemptsItems
        BY <2>1, <3>3, <4>1 DEF Items
      <4>3. QED
        BY <3>1, <3>3, <4>2 DEF ProgramItems, AttemptsItems
    <3>4. QED
      BY <3>2, <3>3
  <2>4. x \in CStates
    BY <1>1, <2>3 DEF CStates
  <2>5. y.asked = 0 /\ y.answered = 0
    BY <1>1, <2>2 DEF CStates
  <2>6. Sound(x) /\ Alive(y)
    BY <1>1, <2>2, <2>3, <2>5 DEF CStates, Sound, Alive
  <2>7. Same(x, y) /\ x.work = y.work
    BY <1>1 DEF CStates, Same
  <2> HIDE DEF x
  <2>8. QED
    BY <1>2, <2>1, <2>2, <2>4, <2>6, <2>7 DEF x
<1>8. CASE HandOver(c)
  <2> DEFINE x == [y EXCEPT !.proc = "handed", !.pipe = "result"]
  <2>1. y.proc = "handing" /\ Becomes(c, x) /\ UNCHANGED <<config, log, total, folded>>
    BY <1>8 DEF HandOver, y
  <2>2. x \in CStates
    BY <1>1 DEF CStates
  <2>3. Sound(x) /\ Alive(y)
    BY <1>1, <2>1 DEF CStates, Sound, Alive
  <2>4. Same(x, y) /\ x.work = y.work
    BY <1>1 DEF CStates, Same
  <2> HIDE DEF x
  <2>5. QED
    BY <1>2, <2>1, <2>2, <2>3, <2>4
<1>9. CASE Exit(c)
  <2> DEFINE x == [y EXCEPT !.proc = "dead"]
  <2>1. /\ y.proc \in {"young", "running", "handing", "handed"} /\ Becomes(c, x)
        /\ UNCHANGED <<config, log, total, folded>>
    BY <1>9 DEF Exit, Alive, y
  <2>2. x \in CStates
    BY <1>1 DEF CStates
  <2>3. Sound(x) /\ Alive(y)
    BY <1>1, <2>1 DEF CStates, Sound, Alive
  <2>4. Same(x, y) /\ x.work = y.work
    BY <1>1 DEF CStates, Same
  <2> HIDE DEF x
  <2>5. QED
    BY <1>2, <2>1, <2>2, <2>3, <2>4
<1>10. CASE Tear(c)
  <2> DEFINE x == [y EXCEPT !.proc = "dead", !.pipe = "part"]
  <2>1. y.proc = "handing" /\ Becomes(c, x) /\ UNCHANGED <<config, log, total, folded>>
    BY <1>10 DEF Tear, y
  <2>2. x \in CStates
    BY <1>1 DEF CStates
  <2>3. Sound(x) /\ Alive(y)
    BY <1>1, <2>1 DEF CStates, Sound, Alive
  <2>4. Same(x, y) /\ x.work = y.work
    BY <1>1 DEF CStates, Same
  <2> HIDE DEF x
  <2>5. QED
    BY <1>2, <2>1, <2>2, <2>3, <2>4
<1>11. QED
  BY <1>3, <1>4, <1>5, <1>6, <1>7, <1>8, <1>9, <1>10

\* What the parent's thread does once the piece of work has been started.
LEMMA ParentSteps ==
    ASSUME TypeOK, ChildrenAreSound, LogIsKept, NEW c \in Children,
           \/ Get(c) \/ GetsNothing(c) \/ LooksAtChild(c) \/ FinalGet(c)
           \/ Reap(c) \/ ReportFailure(c) \/ ReturnResult(c) \/ Expire(c)
    PROVE  \E x : Quiet(c, x)
<1> DEFINE y == child[c]
<1>1. y \in CStates /\ Sound(y) /\ kind \in Kinds
  BY TypeParts DEF ChildrenAreSound
<1>2. y.work \notin {"queued", "returned"} =>
          OwnLines(log, c) \subseteq LinesOf(log, y) /\ LinesOf(log, y) \subseteq OwnLines(log, c) \cup StraysIn(log, c)
  BY DEF LogIsKept, Busy
<1> HIDE DEF y
<1>3. ASSUME NEW x, x \in CStates, Sound(x), Becomes(c, x), UNCHANGED <<config, log, total, folded>>,
             Same(x, y), Alive(x) => Alive(y), x.work = "returned" => OwnUse(c, x),
             x.work # "queued", y.work \notin {"queued", "returned"}
      PROVE  Quiet(c, x)
  BY <1>3 DEF Quiet, Keeps, AtWork, y
<1>4. ASSUME NEW w \in {"polling", "empty", "final", "over", "stuck"}
      PROVE  LET x == [y EXCEPT !.work = w]
             IN  x \in CStates /\ Same(x, y) /\ x.work = w /\ (Alive(x) => Alive(y))
  BY <1>1 DEF CStates, Same, Alive
<1>5. ASSUME y.pipe # "empty", y.work \in {"polling", "final"}
      PROVE  LET x == Read(y)
             IN  /\ x \in CStates /\ Sound(x)
                 /\ Same(x, y) /\ x.work \notin {"queued", "returned"} /\ (Alive(x) => Alive(y))
  <2>1. CASE y.pipe = "result"
    <3> DEFINE x == [y EXCEPT !.work = "joining", !.delivered = TRUE]
    <3>1. Read(y) = x
      BY <2>1 DEF Read
    <3>2. x \in CStates
      BY <1>1 DEF CStates, Same
    <3>3. Sound(x)
      BY <1>1, <1>5, <2>1 DEF CStates, Sound
    <3>4. Same(x, y) /\ x.work \notin {"queued", "returned"} /\ (Alive(x) => Alive(y))
      BY <1>1 DEF CStates, Same, Alive
    <3> HIDE DEF x
    <3>5. QED
      BY <3>1, <3>2, <3>3, <3>4
  <2>2. CASE y.pipe # "result"
    <3> DEFINE x == [y EXCEPT !.work = "stuck"]
    <3>1. Read(y) = x
      BY <2>2 DEF Read
    <3>2. Sound(x)
      BY <1>1, <1>5, <2>2 DEF CStates, Sound
    <3>3. x \in CStates /\ Same(x, y) /\ x.work \notin {"queued", "returned"} /\ (Alive(x) => Alive(y))
      BY <1>4
    <3> HIDE DEF x
    <3>4. QED
      BY <3>1, <3>2, <3>3
  <2>3. QED
    BY <2>1, <2>2
<1>6. CASE Get(c)
  <2>1. /\ y.work = "polling" /\ y.pipe # "empty" /\ Becomes(c, Read(y))
        /\ UNCHANGED <<config, log, total, folded>>
    BY <1>6 DEF Get, y
  <2>2. QED
    BY <1>3, <1>5, <2>1
<1>7. CASE GetsNothing(c)
  <2> DEFINE x == [y EXCEPT !.work = "empty"]
  <2>1. y.work = "polling" /\ Becomes(c, x) /\ UNCHANGED <<config, log, total, folded>>
    BY <1>7 DEF GetsNothing, y
  <2>2. Sound(x)
    BY <1>1, <2>1 DEF CStates, Sound
  <2>3. x \in CStates /\ Same(x, y) /\ x.work \notin {"queued", "returned"} /\ (Alive(x) => Alive(y))
    BY <1>4
  <2> HIDE DEF x
  <2>4. QED
    BY <1>3, <2>1, <2>2, <2>3
<1>8. CASE LooksAtChild(c)
  <2> DEFINE w == IF Alive(y) THEN "polling" ELSE "final"
             x == [y EXCEPT !.work = w]
  <2>1. y.work = "empty" /\ Becomes(c, x) /\ UNCHANGED <<config, log, total, folded>>
    BY <1>8 DEF LooksAtChild, y
  <2>2. w \in {"polling", "final"} /\ (w = "final" => y.proc \in {"none", "dead"})
    BY <1>1 DEF CStates, Alive
  <2> HIDE DEF w
  <2>3. Sound(x)
    BY <1>1, <2>1, <2>2 DEF CStates, Sound
  <2>4. x \in CStates /\ Same(x, y) /\ x.work \notin {"queued", "returned"} /\ (Alive(x) => Alive(y))
    BY <1>4, <2>2
  <2> HIDE DEF x
  <2>5. QED
    BY <1>3, <2>1, <2>3, <2>4
<1>9. CASE FinalGet(c)
  <2>1. y.work = "final" /\ UNCHANGED <<config, log, total, folded>>
    BY <1>9 DEF FinalGet, y
  <2>2. CASE y.pipe = "empty"
    <3> DEFINE x == [y EXCEPT !.work = "over"]
    <3>1. Becomes(c, x)
      BY <1>9, <2>2 DEF FinalGet, y
    <3>2. Sound(x)
      BY <1>1, <2>1, <2>2 DEF CStates, Sound
    <3>3. x \in CStates /\ Same(x, y) /\ x.work \notin {"queued", "returned"} /\ (Alive(x) => Alive(y))
      BY <1>4
    <3> HIDE DEF x
    <3>4. QED
      BY <1>3, <2>1, <3>1, <3>2, <3>3
  <2>3. CASE y.pipe # "empty"
    <3>1. Becomes(c, Read(y))
      BY <1>9, <2>3 DEF FinalGet, y
    <3>2. QED
      BY <1>3, <1>5, <2>1, <2>3, <3>1
  <2>4. QED
    BY <2>2, <2>3
<1>10. CASE Expire(c)
  <2> DEFINE x == [y EXCEPT !.work = "over", !.late = TRUE]
  <2>1. y.work \in {"polling", "empty"} /\ Becomes(c, x) /\ UNCHANGED <<config, log, total, folded>>
    BY <1>10 DEF Expire, y
  <2>2. x \in CStates
    BY <1>1 DEF CStates, Same
  <2>3. Sound(x)
    BY <1>1, <2>1 DEF CStates, Sound
  <2>4. Same(x, y) /\ x.work \notin {"queued", "returned"} /\ (Alive(x) => Alive(y))
    BY <1>1 DEF CStates, Same, Alive
  <2> HIDE DEF x
  <2>5. QED
    BY <1>3, <2>1, <2>2, <2>3, <2>4
\* A live child is killed, a dead one is left as it is.
<1> DEFINE z == IF Alive(y) THEN Killed(y) ELSE y
<1>11. /\ z \in CStates /\ z.proc \in {"none", "dead"} /\ (z.proc = "none" => y.proc = "none")
       /\ Same(z, y) /\ z.work = y.work
       /\ z.pipe = y.pipe /\ z.delivered = y.delivered /\ z.late = y.late /\ z.item = y.item
       /\ z.asked = y.asked /\ z.answered = y.answered
       /\ y.proc \in {"none", "dead"} => z = y
  <2>1. CASE Alive(y)
    <3>1. z = [y EXCEPT !.proc = "dead"] /\ y.proc \notin {"none", "dead"}
      BY <2>1 DEF Alive, Killed
    <3>2. QED
      BY <1>1, <3>1 DEF CStates, Same
  <2>2. CASE ~Alive(y)
    <3>1. z = y /\ y.proc \in {"none", "dead"}
      BY <1>1, <2>2 DEF CStates, Alive
    <3>2. QED
      BY <1>1, <3>1 DEF Same
  <2>3. QED
    BY <2>1, <2>2
<1> HIDE DEF z
<1>12. CASE Reap(c)
  <2> DEFINE x == [z EXCEPT !.work = "reaped"]
  <2>1. y.work = "over" /\ Becomes(c, x) /\ UNCHANGED <<config, log, total, folded>>
    BY <1>12 DEF Reap, y, z
  <2>2. /\ x \in CStates /\ Same(x, y)
        /\ x.work = "reaped" /\ x.proc = z.proc /\ x.pipe = z.pipe /\ x.delivered = z.delivered
        /\ x.late = z.late /\ x.item = z.item /\ x.asked = z.asked /\ x.answered = z.answered
    BY <1>11 DEF CStates, Same
  <2> HIDE DEF x
  <2>3. z.proc = "dead"
    BY <1>1, <1>11, <2>1 DEF Sound
  <2>4. Sound(x) /\ ~Alive(x)
    BY <1>1, <1>11, <2>1, <2>2, <2>3 DEF CStates, Sound, Same, Alive
  <2>5. QED
    BY <1>3, <2>1, <2>2, <2>4
<1>13. CASE ReturnResult(c)
  <2> DEFINE x == [z EXCEPT !.work = "returned", !.usage = y.item.use]
  <2>1. y.work = "joining" /\ Becomes(c, x) /\ UNCHANGED <<config, log, total, folded>>
    BY <1>13 DEF ReturnResult, y, z
  <2>2. y.item.use = y.noted /\ y.item.use \in Nat /\ y.delivered
    BY <1>1, <2>1 DEF CStates, Sound
  <2>3. /\ x \in CStates /\ Same(x, y)
        /\ x.work = "returned" /\ x.proc = z.proc /\ x.pipe = z.pipe /\ x.delivered = z.delivered
        /\ x.late = z.late /\ x.item = z.item /\ x.asked = z.asked /\ x.answered = z.answered
        /\ x.usage = y.noted
    BY <1>11, <2>2 DEF CStates, Same
  <2> HIDE DEF x
  <2>4. z.proc = "dead"
    BY <1>1, <1>11, <2>1 DEF Sound
  <2>5. Sound(x) /\ ~Alive(x)
    BY <1>1, <1>11, <2>1, <2>3, <2>4 DEF CStates, Sound, Same, Alive
  <2>6. OwnUse(c, x)
    <3>1. x.usage = x.noted /\ x.noted \in Nat /\ x.delivered
      BY <1>11, <2>2, <2>3 DEF Same, CStates
    <3>2. Cardinality(Strays(c)) \in Nat
      <4>1. Strays(c) = StraysIn(log, c)
        BY DEF Strays, StraysIn
      <4>2. y.from \in Nat /\ log \in Seq(Lines)
        BY <1>1, TypeParts DEF CStates
      <4>3. QED
        BY <4>1, <4>2, LinesAreFinite
    <3>3. QED
      BY <3>1, <3>2 DEF OwnUse
  <2>7. QED
    BY <1>3, <2>1, <2>3, <2>5, <2>6
<1>14. CASE ReportFailure(c)
  <2> DEFINE u == IF kind = "tracked" THEN UsageFromLogSince(y) ELSE 0
             x == [y EXCEPT !.work = "returned", !.usage = u]
             own == OwnLines(log, c)
             strays == StraysIn(log, c)
  <2>1. y.work = "reaped" /\ Becomes(c, x) /\ UNCHANGED <<config, log, total, folded>>
    BY <1>14 DEF ReportFailure, y
  <2>2. /\ IsFiniteSet(own) /\ IsFiniteSet(strays) /\ IsFiniteSet(LinesOf(log, y))
        /\ Cardinality(own) \in Nat /\ Cardinality(strays) \in Nat
        /\ Cardinality(LinesOf(log, y)) \in Nat
    <3>1. y.from \in Nat /\ log \in Seq(Lines)
      BY <1>1, TypeParts DEF CStates
    <3>2. QED
      BY <3>1, LinesAreFinite
  <2>3. UsageFromLogSince(y) = Cardinality(LinesOf(log, y)) /\ strays = Strays(c)
    BY DEF UsageFromLogSince, LinesOf, Strays, StraysIn
  <2>4. u \in Nat
    BY <2>2, <2>3
  <2>5. ASSUME logs PROVE y.noted <= u /\ u <= y.noted + Cardinality(Strays(c))
    <3>1. kind = "tracked" /\ Cardinality(own) = y.noted
      BY <2>5 DEF LogIsKept, y
    <3>2. own \subseteq LinesOf(log, y) /\ LinesOf(log, y) \subseteq own \cup strays
      BY <1>2, <2>1
    <3> HIDE DEF own, strays
    <3>3. Cardinality(own) <= Cardinality(LinesOf(log, y))
      BY <2>2, <3>2, FS_Subset
    <3>4. IsFiniteSet(own \cup strays) /\ Cardinality(own \cup strays) <= Cardinality(own) + Cardinality(strays)
      <4>1. /\ IsFiniteSet(own \cup strays)
            /\ Cardinality(own \cup strays)
                  = Cardinality(own) + Cardinality(strays) - Cardinality(own \cap strays)
        BY <2>2, FS_Union
      <4>2. Cardinality(own \cap strays) \in Nat
        BY <2>2, FS_Intersection, FS_CardinalityType
      <4>3. QED
        BY <2>2, <4>1, <4>2
    <3>5. Cardinality(LinesOf(log, y)) <= Cardinality(own \cup strays) /\ Cardinality(own \cup strays) \in Nat
      BY <3>2, <3>4, FS_Subset, FS_CardinalityType
    <3>6. y.noted <= u /\ u <= y.noted + Cardinality(Strays(c))
      BY <2>2, <2>3, <3>1, <3>3, <3>4, <3>5
    <3>7. QED
      BY <3>6
  <2>6. ASSUME ~logs PROVE u = 0
    <3>1. log = << >>
      BY <2>6 DEF LogIsKept
    <3>2. y.from \in Nat
      BY <1>1 DEF CStates
    <3>3. LinesOf(log, y) = {}
      BY <3>1, <3>2 DEF LinesOf
    <3>4. u = 0
      BY <2>3, <3>3, FS_EmptySet
    <3>5. QED
      BY <3>4
  <2>7. (logs => y.noted <= u /\ u <= y.noted + Cardinality(Strays(c))) /\ (~logs => u = 0)
    <3>1. logs => y.noted <= u /\ u <= y.noted + Cardinality(Strays(c))
      BY <2>5
    <3>2. ~logs => u = 0
      BY <2>6
    <3>3. QED
      BY <3>1, <3>2
  <2> HIDE DEF u
  <2>8. x \in CStates /\ x.usage = u /\ x.work = "returned" /\ Same(x, y) /\ x.proc = y.proc
        /\ x.delivered = y.delivered /\ x.noted = y.noted
    BY <1>1, <2>4 DEF CStates, Same
  <2>9. Sound(x)
    BY <1>1, <2>1 DEF CStates, Sound
  <2> HIDE DEF x
  <2>10. y.proc = "dead" /\ ~y.delivered
    BY <1>1, <2>1 DEF Sound
  <2>11. OwnUse(c, x)
    BY <2>7, <2>8, <2>10 DEF OwnUse
  <2>12. QED
    BY <1>3, <2>1, <2>8, <2>9, <2>10, <2>11 DEF Alive
<1>15. QED
  BY <1>6, <1>7, <1>8, <1>9, <1>10, <1>12, <1>13, <1>14

\* The child writes a line of the log for a call it notes.
LEMMA WritingSteps ==
    ASSUME TypeOK, ChildrenAreSound, NEW c \in Children, RecordAndLog(c)
    PROVE  \E x : Writes(c, x)
<1> DEFINE y == child[c]
           x == [y EXCEPT !.answered = y.answered - 1, !.noted = y.noted + 1]
<1>1. y \in CStates /\ Sound(y) /\ kind \in Kinds
  BY TypeParts DEF ChildrenAreSound
<1>2. /\ y.proc = "running" /\ y.asked = 0 /\ y.answered > 0 /\ Becomes(c, x)
      /\ UNCHANGED <<config, total, folded>>
      /\ log' = IF logs THEN Append(log, LineOf(c, y.pid, y.heirOf)) ELSE log
  BY DEF RecordAndLog, Logs, LineOf
<1> HIDE DEF y
<1>3. y.answered - 1 \in 0..MaxBatch /\ y.noted + 1 \in Nat
  BY <1>1, <1>2 DEF CStates
<1>4. x \in CStates
  BY <1>1, <1>3 DEF CStates
<1>5. Sound(x) /\ y.work \notin {"queued", "returned"}
  BY <1>1, <1>2 DEF CStates, Sound
<1>6. x.pid = y.pid /\ x.heirOf = y.heirOf /\ x.from = y.from /\ x.noted = y.noted + 1 /\ x.work = y.work
  BY <1>1 DEF CStates
<1> HIDE DEF x
<1>7. Writes(c, x)
  BY <1>2, <1>4, <1>5, <1>6 DEF Writes, Keeps, AtWork, y, Alive
<1>8. QED
  BY <1>7

\* A process that the child has forked writes one, with any identifier it may get.
LEMMA ForkingSteps ==
    ASSUME TypeOK, ChildrenAreSound, NEW c \in Children, ForkCalls(c)
    PROVE  \E x : Forks(c, x)
<1> DEFINE y == child[c]
           x == [y EXCEPT !.forked = TRUE]
<1>1. y \in CStates /\ Sound(y)
  BY TypeParts DEF ChildrenAreSound
<1>2. PICK pid \in Left \ Taken : Logs(0, pid, HeirOf(pid))
  BY DEF ForkCalls
<1>3. logs /\ Becomes(c, x) /\ UNCHANGED <<config, total, folded>>
  BY DEF ForkCalls
<1>4. pid \in Pids \cup {0}
  BY TypeParts DEF Left, Busy, CStates
<1>5. log' = Append(log, LineOf(0, pid, HeirOf(pid)))
  BY <1>2, <1>3 DEF Logs, LineOf
<1> HIDE DEF y
<1>6. x \in CStates
  BY <1>1 DEF CStates
<1>7. /\ Same(x, y) /\ x.work = y.work /\ x.proc = y.proc
      /\ x.usage = y.usage /\ x.delivered = y.delivered
      /\ x.asked = y.asked /\ x.answered = y.answered /\ x.pipe = y.pipe
      /\ x.item = y.item /\ x.late = y.late
  BY <1>1 DEF CStates, Same
<1> HIDE DEF x
<1>8. Sound(x)
  BY <1>1, <1>7 DEF Sound, Same
<1>9. Forks(c, x)
  BY <1>3, <1>4, <1>5, <1>6, <1>7, <1>8 DEF Forks, Keeps, y
<1>10. QED
  BY <1>9

-----------------------------------------------------------------------------
(* A process identifier is free whenever the pool may start a child. *)

LEMMA SmallestSet ==
    ASSUME NEW S, NEW F \in SUBSET FiniteSubsetsOf(S), F # {}
    PROVE  \E T \in F : \A U \in F : U \subseteq T => U = T
<1>1. \E T \in F : \A U \in F : ~ (<<U, T>> \in StrictSubsetOrdering(S))
  BY FS_StrictSubsetOrderingWellFounded, WFMin
<1>2. QED
  BY <1>1 DEF StrictSubsetOrdering, FiniteSubsetsOf

\* Min of a set of natural numbers is one of them.
LEMMA LeastNat ==
    ASSUME NEW S \in SUBSET Nat, S # {}
    PROVE  Min(S) \in S
<1> DEFINE F == {0..n : n \in S}
<1>1. ASSUME NEW n \in S PROVE 0..n \in FiniteSubsetsOf(Nat)
  <2>1. IsFiniteSet(0..n) /\ 0..n \in SUBSET Nat
    BY FS_Interval
  <2>2. QED
    BY <2>1 DEF FiniteSubsetsOf
<1>2. F \in SUBSET FiniteSubsetsOf(Nat) /\ F # {}
  BY <1>1
<1>3. \E T \in F : \A U \in F : U \subseteq T => U = T
  <2> HIDE DEF F
  <2> QED
    BY <1>2, SmallestSet
<1>4. PICK m \in S : \A U \in F : U \subseteq 0..m => U = 0..m
  BY <1>3
<1>5. ASSUME NEW n \in S, n < m PROVE FALSE
  <2>1. 0..n \subseteq 0..m /\ m \in 0..m /\ m \notin 0..n
    BY <1>5
  <2>2. QED
    BY <1>4, <2>1
<1>6. \E x \in S : \A y \in S : x <= y
  BY <1>5
<1>7. QED
  BY <1>6 DEF Min

LEMMA BusyIsFinite ==
    IsFiniteSet(Busy) /\ Cardinality(Busy) \in Nat
BY FS_Subset, FS_CardinalityType DEF Busy, Children

LEMMA FreeIdentifier ==
    ASSUME Cardinality(Busy) < Workers
    PROVE  Fresh \in Pids \ {child[d].pid : d \in Busy}
<1> DEFINE taken == {child[d].pid : d \in Busy}
           f == [d \in Busy |-> child[d].pid]
<1>1. f \in Surjection(Busy, taken)
  BY DEF Surjection
<1>2. IsFiniteSet(taken) /\ Cardinality(taken) <= Cardinality(Busy)
  <2> HIDE DEF taken, f
  <2> QED
    BY <1>1, BusyIsFinite, FS_Surjection
<1>3. Pids \ taken # {}
  <2>1. SUFFICES ASSUME Pids \subseteq taken PROVE FALSE
    OBVIOUS
  <2>2. Cardinality(Pids) <= Cardinality(taken)
    <3> HIDE DEF taken
    <3> QED
      BY <1>2, <2>1, FS_Subset
  <2>3. Cardinality(Pids) \in Nat /\ Cardinality(taken) \in Nat /\ Cardinality(Busy) \in Nat
    BY <1>2, BusyIsFinite, FS_CardinalityType
  <2>4. QED
    BY <1>2, <2>2, <2>3
<1>4. Pids \ taken \in SUBSET Nat
  OBVIOUS
<1>5. QED
  BY <1>3, <1>4, LeastNat DEF Fresh

LEMMA StartingSteps ==
    ASSUME TypeOK, ChildrenAreSound, LogIsKept, NEW c \in Children, Start(c)
    PROVE  \E x : Starts(c, x)
<1>1. PICK p \in {Fresh} \cup (Left \ Taken) :
          Becomes(c, [child[c] EXCEPT !.work = "polling", !.proc = "young",
                                      !.pid = p, !.heirOf = HeirOf(p), !.from = Len(log)])
  BY DEF Start, SnapshotLogOffset
<1> DEFINE y == child[c]
           h == HeirOf(p)
           x == [y EXCEPT !.work = "polling", !.proc = "young", !.pid = p, !.heirOf = h, !.from = Len(log)]
<1>2. y \in CStates /\ Sound(y)
  BY TypeParts DEF ChildrenAreSound
<1>3. y.work = "queued" /\ Becomes(c, x) /\ UNCHANGED <<config, log, total, folded>>
  BY <1>1 DEF Start
<1>4. p \in Pids \ Taken
  <2>1. CASE p = Fresh
    <3>1. p \in Pids \ {child[d].pid : d \in Busy}
      BY <2>1, FreeIdentifier DEF Start
    <3>2. \A d \in Children : Alive(child[d]) => d \in Busy
      BY TypeParts DEF ChildrenAreSound, Sound, Alive, Busy, CStates
    <3>3. QED
      BY <3>1, <3>2 DEF Taken
  <2>2. CASE p \in Left \ Taken
    BY <2>2 DEF Left, LogIsKept
  <2>3. QED
    BY <2>1, <2>2
<1>5. Len(log) \in Nat /\ h \in SUBSET Children
  BY DEF TypeOK, HeirOf, Busy
<1> HIDE DEF y, h
<1>6. x \in CStates
  BY <1>2, <1>4, <1>5 DEF CStates
<1>7. /\ x.work = "polling" /\ x.pid = p /\ x.heirOf = h /\ x.from = Len(log) /\ x.noted = y.noted
  BY <1>2 DEF CStates
<1>8. y.proc = "none" /\ y.noted = 0
  BY <1>2, <1>3 DEF Sound
<1>9. Sound(x)
  BY <1>2, <1>3, <1>8 DEF CStates, Sound
<1> HIDE DEF x
<1>10. Starts(c, x)
  BY <1>3, <1>4, <1>6, <1>7, <1>8, <1>9 DEF Starts, Keeps, AtWork, y, h
<1>11. QED
  BY <1>10

Folds(c) ==
    /\ child[c].work = "returned" /\ c \notin folded
    /\ total' = total + child[c].usage /\ folded' = folded \cup {c}
    /\ UNCHANGED <<config, child, log>>

LEMMA KindsOfStep ==
    ASSUME TypeOK, ChildrenAreSound, LogIsKept, [Next]_vars
    PROVE  \/ UNCHANGED vars
           \/ \E c \in Children : \/ Folds(c)
                                  \/ \E x : Quiet(c, x) \/ Writes(c, x) \/ Forks(c, x) \/ Starts(c, x)
<1>1. ASSUME NEW c \in Children, Fold(c) PROVE Folds(c)
  BY <1>1 DEF Fold, Folds, ChunkUsage
<1>2. ASSUME NEW c \in Children, ChildStep(c) \/ ParentStep(c) \/ Expire(c)
      PROVE  Folds(c) \/ \E x : Quiet(c, x) \/ Writes(c, x) \/ Forks(c, x) \/ Starts(c, x)
  BY <1>1, <1>2, ChildSteps, ParentSteps, WritingSteps, ForkingSteps, StartingSteps DEF ChildStep, ParentStep
<1>3. QED
  BY <1>2 DEF Next

-----------------------------------------------------------------------------
(* What the steps preserve *)

LEMMA OthersStay ==
    ASSUME TypeOK, NEW c \in Children, NEW x, Keeps(c, x)
    PROVE  /\ \A d \in Children : child'[d] = IF d = c THEN x ELSE child[d]
           /\ child' \in [Children -> CStates] /\ kind' = kind /\ logs' = logs
BY TypeParts DEF Keeps, Becomes, config

LEMMA TypesAreKept ==
    ASSUME TypeOK, ChildrenAreSound, LogIsKept, [Next]_vars
    PROVE  TypeOK' /\ ChildrenAreSound'
<1>1. CASE UNCHANGED vars
  BY <1>1 DEF vars, config, TypeOK, ChildrenAreSound, Sound
<1>2. ASSUME NEW c \in Children, Folds(c) PROVE TypeOK' /\ ChildrenAreSound'
  <2>1. child[c].usage \in Nat
    BY TypeParts DEF CStates
  <2>2. total' \in Nat /\ folded' \subseteq Children
    BY <1>2, <2>1 DEF Folds, TypeOK
  <2>3. kind' = kind /\ logs' = logs /\ child' = child /\ log' = log
    BY <1>2 DEF Folds, config
  <2>4. TypeOK'
    BY <2>2, <2>3 DEF TypeOK
  <2>5. ChildrenAreSound'
    BY <2>3 DEF ChildrenAreSound, Sound
  <2>6. QED
    BY <2>4, <2>5
<1>3. ASSUME NEW c \in Children, NEW x, Keeps(c, x), log' \in Seq(Lines)
      PROVE  TypeOK' /\ ChildrenAreSound'
  <2>1. /\ \A d \in Children : child'[d] = IF d = c THEN x ELSE child[d]
        /\ child' \in [Children -> CStates] /\ kind' = kind /\ logs' = logs
    BY <1>3, OthersStay
  <2>2. total' = total /\ folded' = folded /\ Sound(x)
    BY <1>3 DEF Keeps
  <2>3. TypeOK'
    <3>1. log' \in Seq(Lines)
      BY <1>3
    <3>2. QED
      BY <2>1, <2>2, <3>1 DEF TypeOK, CStates, Lines
  <2>4. \A d \in Children : Sound(child'[d])
    BY <2>1, <2>2 DEF ChildrenAreSound
  <2>5. ChildrenAreSound'
    BY <2>1, <2>4 DEF ChildrenAreSound, Sound
  <2>6. QED
    BY <2>3, <2>5
<1>4. log \in Seq(Lines)
  BY DEF TypeOK, Lines
<1>5. ASSUME NEW c \in Children, NEW x, Quiet(c, x) \/ Starts(c, x)
      PROVE  TypeOK' /\ ChildrenAreSound'
  BY <1>3, <1>4, <1>5 DEF Quiet, Starts
<1>6. ASSUME NEW c \in Children, NEW x, Writes(c, x)
      PROVE  TypeOK' /\ ChildrenAreSound'
  <2>1. LineOf(c, x.pid, x.heirOf) \in Lines /\ Keeps(c, x)
    BY <1>6 DEF Writes, Keeps, CStates, LineOf, Lines
  <2>2. log' \in {log, Append(log, LineOf(c, x.pid, x.heirOf))}
    BY <1>6 DEF Writes
  <2>3. log' \in Seq(Lines)
    BY <1>4, <2>1, <2>2
  <2>4. QED
    BY <1>3, <2>1, <2>3
<1>7. ASSUME NEW c \in Children, NEW x, Forks(c, x)
      PROVE  TypeOK' /\ ChildrenAreSound'
  <2>1. PICK pid \in Pids \cup {0} : log' = Append(log, LineOf(0, pid, HeirOf(pid)))
    BY <1>7 DEF Forks
  <2>2. LineOf(0, pid, HeirOf(pid)) \in Lines
    BY DEF LineOf, Lines, HeirOf, Busy
  <2>3. log' \in Seq(Lines)
    BY <1>4, <2>1, <2>2
  <2>4. QED
    BY <1>3, <1>7, <2>3 DEF Forks
<1>8. QED
  BY <1>1, <1>2, <1>5, <1>6, <1>7, KindsOfStep

\* A line at the end of the log counts for who wrote it, for the child whose
\* identifier it carries and for those whose heir wrote it.
LEMMA OneMoreLine ==
    ASSUME TypeOK, NEW l \in Lines, NEW c, NEW x, x.from \in Nat, x.from <= Len(log)
    PROVE  LET w == Append(log, l)
               top == Len(log) + 1
           IN  /\ x.from <= Len(w)
               /\ OwnLines(w, c) = OwnLines(log, c) \cup (IF l.by = c THEN {top} ELSE {})
               /\ LinesOf(w, x) = LinesOf(log, x) \cup (IF l.pid = x.pid THEN {top} ELSE {})
               /\ StraysIn(w, c) = StraysIn(log, c) \cup (IF c \in l.heirOf THEN {top} ELSE {})
               /\ top \notin OwnLines(log, c)
<1> DEFINE n == Len(log)
           w == Append(log, l)
<1>1. /\ n \in Nat /\ Len(w) = n + 1 /\ w[n + 1] = l /\ x.from <= n
      /\ \A k \in 1..n : w[k] = log[k]
  BY DEF TypeOK
<1>2. /\ OwnLines(log, c) = {k \in 1..n : log[k].by = c}
      /\ LinesOf(log, x) = {k \in (x.from + 1)..n : log[k].pid = x.pid}
      /\ StraysIn(log, c) = {k \in 1..n : c \in log[k].heirOf}
  BY DEF OwnLines, LinesOf, StraysIn
<1> HIDE DEF n, w
<1>3. /\ OwnLines(w, c) = {k \in 1..(n + 1) : w[k].by = c}
      /\ LinesOf(w, x) = {k \in (x.from + 1)..(n + 1) : w[k].pid = x.pid}
      /\ StraysIn(w, c) = {k \in 1..(n + 1) : c \in w[k].heirOf}
  BY <1>1 DEF OwnLines, LinesOf, StraysIn
<1>4. /\ (x.from + 1)..(n + 1) = ((x.from + 1)..n) \cup {n + 1} /\ 1..(n + 1) = (1..n) \cup {n + 1}
      /\ (x.from + 1)..n \subseteq 1..n /\ n + 1 \notin 1..n
  BY <1>1
<1>5. OwnLines(w, c) = OwnLines(log, c) \cup (IF l.by = c THEN {n + 1} ELSE {})
  BY <1>1, <1>2, <1>3, <1>4
<1>6. LinesOf(w, x) = LinesOf(log, x) \cup (IF l.pid = x.pid THEN {n + 1} ELSE {})
  BY <1>1, <1>2, <1>3, <1>4
<1>7. StraysIn(w, c) = StraysIn(log, c) \cup (IF c \in l.heirOf THEN {n + 1} ELSE {})
  BY <1>1, <1>2, <1>3, <1>4
<1>8. n + 1 \notin OwnLines(log, c) /\ x.from <= Len(w)
  BY <1>1, <1>2, <1>4
<1>9. QED
  BY <1>5, <1>6, <1>7, <1>8 DEF n, w

\* A line fits when it is signed with its writer's identifier, and who else has had
\* that identifier and is not answered for is one whose heir the writer is.
Fits(l) ==
    \A d \in Busy : /\ l.by = d => l.pid = child[d].pid
                    /\ l.pid = child[d].pid => l.by = d \/ d \in l.heirOf

Steady ==
    /\ Busy' \subseteq Busy /\ kind' = kind /\ logs' = logs
    /\ \A d \in Busy : /\ child'[d].pid = child[d].pid /\ child'[d].heirOf = child[d].heirOf
                       /\ child'[d].from = child[d].from
                       /\ Alive(child'[d]) => Alive(child[d])

LEMMA SteadyLog ==
    ASSUME TypeOK, LogIsKept, Steady,
           log' = log \/ (logs /\ \E l \in Lines : Fits(l) /\ log' = Append(log, l)),
           logs => \A c \in Children : Cardinality(OwnLines(log', c)) = child'[c].noted
    PROVE  LogIsKept'
<1>1. /\ logs => kind = "tracked"
      /\ ~logs => log = << >>
      /\ \A c \in Busy : child[c].pid \in Pids /\ child[c].from <= Len(log)
      /\ \A c, d \in Busy :
            c # d /\ child[c].pid = child[d].pid /\ Alive(child[d]) => c \in child[d].heirOf
      /\ \A c \in Busy : /\ OwnLines(log, c) \subseteq LinesOf(log, child[c])
                         /\ LinesOf(log, child[c]) \subseteq OwnLines(log, c) \cup StraysIn(log, c)
  BY DEF LogIsKept
<1>2. ASSUME NEW c \in Busy
      PROVE  /\ child[c].from <= Len(log')
             /\ OwnLines(log', c) \subseteq LinesOf(log', child[c])
             /\ LinesOf(log', child[c]) \subseteq OwnLines(log', c) \cup StraysIn(log', c)
  <2>1. CASE log' = log
    BY <1>1, <2>1
  <2>2. CASE \E l \in Lines : Fits(l) /\ log' = Append(log, l)
    <3>1. PICK l \in Lines : Fits(l) /\ log' = Append(log, l)
      BY <2>2
    <3> DEFINE x == child[c]
               top == Len(log) + 1
    <3>2. x.from \in Nat /\ x.from <= Len(log)
      BY <1>1, TypeParts DEF Busy, CStates
    <3>3. /\ l.by = c => l.pid = x.pid
          /\ l.pid = x.pid => l.by = c \/ c \in l.heirOf
      <4>1. /\ l.by = c => l.pid = child[c].pid
            /\ l.pid = child[c].pid => l.by = c \/ c \in l.heirOf
        BY <3>1, Zenon DEF Fits
      <4>2. QED
        BY <4>1, Zenon
    <3>4. /\ OwnLines(log, c) \subseteq LinesOf(log, x)
          /\ LinesOf(log, x) \subseteq OwnLines(log, c) \cup StraysIn(log, c)
      BY <1>1
    <3> HIDE DEF x
    <3>5. /\ x.from <= Len(log')
          /\ OwnLines(log', c) = OwnLines(log, c) \cup (IF l.by = c THEN {top} ELSE {})
          /\ LinesOf(log', x) = LinesOf(log, x) \cup (IF l.pid = x.pid THEN {top} ELSE {})
          /\ StraysIn(log', c) = StraysIn(log, c) \cup (IF c \in l.heirOf THEN {top} ELSE {})
      BY <3>1, <3>2, OneMoreLine
    <3> HIDE DEF top
    <3>6. QED
      BY <3>3, <3>4, <3>5 DEF x
  <2>3. QED
    BY <2>1, <2>2
<1>3. ASSUME NEW c \in Busy PROVE LinesOf(log', child'[c]) = LinesOf(log', child[c])
  BY DEF Steady, LinesOf
<1>4. \A c \in Busy' : child'[c].pid \in Pids /\ child'[c].from <= Len(log')
  BY <1>1, <1>2 DEF Steady
<1>5. \A c, d \in Busy' :
          c # d /\ child'[c].pid = child'[d].pid /\ Alive(child'[d]) => c \in child'[d].heirOf
  BY <1>1 DEF Steady
<1>6. \A c \in Busy' : /\ OwnLines(log', c) \subseteq LinesOf(log', child'[c])
                       /\ LinesOf(log', child'[c]) \subseteq OwnLines(log', c) \cup StraysIn(log', c)
  BY <1>2, <1>3 DEF Steady
<1>7. /\ logs' => kind' = "tracked"
      /\ ~logs' => log' = << >>
      /\ logs' => \A c \in Children : Cardinality(OwnLines(log', c)) = child'[c].noted
  BY <1>1 DEF Steady
<1>8. QED
  BY <1>4, <1>5, <1>6, <1>7 DEF LogIsKept

LEMMA LogStaysKept ==
    ASSUME TypeOK, ChildrenAreSound, LogIsKept, [Next]_vars
    PROVE  LogIsKept'
<1>1. /\ \A d \in Busy : child[d].pid \in Pids /\ child[d].from <= Len(log)
      /\ \A d, e \in Busy :
            d # e /\ child[d].pid = child[e].pid /\ Alive(child[e]) => d \in child[e].heirOf
      /\ logs => \A d \in Children : Cardinality(OwnLines(log, d)) = child[d].noted
  BY DEF LogIsKept
<1>2. ASSUME child' = child, log' = log, config' = config PROVE LogIsKept'
  BY <1>2 DEF LogIsKept, Busy, config, Alive
<1>3. ASSUME NEW c \in Children, NEW x, Keeps(c, x), Busy' \subseteq Busy,
             x.pid = child[c].pid, x.heirOf = child[c].heirOf, x.from = child[c].from,
             Alive(x) => Alive(child[c])
      PROVE  Steady /\ \A d \in Children : child'[d] = IF d = c THEN x ELSE child[d]
  <2>1. /\ \A d \in Children : child'[d] = IF d = c THEN x ELSE child[d]
        /\ kind' = kind /\ logs' = logs
    BY <1>3, OthersStay
  <2>2. QED
    BY <1>3, <2>1 DEF Steady, Busy
<1>4. ASSUME NEW c \in Children, NEW x, Quiet(c, x) PROVE LogIsKept'
  <2>1. \A d \in Children : child'[d] = IF d = c THEN x ELSE child[d]
    BY <1>4, OthersStay DEF Quiet
  <2>2. Busy' \subseteq Busy
    BY <1>4, <2>1 DEF Quiet, AtWork, Busy
  <2>3. Steady
    BY <1>3, <1>4, <2>2 DEF Quiet, Same
  <2>4. log' = log /\ x.noted = child[c].noted
    BY <1>4 DEF Quiet, Same
  <2>5. logs => \A d \in Children : Cardinality(OwnLines(log', d)) = child'[d].noted
    BY <1>1, <2>1, <2>4
  <2>6. QED
    BY <2>3, <2>4, <2>5, SteadyLog
<1>5. ASSUME NEW c \in Children, NEW x, Forks(c, x) PROVE LogIsKept'
  <2>1. \A d \in Children : child'[d] = IF d = c THEN x ELSE child[d]
    BY <1>5, OthersStay DEF Forks
  <2>2. Busy' = Busy
    BY <1>5, <2>1 DEF Forks, Busy
  <2>3. Steady
    <3>1. Alive(x) => Alive(child[c])
      BY <1>5 DEF Forks, Alive
    <3>2. QED
      BY <1>3, <1>5, <2>2, <3>1 DEF Forks, Same
  <2>4. PICK pid \in Pids \cup {0} : log' = Append(log, LineOf(0, pid, HeirOf(pid)))
    BY <1>5 DEF Forks
  <2> DEFINE l == LineOf(0, pid, HeirOf(pid))
  <2>5. l \in Lines /\ l.by = 0 /\ l.pid = pid /\ l.heirOf = HeirOf(pid)
    BY DEF LineOf, Lines, HeirOf, Busy
  <2>6. Fits(l)
    BY <2>5 DEF Fits, HeirOf, Busy, Children
  <2>7. log' = Append(log, l) /\ logs
    BY <1>5, <2>4 DEF Forks
  <2> HIDE DEF l
  <2>8. ASSUME NEW d \in Children PROVE OwnLines(log', d) = OwnLines(log, d)
    <3> DEFINE y == [from |-> 0]
               w == Append(log, l)
    <3>1. y.from \in Nat /\ y.from <= Len(log)
      BY DEF TypeOK
    <3>2. l.by # d
      BY <2>5 DEF Children
    <3> HIDE DEF y, w
    <3>3. OwnLines(w, d) = OwnLines(log, d) \cup (IF l.by = d THEN {Len(log) + 1} ELSE {})
      BY <2>5, <3>1, OneMoreLine DEF w
    <3>4. QED
      BY <2>7, <3>2, <3>3 DEF w
  <2>9. \A d \in Children : child'[d].noted = child[d].noted
    BY <1>5, <2>1 DEF Forks, Same
  <2>10. \A d \in Children : Cardinality(OwnLines(log', d)) = child'[d].noted
    BY <1>1, <2>7, <2>8, <2>9
  <2>11. QED
    BY <2>3, <2>5, <2>6, <2>7, <2>10, SteadyLog
<1>6. ASSUME NEW c \in Children, NEW x, Writes(c, x) PROVE LogIsKept'
  <2>1. \A d \in Children : child'[d] = IF d = c THEN x ELSE child[d]
    BY <1>6, OthersStay DEF Writes
  <2>2. Busy' = Busy /\ c \in Busy
    BY <1>6, <2>1 DEF Writes, AtWork, Busy
  <2>3. Steady
    BY <1>3, <1>6, <2>2 DEF Writes
  <2>4. CASE ~logs
    <3>1. log' = log
      BY <1>6, <2>4 DEF Writes
    <3>2. QED
      BY <2>3, <2>4, <3>1, SteadyLog
  <2>5. CASE logs
    <3> DEFINE l == LineOf(c, x.pid, x.heirOf)
    <3>1. log' = Append(log, l)
      BY <1>6, <2>5 DEF Writes
    <3>2. l \in Lines /\ l.by = c /\ l.pid = child[c].pid /\ l.heirOf = child[c].heirOf
      BY <1>6 DEF Writes, Keeps, CStates, LineOf, Lines
    <3>3. Fits(l)
      BY <1>1, <1>6, <2>2, <3>2 DEF Fits, Writes
    <3> HIDE DEF l
    <3>4. ASSUME NEW d \in Children PROVE Cardinality(OwnLines(log', d)) = child'[d].noted
      <4> DEFINE y == [from |-> 0]
                 top == Len(log) + 1
      <4>1. y.from \in Nat /\ y.from <= Len(log)
        BY DEF TypeOK
      <4> HIDE DEF y
      <4>2. /\ OwnLines(log', d) = OwnLines(log, d) \cup (IF l.by = d THEN {top} ELSE {})
            /\ top \notin OwnLines(log, d)
        BY <3>1, <3>2, <4>1, OneMoreLine
      <4>3. IsFiniteSet(OwnLines(log, d)) /\ Cardinality(OwnLines(log, d)) = child[d].noted
        <5>1. log \in Seq(Lines)
          BY TypeParts
        <5>2. IsFiniteSet(OwnLines(log, d))
          BY <4>1, <5>1, LinesAreFinite
        <5>3. QED
          BY <1>1, <2>5, <5>2
      <4> HIDE DEF top
      <4>4. CASE d = c
        <5>1. OwnLines(log', d) = OwnLines(log, d) \cup {top}
          BY <3>2, <4>2, <4>4
        <5>2. Cardinality(OwnLines(log', d)) = child[d].noted + 1
          BY <4>2, <4>3, <5>1, FS_AddElement
        <5>3. child'[d].noted = child[d].noted + 1
          BY <1>6, <2>1, <4>4 DEF Writes
        <5>4. QED
          BY <5>2, <5>3
      <4>5. CASE d # c
        <5>1. OwnLines(log', d) = OwnLines(log, d)
          BY <3>2, <4>2, <4>5
        <5>2. QED
          BY <2>1, <4>3, <4>5, <5>1
      <4>6. QED
        BY <4>4, <4>5
    <3>5. QED
      BY <2>3, <2>5, <3>1, <3>2, <3>3, <3>4, SteadyLog
  <2>6. QED
    BY <2>4, <2>5
<1>7. ASSUME NEW c \in Children, NEW x, Starts(c, x) PROVE LogIsKept'
  <2>1. /\ \A d \in Children : child'[d] = IF d = c THEN x ELSE child[d]
        /\ kind' = kind /\ logs' = logs
    BY <1>7, OthersStay DEF Starts
  <2>2. /\ log' = log /\ x.pid \in Pids \ Taken /\ x.heirOf = HeirOf(x.pid)
        /\ x.from = Len(log) /\ x.noted = 0
    BY <1>7 DEF Starts
  <2>3. Busy' = Busy \cup {c} /\ c \notin Busy
    BY <1>7, <2>1 DEF Starts, AtWork, Busy
  <2>4. Len(log) \in Nat /\ log \in Seq(Lines)
    BY TypeParts
  <2>5. child[c].proc = "none" /\ child[c].noted = 0 /\ child[c].from \in Nat
    BY <1>7, TypeParts DEF Starts, ChildrenAreSound, Sound, CStates
  <2>6. OwnLines(log, c) = {} /\ LinesOf(log, x) = {}
    <3>1. LinesOf(log, x) = {}
      BY <2>2, <2>4 DEF LinesOf
    <3>2. CASE logs
      <4>1. Cardinality(OwnLines(log, c)) = 0
        BY <1>1, <2>5, <3>2
      <4>2. IsFiniteSet(OwnLines(log, c))
        BY <2>4, <2>5, LinesAreFinite
      <4>3. QED
        BY <3>1, <4>1, <4>2, FS_EmptySet
    <3>3. CASE ~logs
      <4>1. log = << >>
        BY <3>3 DEF LogIsKept
      <4>2. OwnLines(log, c) = {}
        BY <4>1 DEF OwnLines
      <4>3. QED
        BY <3>1, <4>2
    <3>4. QED
      BY <3>2, <3>3
  <2>7. child'[c] = x /\ \A d \in Busy : child'[d] = child[d] /\ d # c
    BY <2>1, <2>3 DEF Busy
  <2>8. \A d \in Busy' : child'[d].pid \in Pids /\ child'[d].from <= Len(log')
    BY <1>1, <2>2, <2>3, <2>4, <2>7
  <2>9. ASSUME NEW d \in Busy', NEW e \in Busy', d # e, child'[d].pid = child'[e].pid, Alive(child'[e])
        PROVE  d \in child'[e].heirOf
    <3>1. CASE e = c
      BY <2>2, <2>3, <2>7, <2>9, <3>1 DEF HeirOf
    <3>2. CASE e # c /\ d = c
      <4>1. e \in Busy /\ e \in Children /\ Alive(child[e]) /\ child[e].pid = x.pid
        BY <2>3, <2>7, <2>9, <3>2 DEF Busy
      <4>2. QED
        BY <2>2, <4>1 DEF Taken
    <3>3. CASE e # c /\ d # c
      BY <1>1, <2>3, <2>7, <2>9, <3>3
    <3>4. QED
      BY <3>1, <3>2, <3>3
  <2>10. \A d \in Busy' : /\ OwnLines(log', d) \subseteq LinesOf(log', child'[d])
                          /\ LinesOf(log', child'[d]) \subseteq OwnLines(log', d) \cup StraysIn(log', d)
    <3>1. \A d \in Busy : /\ OwnLines(log, d) \subseteq LinesOf(log, child[d])
                          /\ LinesOf(log, child[d]) \subseteq OwnLines(log, d) \cup StraysIn(log, d)
      BY DEF LogIsKept
    <3>2. QED
      BY <2>2, <2>3, <2>6, <2>7, <3>1
  <2>11. logs' => \A d \in Children : Cardinality(OwnLines(log', d)) = child'[d].noted
    BY <1>1, <2>1, <2>2, <2>5
  <2>12. (logs' => kind' = "tracked") /\ (~logs' => log' = << >>)
    BY <2>1, <2>2 DEF LogIsKept
  <2>13. QED
    BY <2>8, <2>9, <2>10, <2>11, <2>12 DEF LogIsKept
<1>8. QED
  BY <1>2, <1>4, <1>5, <1>6, <1>7, KindsOfStep DEF vars, Folds

\* What has been reported stays within its bounds: the lines of heirs only grow.
LEMMA UsagesStayOwn ==
    ASSUME TypeOK, ChildrenAreSound, LogIsKept, UsageIsTheChildsOwn, [Next]_vars
    PROVE  UsageIsTheChildsOwn'
<1>1. ASSUME NEW c \in Children, child[c].work = "returned", NEW x, x \in CStates,
             x.usage = child[c].usage, x.noted = child[c].noted, x.delivered = child[c].delivered,
             logs' = logs, log' = log \/ \E l \in Lines : log' = Append(log, l)
      PROVE  OwnUse(c, x) /\ (IF x.delivered \/ logs'
                              THEN /\ x.noted <= x.usage
                                   /\ x.usage <= x.noted + Cardinality(Strays(c)')
                                   /\ x.delivered => x.usage = x.noted
                              ELSE x.usage = 0)
  <2>1. OwnUse(c, x)
    BY <1>1 DEF UsageIsTheChildsOwn, OwnUse
  <2>2. /\ IsFiniteSet(Strays(c)) /\ Cardinality(Strays(c)) \in Nat
        /\ Cardinality(Strays(c)) <= Cardinality(Strays(c)') /\ Cardinality(Strays(c)') \in Nat
    <3> DEFINE y == [from |-> 0]
               old == Strays(c)
               new == Strays(c)'
               top == Len(log) + 1
    <3>1. y.from \in Nat /\ log \in Seq(Lines) /\ Len(log) \in Nat /\ y.from <= Len(log)
      BY TypeParts
    <3>2. old = StraysIn(log, c) /\ new = StraysIn(log', c)
      BY DEF Strays, StraysIn
    <3> HIDE DEF y, old, new
    <3>3. IsFiniteSet(old) /\ Cardinality(old) \in Nat
      BY <3>1, <3>2, LinesAreFinite
    <3>4. new = old \/ new = old \cup {top}
      <4>1. CASE log' = log
        BY <3>2, <4>1
      <4>2. CASE \E l \in Lines : log' = Append(log, l)
        <5>1. PICK l \in Lines : log' = Append(log, l)
          BY <4>2
        <5>2. StraysIn(log', c) = StraysIn(log, c) \cup (IF c \in l.heirOf THEN {top} ELSE {})
          BY <3>1, <5>1, OneMoreLine
        <5>3. QED
          BY <3>2, <5>2
      <4>3. QED
        BY <1>1, <4>1, <4>2
    <3> HIDE DEF top
    <3>5. IsFiniteSet(new) /\ old \subseteq new
      <4>1. IsFiniteSet(old \cup {top})
        BY <3>3, FS_AddElement
      <4>2. QED
        BY <3>3, <3>4, <4>1
    <3>6. Cardinality(old) <= Cardinality(new) /\ Cardinality(new) \in Nat
      BY <3>5, FS_Subset, FS_CardinalityType
    <3>7. QED
      BY <3>3, <3>6 DEF old, new
  <2>3. x.noted \in Nat /\ x.usage \in Nat
    BY <1>1 DEF CStates
  <2>4. QED
    BY <1>1, <2>1, <2>2, <2>3 DEF OwnUse
<1>2. ASSUME child' = child, log' = log, config' = config PROVE UsageIsTheChildsOwn'
  <2>1. logs' = logs /\ \A c \in Children : Strays(c)' = Strays(c)
    BY <1>2 DEF Strays, config
  <2>2. QED
    BY <1>2, <2>1 DEF UsageIsTheChildsOwn
<1>3. ASSUME NEW c \in Children, NEW x, Keeps(c, x),
             log' = log \/ \E l \in Lines : log' = Append(log, l),
             child[c].work = "returned" => /\ x.usage = child[c].usage /\ x.noted = child[c].noted
                                           /\ x.delivered = child[c].delivered,
             child[c].work # "returned" /\ x.work = "returned" => log' = log /\ OwnUse(c, x)
      PROVE  UsageIsTheChildsOwn'
  <2>1. /\ \A d \in Children : child'[d] = IF d = c THEN x ELSE child[d]
        /\ child' \in [Children -> CStates] /\ logs' = logs
    BY <1>3, OthersStay
  <2>2. SUFFICES ASSUME NEW d \in Children, child'[d].work = "returned"
                 PROVE  IF child'[d].delivered \/ logs'
                        THEN /\ child'[d].noted <= child'[d].usage
                             /\ child'[d].usage <= child'[d].noted + Cardinality(Strays(d)')
                             /\ child'[d].delivered => child'[d].usage = child'[d].noted
                        ELSE child'[d].usage = 0
    BY DEF UsageIsTheChildsOwn
  <2>3. child'[d] \in CStates
    BY <2>1
  <2>4. CASE child[d].work = "returned"
    <3>1. /\ child'[d].usage = child[d].usage /\ child'[d].noted = child[d].noted
          /\ child'[d].delivered = child[d].delivered
      BY <1>3, <2>1, <2>4
    <3>2. QED
      BY <1>1, <1>3, <2>1, <2>3, <2>4, <3>1
  <2>5. CASE child[d].work # "returned"
    <3>1. d = c /\ child'[d] = x
      BY <2>1, <2>2, <2>5
    <3>2. log' = log /\ OwnUse(d, x)
      BY <1>3, <2>2, <2>5, <3>1
    <3>3. Strays(d)' = Strays(d)
      BY <3>2 DEF Strays
    <3>4. QED
      BY <2>1, <3>1, <3>2, <3>3 DEF OwnUse
  <2>6. QED
    BY <2>4, <2>5
<1>4. ASSUME NEW c \in Children, NEW x, Quiet(c, x) PROVE UsageIsTheChildsOwn'
  BY <1>3, <1>4 DEF Quiet, AtWork
<1>5. ASSUME NEW c \in Children, NEW x, Starts(c, x) PROVE UsageIsTheChildsOwn'
  <2>1. Keeps(c, x) /\ log' = log /\ child[c].work # "returned" /\ x.work # "returned"
    BY <1>5 DEF Starts, AtWork
  <2>2. QED
    BY <1>3, <2>1
<1>6. ASSUME NEW c \in Children, NEW x, Writes(c, x) PROVE UsageIsTheChildsOwn'
  <2>1. Keeps(c, x) /\ child[c].work # "returned" /\ x.work # "returned"
    BY <1>6 DEF Writes, AtWork
  <2>2. LineOf(c, x.pid, x.heirOf) \in Lines
    BY <1>6 DEF Writes, Keeps, CStates, LineOf, Lines
  <2>3. log' = log \/ \E l \in Lines : log' = Append(log, l)
    BY <1>6, <2>2 DEF Writes
  <2>4. QED
    BY <1>3, <2>1, <2>3
<1>7. ASSUME NEW c \in Children, NEW x, Forks(c, x) PROVE UsageIsTheChildsOwn'
  <2>1. PICK pid \in Pids \cup {0} : log' = Append(log, LineOf(0, pid, HeirOf(pid)))
    BY <1>7 DEF Forks
  <2>2. LineOf(0, pid, HeirOf(pid)) \in Lines
    BY DEF LineOf, Lines, HeirOf, Busy
  <2>3. \E l \in Lines : log' = Append(log, l)
    BY <2>1, <2>2
  <2>4. /\ Keeps(c, x) /\ x.work = child[c].work /\ x.usage = child[c].usage
        /\ x.noted = child[c].noted /\ x.delivered = child[c].delivered
    BY <1>7 DEF Forks, Same
  <2>5. QED
    BY <1>3, <2>3, <2>4
<1>8. QED
  BY <1>2, <1>4, <1>5, <1>6, <1>7, KindsOfStep DEF vars, Folds

-----------------------------------------------------------------------------
(* Sums, as numbers of units.                                             *)

LEMMA UnitsAreFinite ==
    ASSUME NEW S, IsFiniteSet(S), NEW n \in [S -> Nat]
    PROVE  IsFiniteSet(Units(n)) /\ Cardinality(Units(n)) \in Nat
<1> DEFINE f == [c \in S |-> {c} \X (1..n[c])]
           P == {{c} \X (1..n[c]) : c \in S}
<1>1. f \in Surjection(S, P)
  BY DEF Surjection
<1>2. IsFiniteSet(P)
  <2> HIDE DEF f, P
  <2> QED
    BY <1>1, FS_Surjection
<1>3. \A c \in S : IsFiniteSet({c} \X (1..n[c]))
  <2> TAKE c \in S
  <2> DEFINE T == 1..n[c]
             U == {c}
  <2>1. n[c] \in Int
    OBVIOUS
  <2>2. IsFiniteSet(T)
    BY <2>1, FS_Interval
  <2>3. IsFiniteSet(U)
    BY FS_Singleton
  <2> HIDE DEF T, U
  <2>4. IsFiniteSet(U \X T)
    BY <2>2, <2>3, FS_Product
  <2>5. QED
    BY <2>4 DEF T, U
<1>4. \A T \in P : IsFiniteSet(T)
  BY <1>3
<1>5. IsFiniteSet(UNION P)
  <2> HIDE DEF P
  <2> QED
    BY <1>2, <1>4, FS_UNION
<1>6. Units(n) = UNION P
  BY DEF Units
<1>7. QED
  BY <1>5, <1>6, FS_CardinalityType

LEMMA UnitsOfOneMore ==
    ASSUME NEW S, IsFiniteSet(S), NEW n \in [S -> Nat], NEW c, c \notin S,
           NEW m \in [S \cup {c} -> Nat], \A d \in S : m[d] = n[d]
    PROVE  Cardinality(Units(m)) = Cardinality(Units(n)) + m[c]
<1> DEFINE own == {c} \X (1..m[c])
<1>1. m[c] \in Nat /\ m[c] \in Int
  OBVIOUS
<1>2. IsFiniteSet(own) /\ Cardinality(own) = m[c]
  <2> DEFINE T == 1..m[c]
             U == {c}
  <2>1. IsFiniteSet(T) /\ Cardinality(T) = m[c]
    BY <1>1, FS_Interval
  <2>2. IsFiniteSet(U) /\ Cardinality(U) = 1
    BY FS_Singleton
  <2> HIDE DEF T, U
  <2>3. IsFiniteSet(U \X T) /\ Cardinality(U \X T) = 1 * m[c]
    BY <2>1, <2>2, FS_Product
  <2>4. QED
    BY <1>1, <2>3 DEF T, U
<1>3. IsFiniteSet(Units(n)) /\ Cardinality(Units(n)) \in Nat
  BY UnitsAreFinite
<1>4. Units(m) = Units(n) \cup own
  BY DEF Units
<1>5. Units(n) \cap own = {}
  BY DEF Units
<1> HIDE DEF own
<1>6. Cardinality(Units(n) \cup own) = Cardinality(Units(n)) + Cardinality(own) - Cardinality({})
  BY <1>2, <1>3, <1>5, FS_Union
<1>7. Cardinality({}) = 0
  BY FS_EmptySet
<1>8. QED
  BY <1>1, <1>2, <1>3, <1>4, <1>6, <1>7

\* If every m[c] is at most n[c] and the size of a set of its own, the sum of m is
\* at most the sum of n and the size of the union of the sets, told apart.
LEMMA UnitsWithin ==
    ASSUME NEW S, IsFiniteSet(S), NEW n \in [S -> Nat], NEW m \in [S -> Nat], NEW r,
           \A c \in S : IsFiniteSet(r[c]) /\ m[c] <= n[c] + Cardinality(r[c])
    PROVE  /\ Cardinality(UNION {{c} \X r[c] : c \in S}) \in Nat
           /\ Cardinality(Units(m)) \in Nat /\ Cardinality(Units(n)) \in Nat
           /\ Cardinality(Units(m))
                <= Cardinality(Units(n)) + Cardinality(UNION {{c} \X r[c] : c \in S})
<1> DEFINE room == UNION {{c} \X r[c] : c \in S}
           extra == Units(m) \ Units(n)
           b == [c \in S |-> CHOOSE f : f \in Bijection(1..Cardinality(r[c]), r[c])]
           h == [q \in extra |-> <<q[1], b[q[1]][q[2] - n[q[1]]]>>]
<1>1. IsFiniteSet(room) /\ Cardinality(room) \in Nat
  <2> DEFINE f == [c \in S |-> {c} \X r[c]]
             P == {{c} \X r[c] : c \in S}
  <2>1. f \in Surjection(S, P)
    BY DEF Surjection
  <2>2. IsFiniteSet(P)
    <3> HIDE DEF f, P
    <3> QED
      BY <2>1, FS_Surjection
  <2>3. \A c \in S : IsFiniteSet({c} \X r[c])
    <3> TAKE c \in S
    <3> DEFINE U == {c}
    <3>1. IsFiniteSet(U)
      BY FS_Singleton
    <3> HIDE DEF U
    <3>2. IsFiniteSet(U \X r[c])
      BY <3>1, FS_Product
    <3>3. QED
      BY <3>2 DEF U
  <2>4. \A T \in P : IsFiniteSet(T)
    BY <2>3
  <2>5. IsFiniteSet(UNION P)
    <3> HIDE DEF P
    <3> QED
      BY <2>2, <2>4, FS_UNION
  <2>6. QED
    BY <2>5, FS_CardinalityType
<1>2. /\ IsFiniteSet(Units(m)) /\ Cardinality(Units(m)) \in Nat
      /\ IsFiniteSet(Units(n)) /\ Cardinality(Units(n)) \in Nat
  BY UnitsAreFinite
<1>3. ASSUME NEW c \in S
      PROVE  /\ Cardinality(r[c]) \in Nat /\ b[c] \in [1..Cardinality(r[c]) -> r[c]]
             /\ \A i, j \in 1..Cardinality(r[c]) : b[c][i] = b[c][j] => i = j
  <2>1. Cardinality(r[c]) \in Nat /\ ExistsBijection(1..Cardinality(r[c]), r[c])
    BY FS_CardinalityType
  <2>2. b[c] \in Bijection(1..Cardinality(r[c]), r[c])
    BY <2>1 DEF ExistsBijection
  <2> HIDE DEF b
  <2>3. QED
    BY <2>1, <2>2 DEF Bijection, Injection, IsInjective
<1> HIDE DEF b
<1>4. ASSUME NEW q \in extra
      PROVE  /\ q = <<q[1], q[2]>> /\ q[1] \in S /\ q[2] \in Int
             /\ q[2] - n[q[1]] \in 1..Cardinality(r[q[1]])
  <2>1. PICK c \in S : q \in {c} \X (1..m[c])
    BY DEF Units
  <2>2. q = <<c, q[2]>> /\ q[1] = c /\ q[2] \in 1..m[c]
    BY <2>1
  <2>3. q[2] \notin 1..n[c]
    <3>1. SUFFICES ASSUME q[2] \in 1..n[c] PROVE q \in Units(n)
      BY DEF extra
    <3>2. q \in {c} \X (1..n[c])
      BY <2>2, <3>1
    <3>3. QED
      BY <3>2 DEF Units
  <2>4. m[c] \in Nat /\ n[c] \in Nat /\ Cardinality(r[c]) \in Nat /\ m[c] <= n[c] + Cardinality(r[c])
    BY <1>3
  <2>5. q[2] \in Int /\ q[2] - n[c] \in 1..Cardinality(r[c])
    BY <2>2, <2>3, <2>4
  <2>6. QED
    BY <2>2, <2>5
<1>5. h \in Injection(extra, room)
  <2>1. ASSUME NEW q \in extra PROVE <<q[1], b[q[1]][q[2] - n[q[1]]]>> \in room
    <3>1. q[1] \in S /\ b[q[1]][q[2] - n[q[1]]] \in r[q[1]]
      BY <1>3, <1>4
    <3>2. QED
      BY <3>1
  <2>2. ASSUME NEW q \in extra, NEW p \in extra, h[q] = h[p] PROVE q = p
    <3>1. q[1] = p[1] /\ b[q[1]][q[2] - n[q[1]]] = b[p[1]][p[2] - n[p[1]]]
      BY <2>2
    <3>2. /\ q = <<q[1], q[2]>> /\ q[1] \in S /\ q[2] \in Int
          /\ q[2] - n[q[1]] \in 1..Cardinality(r[q[1]])
          /\ p = <<p[1], p[2]>> /\ p[1] \in S /\ p[2] \in Int
          /\ p[2] - n[p[1]] \in 1..Cardinality(r[p[1]])
      BY <1>4
    <3> HIDE DEF h, extra
    <3>3. q[2] - n[q[1]] = p[2] - n[q[1]]
      BY <1>3, <3>1, <3>2
    <3>4. n[q[1]] \in Nat
      BY <3>2
    <3>5. q[2] = p[2]
      BY <3>2, <3>3, <3>4
    <3>6. QED
      BY <3>1, <3>2, <3>5
  <2>3. h \in [extra -> room]
    BY <2>1
  <2> HIDE DEF h, extra, room
  <2>4. QED
    BY <2>2, <2>3 DEF Injection, IsInjective
<1>6. IsFiniteSet(extra) /\ Units(m) \subseteq Units(n) \cup extra /\ Units(n) \cap extra = {}
  BY <1>2, FS_Subset
<1> HIDE DEF h, room, extra
<1>7. Cardinality(extra) <= Cardinality(room) /\ Cardinality(extra) \in Nat
  BY <1>1, <1>5, <1>6, FS_Injection, FS_CardinalityType
<1>8. /\ IsFiniteSet(Units(n) \cup extra)
      /\ Cardinality(Units(n) \cup extra) = Cardinality(Units(n)) + Cardinality(extra)
  <2>1. /\ IsFiniteSet(Units(n) \cup extra)
        /\ Cardinality(Units(n) \cup extra)
              = Cardinality(Units(n)) + Cardinality(extra) - Cardinality({})
    BY <1>2, <1>6, FS_Union
  <2>2. Cardinality({}) = 0
    BY FS_EmptySet
  <2>3. QED
    BY <1>2, <1>7, <2>1, <2>2
<1>9. Cardinality(Units(m)) <= Cardinality(Units(n) \cup extra)
  BY <1>6, <1>8, FS_Subset
<1>10. QED
  BY <1>1, <1>2, <1>7, <1>8, <1>9 DEF room

LEMMA FoldedIsFinite ==
    ASSUME TypeOK
    PROVE  IsFiniteSet(folded) /\ Reports \in [folded -> Nat]
<1>1. IsFiniteSet(folded)
  BY FS_Subset DEF TypeOK, Children
<1>2. \A c \in folded : child[c].usage \in Nat
  BY TypeParts DEF CStates
<1>3. QED
  BY <1>1, <1>2 DEF Reports

LEMMA TotalStaysKept ==
    ASSUME TypeOK, ChildrenAreSound, LogIsKept, TotalIsKept, [Next]_vars
    PROVE  TotalIsKept'
<1>1. (\A d \in folded : child[d].work = "returned") /\ total = Cardinality(Units(Reports))
  BY DEF TotalIsKept
<1>2. CASE UNCHANGED vars
  BY <1>1, <1>2 DEF vars, TotalIsKept, Reports
<1>3. ASSUME NEW c \in Children, Folds(c) PROVE TotalIsKept'
  <2>1. /\ child' = child /\ folded' = folded \cup {c} /\ c \notin folded
        /\ total' = total + child[c].usage /\ child[c].work = "returned"
    BY <1>3 DEF Folds
  <2>2. IsFiniteSet(folded) /\ Reports \in [folded -> Nat]
    BY FoldedIsFinite
  <2>3. child[c].usage \in Nat
    BY TypeParts DEF CStates
  <2>4. Reports' = [d \in folded \cup {c} |-> child[d].usage]
    BY <2>1 DEF Reports
  <2>5. /\ Reports' \in [folded \cup {c} -> Nat] /\ Reports'[c] = child[c].usage
        /\ \A d \in folded : Reports'[d] = Reports[d]
    BY <2>2, <2>3, <2>4 DEF Reports
  <2>6. Cardinality(Units(Reports')) = Cardinality(Units(Reports)) + Reports'[c]
    <3> DEFINE S == folded
               n == Reports
               m == Reports'
    <3>1. /\ IsFiniteSet(S) /\ n \in [S -> Nat] /\ c \notin S
          /\ m \in [S \cup {c} -> Nat] /\ \A d \in S : m[d] = n[d]
      BY <2>1, <2>2, <2>5
    <3> HIDE DEF S, n, m
    <3>2. Cardinality(Units(m)) = Cardinality(Units(n)) + m[c]
      BY <3>1, UnitsOfOneMore
    <3>3. QED
      BY <3>2 DEF n, m
  <2>7. total' = Cardinality(Units(Reports'))
    BY <1>1, <2>1, <2>5, <2>6
  <2>8. \A d \in folded' : child'[d].work = "returned"
    BY <1>1, <2>1
  <2>9. QED
    BY <2>7, <2>8 DEF TotalIsKept
<1>4. ASSUME NEW c \in Children, NEW x, Keeps(c, x),
             child[c].work = "returned" => x.usage = child[c].usage /\ x.work = "returned"
      PROVE  TotalIsKept'
  <2>1. \A d \in Children : child'[d] = IF d = c THEN x ELSE child[d]
    BY <1>4, OthersStay
  <2>2. folded' = folded /\ total' = total /\ folded \subseteq Children
    BY <1>4 DEF Keeps, TypeOK
  <2>3. \A d \in folded : child'[d].usage = child[d].usage /\ child'[d].work = "returned"
    BY <1>1, <1>4, <2>1, <2>2
  <2>4. Reports' = Reports
    BY <2>2, <2>3 DEF Reports
  <2>5. QED
    BY <1>1, <2>2, <2>3, <2>4 DEF TotalIsKept
<1>5. ASSUME NEW c \in Children, NEW x, Quiet(c, x) \/ Writes(c, x) \/ Starts(c, x) PROVE TotalIsKept'
  <2>1. Keeps(c, x) /\ child[c].work # "returned"
    BY <1>5 DEF Quiet, Writes, Starts, AtWork
  <2>2. QED
    BY <1>4, <2>1
<1>6. ASSUME NEW c \in Children, NEW x, Forks(c, x) PROVE TotalIsKept'
  <2>1. Keeps(c, x) /\ x.work = child[c].work /\ x.usage = child[c].usage
    BY <1>6 DEF Forks
  <2>2. QED
    BY <1>4, <2>1
<1>7. QED
  BY <1>2, <1>3, <1>5, <1>6, KindsOfStep

-----------------------------------------------------------------------------
(* The theorems *)

LEMMA InitIInv ==
    ASSUME Init
    PROVE  IInv
<1>1. Unstarted \in CStates /\ Sound(Unstarted)
  <2>1. 0 \in 0..MaxBatch /\ 0 \in Nat /\ 0 \in Pids \cup {0}
    OBVIOUS
  <2>2. Unstarted \in CStates
    BY <2>1 DEF Unstarted, CStates
  <2>3. Sound(Unstarted)
    BY <2>1 DEF Unstarted, Sound
  <2>4. QED
    BY <2>2, <2>3
<1>2. \A c \in Children : child[c] = Unstarted
  BY DEF Init
<1>3. TypeOK
  <2>1. child \in [Children -> CStates]
    BY <1>1 DEF Init
  <2>2. /\ kind \in Kinds /\ logs \in BOOLEAN /\ log \in Seq(Lines)
        /\ total \in Nat /\ folded \subseteq Children
    <3>1. kind \in Kinds /\ log = << >> /\ total = 0 /\ folded = {}
      BY DEF Init
    <3>2. logs \in (IF kind = "tracked" THEN BOOLEAN ELSE {FALSE})
      BY DEF Init
    <3>3. logs \in BOOLEAN
      BY <3>2, Zenon
    <3>4. QED
      BY <3>1, <3>3
  <2>3. QED
    BY <2>1, <2>2, TypeParts
<1>4. ChildrenAreSound
  BY <1>1, <1>2 DEF ChildrenAreSound
<1>5. LogIsKept
  <2>1. Busy = {} /\ \A c \in Children : child[c].noted = 0
    BY <1>2 DEF Busy, Unstarted
  <2>2. log = << >> /\ (logs => kind = "tracked")
    BY DEF Init
  <2>3. \A c \in Children : Cardinality(OwnLines(log, c)) = child[c].noted
    <3>1. \A c \in Children : OwnLines(log, c) = {}
      BY <2>2 DEF OwnLines
    <3>2. QED
      BY <2>1, <3>1, FS_EmptySet
  <2>4. QED
    BY <2>1, <2>2, <2>3 DEF LogIsKept
<1>6. TotalIsKept
  <2>1. folded = {} /\ total = 0
    BY DEF Init
  <2>2. Units(Reports) = {}
    BY <2>1 DEF Units, Reports
  <2>3. QED
    BY <2>1, <2>2, FS_EmptySet DEF TotalIsKept
<1>7. UsageIsTheChildsOwn
  BY <1>2 DEF UsageIsTheChildsOwn, Unstarted
<1>8. QED
  BY <1>3, <1>4, <1>5, <1>6, <1>7 DEF IInv

LEMMA NextIInv ==
    ASSUME IInv, [Next]_vars
    PROVE  IInv'
BY TypesAreKept, LogStaysKept, UsagesStayOwn, TotalStaysKept DEF IInv

\* The invariant, of every behaviour.
THEOREM IInvHolds == Spec => []IInv
<1>1. Init => IInv
  BY InitIInv
<1>2. IInv /\ [Next]_vars => IInv'
  BY NextIInv
<1>3. QED
  BY <1>1, <1>2, PTL DEF Spec

\* Children, threads, log and totals have the values the code gives them.
THEOREM EvaluationIsWellTyped == Spec => []TypeOK
<1>1. IInv => TypeOK
  BY DEF IInv
<1>2. QED
  BY <1>1, IInvHolds, PTL

\* However the children interleave, die and hand their identifiers on, a piece of
\* work reports what its own child had on record when it ended, and besides at most
\* what was logged by those that took the identifier over too early.
THEOREM UsagesAreOwn == Spec => []UsageIsTheChildsOwn
<1>1. IInv => UsageIsTheChildsOwn
  BY DEF IInv
<1>2. QED
  BY <1>1, IInvHolds, PTL

\* A result that was handed over in time is what the evaluation gets.
THEOREM NoResultIsMissed == Spec => []ResultIsNotMissed
<1>1. IInv => ResultIsNotMissed
  BY DEF IInv, ChildrenAreSound, Sound, ResultIsNotMissed
<1>2. QED
  BY <1>1, IInvHolds, PTL

\* The evaluation misses at most one batch for each child without a result, or all
\* of it without a log, and adds at most what heirs of such a child logged.
THEOREM LossesAreBounded == Spec => []LossIsBounded
<1>1. IInv => LossIsBounded
  <2> DEFINE all == [c \in Children |-> child[c].noted + child[c].answered]
             used == [c \in Children |-> child[c].usage]
             mute == {c \in Children : ~ child[c].delivered}
  <2>1. SUFFICES ASSUME IInv, Done
                 PROVE  /\ total <= Cardinality(Units(all))
                                      + Cardinality(UNION {{c} \X Strays(c) : c \in mute})
                        /\ Cardinality(Units(all)) - total
                              <= IF logs THEN MaxBatch * Cardinality(mute)
                                 ELSE Cardinality({u \in Units(all) : u[1] \in mute})
    BY DEF LossIsBounded
  <2>2. TypeOK /\ ChildrenAreSound /\ TotalIsKept /\ UsageIsTheChildsOwn
    BY <2>1 DEF IInv
  <2>3. ASSUME NEW c \in Children
        PROVE  /\ child[c].noted \in Nat /\ child[c].answered \in 0..MaxBatch /\ child[c].usage \in Nat
               /\ child[c].delivered => child[c].answered = 0 /\ child[c].usage = child[c].noted
               /\ logs => /\ child[c].noted <= child[c].usage
                          /\ child[c].usage <= child[c].noted + Cardinality(Strays(c))
               /\ ~logs /\ ~child[c].delivered => child[c].usage = 0
               /\ IsFiniteSet(Strays(c)) /\ Cardinality(Strays(c)) \in Nat
    <3>1. child[c] \in CStates /\ Sound(child[c]) /\ child[c].work = "returned"
      BY <2>1, <2>2, TypeParts DEF ChildrenAreSound, TotalIsKept, Done
    <3>2. IF child[c].delivered \/ logs
          THEN /\ child[c].noted <= child[c].usage
               /\ child[c].usage <= child[c].noted + Cardinality(Strays(c))
               /\ child[c].delivered => child[c].usage = child[c].noted
          ELSE child[c].usage = 0
      BY <2>2, <3>1 DEF UsageIsTheChildsOwn
    <3>3. Strays(c) = StraysIn(log, c) /\ log \in Seq(Lines) /\ child[c].from \in Nat
      BY <2>2, <3>1, TypeParts DEF Strays, StraysIn, CStates
    <3>4. IsFiniteSet(Strays(c)) /\ Cardinality(Strays(c)) \in Nat
      BY <3>3, LinesAreFinite
    <3>5. /\ child[c].noted \in Nat /\ child[c].answered \in 0..MaxBatch /\ child[c].usage \in Nat
          /\ child[c].delivered \in BOOLEAN /\ (child[c].delivered => child[c].answered = 0)
      BY <3>1 DEF CStates, Sound
    <3>6. QED
      BY <3>2, <3>4, <3>5
  <2>4. total = Cardinality(Units(used))
    <3>1. Reports = used
      BY <2>1 DEF Reports, Done
    <3>2. QED
      BY <2>2, <3>1 DEF TotalIsKept
  <2>5. /\ IsFiniteSet(Children) /\ used \in [Children -> Nat] /\ all \in [Children -> Nat]
        /\ IsFiniteSet(mute) /\ Cardinality(mute) \in Nat
    <3>1. IsFiniteSet(Children)
      BY DEF Children
    <3>2. IsFiniteSet(mute) /\ Cardinality(mute) \in Nat
      BY <3>1, FS_Subset, FS_CardinalityType
    <3>3. QED
      BY <2>3, <3>1, <3>2
  <2>6. IsFiniteSet({}) /\ Cardinality({}) = 0
    BY FS_EmptySet
  <2>7. total <= Cardinality(Units(all)) + Cardinality(UNION {{c} \X Strays(c) : c \in mute})
    <3> DEFINE r == [c \in Children |-> IF c \in mute THEN Strays(c) ELSE {}]
    <3>1. \A c \in Children : IsFiniteSet(r[c]) /\ used[c] <= all[c] + Cardinality(r[c])
      BY <2>3, <2>6
    <3>2. UNION {{c} \X r[c] : c \in Children} = UNION {{c} \X Strays(c) : c \in mute}
      OBVIOUS
    <3> HIDE DEF r, used, all, mute
    <3>3. Cardinality(Units(used))
             <= Cardinality(Units(all)) + Cardinality(UNION {{c} \X r[c] : c \in Children})
      BY <2>5, <3>1, UnitsWithin
    <3>4. QED
      BY <2>4, <3>2, <3>3
  <2>8. ASSUME logs PROVE Cardinality(Units(all)) - total <= MaxBatch * Cardinality(mute)
    <3> DEFINE B == 1..MaxBatch
               r == [c \in Children |-> IF c \in mute THEN B ELSE {}]
    <3>1. IsFiniteSet(B) /\ Cardinality(B) = MaxBatch
      BY FS_Interval
    <3> HIDE DEF B
    <3>2. \A c \in Children : IsFiniteSet(r[c]) /\ all[c] <= used[c] + Cardinality(r[c])
      BY <2>3, <2>6, <2>8, <3>1
    <3>3. UNION {{c} \X r[c] : c \in Children} = mute \X B
      OBVIOUS
    <3> HIDE DEF r, used, all, mute
    <3>4. /\ Cardinality(Units(all))
               <= Cardinality(Units(used)) + Cardinality(UNION {{c} \X r[c] : c \in Children})
          /\ Cardinality(Units(all)) \in Nat /\ Cardinality(Units(used)) \in Nat
          /\ Cardinality(UNION {{c} \X r[c] : c \in Children}) \in Nat
      <4>1. IsFiniteSet(Children) /\ used \in [Children -> Nat] /\ all \in [Children -> Nat]
        BY <2>5
      <4>2. QED
        BY <3>2, <4>1, UnitsWithin
    <3>5. Cardinality(mute \X B) = Cardinality(mute) * MaxBatch
      BY <2>5, <3>1, FS_Product
    <3>6. Cardinality(mute) * MaxBatch = MaxBatch * Cardinality(mute) /\ MaxBatch * Cardinality(mute) \in Nat
      BY <2>5
    <3>7. QED
      <4> DEFINE a == Cardinality(Units(all))
                 k == MaxBatch * Cardinality(mute)
      <4>1. a <= total + k /\ a \in Nat /\ total \in Nat /\ k \in Nat
        BY <2>4, <3>3, <3>4, <3>5, <3>6
      <4> HIDE DEF a, k
      <4>2. a - total <= k
        BY <4>1
      <4>3. QED
        BY <4>2 DEF a, k
  <2>9. ASSUME ~logs
        PROVE  Cardinality(Units(all)) - total <= Cardinality({u \in Units(all) : u[1] \in mute})
    <3> DEFINE r == [c \in Children |-> IF c \in mute THEN 1..all[c] ELSE {}]
               part == {u \in Units(all) : u[1] \in mute}
    <3>1. ASSUME NEW c \in Children
          PROVE  IsFiniteSet(r[c]) /\ all[c] <= used[c] + Cardinality(r[c])
      <4>1. CASE c \in mute
        <5>1. all[c] \in Nat /\ used[c] = 0
          BY <2>3, <2>9, <4>1
        <5>2. IsFiniteSet(1..all[c]) /\ Cardinality(1..all[c]) = all[c]
          <6> DEFINE k == all[c]
          <6> HIDE DEF k
          <6>1. k \in Nat /\ k \in Int
            BY <5>1 DEF k
          <6>2. IsFiniteSet(1..k) /\ Cardinality(1..k) = k
            BY <6>1, FS_Interval
          <6>3. QED
            BY <6>2 DEF k
        <5>3. r[c] = 1..all[c]
          BY <4>1
        <5> HIDE DEF r, all, used
        <5>4. QED
          BY <5>1, <5>2, <5>3
      <4>2. CASE c \notin mute
        BY <2>3, <2>6, <4>2
      <4>3. QED
        BY <4>1, <4>2
    <3>2. UNION {{c} \X r[c] : c \in Children} = part
      <4>1. mute \subseteq Children
        OBVIOUS
      <4>2. Units(all) = UNION {{c} \X (1..all[c]) : c \in Children}
        BY DEF Units
      <4> HIDE DEF all, mute
      <4>3. QED
        BY <4>1, <4>2
    <3> HIDE DEF r, used, all, mute, part
    <3>3. /\ Cardinality(Units(all))
               <= Cardinality(Units(used)) + Cardinality(UNION {{c} \X r[c] : c \in Children})
          /\ Cardinality(Units(all)) \in Nat /\ Cardinality(Units(used)) \in Nat
          /\ Cardinality(UNION {{c} \X r[c] : c \in Children}) \in Nat
      <4>1. IsFiniteSet(Children) /\ used \in [Children -> Nat] /\ all \in [Children -> Nat]
        BY <2>5
      <4>2. QED
        BY <3>1, <4>1, UnitsWithin
    <3>4. Cardinality(Units(all)) - total <= Cardinality(part)
      <4> DEFINE a == Cardinality(Units(all))
                 k == Cardinality(part)
      <4>1. a <= total + k /\ a \in Nat /\ total \in Nat /\ k \in Nat
        BY <2>4, <3>2, <3>3
      <4> HIDE DEF a, k
      <4>2. a - total <= k
        BY <4>1
      <4>3. QED
        BY <4>2 DEF a, k
    <3>5. QED
      BY <3>4 DEF part
  <2>10. QED
    <3> HIDE DEF all, mute
    <3> QED
      BY <2>7, <2>8, <2>9
<1>2. QED
  BY <1>1, IInvHolds, PTL

-----------------------------------------------------------------------------
(* The score.  Every entry counts for at most what it would count for had  *)
(* the piece of work run, so every mean of them, and every mean of means.  *)

LEMMA UnitsAreMonotone ==
    ASSUME NEW S, IsFiniteSet(S), NEW n \in [S -> Nat], NEW m \in [S -> Nat],
           \A x \in S : n[x] <= m[x]
    PROVE  /\ Cardinality(Units(n)) \in Nat /\ Cardinality(Units(m)) \in Nat
           /\ Cardinality(Units(n)) <= Cardinality(Units(m))
<1>1. /\ IsFiniteSet(Units(m)) /\ Cardinality(Units(m)) \in Nat
      /\ Cardinality(Units(n)) \in Nat
  BY UnitsAreFinite
<1>2. Units(n) \subseteq Units(m)
  <2> SUFFICES ASSUME NEW x \in S, NEW u \in 1..n[x] PROVE u \in 1..m[x]
    BY DEF Units
  <2>1. n[x] \in Nat /\ m[x] \in Nat /\ n[x] <= m[x]
    OBVIOUS
  <2>2. QED
    BY <2>1
<1>3. QED
  BY <1>1, <1>2, FS_Subset

LEMMA QuotientIsMonotone ==
    ASSUME NEW a \in Nat, NEW b \in Nat, NEW n \in Nat, n > 0, a <= b
    PROVE  a \div n \in Nat /\ b \div n \in Nat /\ a \div n <= b \div n
OBVIOUS

\* Entries e and h of the pieces of work, h at least as good as e everywhere.
Entries == [Children -> {Failed, 0, 1}]
Improves(e, h) == \A d \in Children : e[d] = h[d] \/ e[d] = Failed

LEMMA MeanIsMonotone ==
    ASSUME NEW e \in Entries, NEW h \in Entries, Improves(e, h), NEW cs \in SUBSET Children
    PROVE  MeanOver(e, cs) \in Nat /\ MeanOver(h, cs) \in Nat /\ MeanOver(e, cs) <= MeanOver(h, cs)
<1>1. CASE cs = {}
  BY <1>1 DEF MeanOver
<1>2. CASE cs # {}
  <2> DEFINE n == [c \in cs |-> IF e[c] = Failed THEN 0 ELSE e[c]]
             m == [c \in cs |-> IF h[c] = Failed THEN 0 ELSE h[c]]
             a == Cardinality(Units(n))
             b == Cardinality(Units(m))
             k == Cardinality(cs)
  <2>1. n \in [cs -> Nat] /\ m \in [cs -> Nat] /\ \A c \in cs : n[c] <= m[c]
    BY DEF Entries, Failed, Improves
  <2>2. IsFiniteSet(cs) /\ k \in Nat /\ k > 0
    <3>1. IsFiniteSet(cs)
      BY FS_Subset DEF Children
    <3>2. k \in Nat /\ k # 0
      BY <1>2, <3>1, FS_CardinalityType, FS_EmptySet
    <3>3. QED
      BY <3>1, <3>2
  <2> HIDE DEF n, m
  <2>3. a \in Nat /\ b \in Nat /\ a <= b
    BY <2>1, <2>2, UnitsAreMonotone
  <2> HIDE DEF a, b, k
  <2>4. Scale * a \in Nat /\ Scale * b \in Nat /\ Scale * a <= Scale * b
    BY <2>3 DEF Scale
  <2>5. MeanOver(e, cs) = (Scale * a) \div k /\ MeanOver(h, cs) = (Scale * b) \div k
    BY <1>2 DEF MeanOver, a, b, k, n, m
  <2>6. QED
    BY <2>2, <2>4, <2>5, QuotientIsMonotone
<1>3. QED
  BY <1>1, <1>2

LEMMA CaseFilesAreFinite ==
    ASSUME NEW dev \in DevMaps, NEW split, NEW errors
    PROVE  IsFiniteSet(CaseFiles(split, dev, errors))
<1> DEFINE R == {FileOf[c] : c \in Children}
<1>1. IsFiniteSet(Children)
  BY DEF Children
<1>2. IsFiniteSet(R)
  <2> DEFINE f == [c \in Children |-> FileOf[c]]
  <2>1. f \in Surjection(Children, R)
    BY DEF Surjection
  <2> HIDE DEF f, R
  <2>2. QED
    BY <1>1, <2>1, FS_Surjection
<1>3. IsFiniteSet(Files)
  <2> HIDE DEF R
  <2>1. IsFiniteSet(R \cup LoadFailed)
    BY <1>2, FS_Union
  <2>2. QED
    BY <2>1 DEF Files, R
<1>4. IsFiniteSet(DOMAIN dev)
  OBVIOUS
<1>5. CaseFiles(split, dev, errors) \subseteq Files \/ CaseFiles(split, dev, errors) \subseteq DOMAIN dev
  BY DEF CaseFiles
<1>6. QED
  BY <1>3, <1>4, <1>5, FS_Subset

LEMMA AverageIsMonotone ==
    ASSUME NEW e \in Entries, NEW h \in Entries, Improves(e, h),
           NEW dev \in DevMaps, NEW split, NEW errors
    PROVE  AverageScore(e, split, dev, errors) <= AverageScore(h, split, dev, errors)
<1> DEFINE files == CaseFiles(split, dev, errors)
<1>1. CASE files = {}
  BY <1>1 DEF AverageScore
<1>2. CASE files # {}
  <2> DEFINE n == [f \in files |-> IF f \in errors THEN 0 ELSE Mean(e, Selected(split, dev, f))]
             m == [f \in files |-> IF f \in errors THEN 0 ELSE Mean(h, Selected(split, dev, f))]
             a == Cardinality(Units(n))
             b == Cardinality(Units(m))
             k == Cardinality(files)
  <2>1. n \in [files -> Nat] /\ m \in [files -> Nat] /\ \A f \in files : n[f] <= m[f]
    <3> HIDE DEF files
    <3>1. \A f \in files : Selected(split, dev, f) \in SUBSET Children
      BY DEF Selected, InstancesOf
    <3>2. \A f \in files : /\ Mean(e, Selected(split, dev, f)) \in Nat
                           /\ Mean(h, Selected(split, dev, f)) \in Nat
                           /\ Mean(e, Selected(split, dev, f)) <= Mean(h, Selected(split, dev, f))
      BY <3>1, MeanIsMonotone DEF Mean
    <3>3. QED
      BY <3>2
  <2>2. IsFiniteSet(files) /\ k \in Nat /\ k > 0
    <3>1. IsFiniteSet(files)
      BY CaseFilesAreFinite
    <3> HIDE DEF files
    <3>2. k \in Nat /\ k # 0
      BY <1>2, <3>1, FS_CardinalityType, FS_EmptySet
    <3>3. QED
      BY <3>1, <3>2
  <2>3. AverageScore(e, split, dev, errors) = a \div k /\ AverageScore(h, split, dev, errors) = b \div k
    BY <1>2 DEF AverageScore
  <2> HIDE DEF n, m, files
  <2>4. a \in Nat /\ b \in Nat /\ a <= b
    BY <2>1, <2>2, UnitsAreMonotone
  <2> HIDE DEF a, b, k
  <2>5. QED
    BY <2>2, <2>3, <2>4, QuotientIsMonotone
<1>3. QED
  BY <1>1, <1>2

LEMMA ChunksAreMonotone ==
    ASSUME NEW e \in Entries, NEW h \in Entries, Improves(e, h)
    PROVE  ChunksScore(e) <= ChunksScore(h)
<1>1. /\ MeanOver(e, Children) \in Nat /\ MeanOver(h, Children) \in Nat
      /\ MeanOver(e, Children) <= MeanOver(h, Children)
  BY MeanIsMonotone
<1>2. (\A c \in Children : e[c] # Failed) => \A c \in Children : h[c] # Failed
  BY DEF Improves
<1>3. QED
  BY <1>1, <1>2 DEF ChunksScore

\* What failed earns nothing it would not have earned by running, and what the
\* search was scored on is not scored again: for any number of pieces of work,
\* files and instances of them, any dev map and any failures.
THEOREM FailuresEarnNothing == Spec => []NothingIsEarnedByFailing
<1>1. TypeOK => FailuresNeverPay
  <2> SUFFICES ASSUME TypeOK, NEW c \in Children, NEW vals \in [Children -> {0, 1}]
               PROVE  LET e == [d \in Children |-> IF Ran(child[d]) THEN vals[d] ELSE Failed]
                          healed == [e EXCEPT ![c] = vals[c]]
                      IN  CASE kind = "tracked"  ->
                                  /\ \A dev \in DevMaps, split \in {"dev", "test"}, errors \in {LoadFailed, Files} :
                                        AverageScore(e, split, dev, errors)
                                            <= AverageScore(healed, split, dev, errors)
                                  /\ ChunksScore(e) <= ChunksScore(healed)
                            [] kind = "program"  -> ProgramScore(child[c], vals[c]) <= vals[c]
                            [] kind = "attempts" -> ~ Ran(child[c]) => AttemptsScore(child[c], {1, 2}) = 0
    BY DEF FailuresNeverPay
  <2> DEFINE e == [d \in Children |-> IF Ran(child[d]) THEN vals[d] ELSE Failed]
             healed == [e EXCEPT ![c] = vals[c]]
  <2>1. e \in Entries /\ healed \in Entries /\ Improves(e, healed)
    BY DEF Entries, Improves
  <2> HIDE DEF e, healed
  <2>2. \A dev \in DevMaps, split \in {"dev", "test"}, errors \in {LoadFailed, Files} :
            AverageScore(e, split, dev, errors) <= AverageScore(healed, split, dev, errors)
    BY <2>1, AverageIsMonotone
  <2>3. ChunksScore(e) <= ChunksScore(healed)
    BY <2>1, ChunksAreMonotone
  <2>4. ProgramScore(child[c], vals[c]) <= vals[c]
    <3>1. vals[c] \in {0, 1}
      OBVIOUS
    <3>2. QED
      BY <3>1 DEF ProgramScore
  <2>5. ~ Ran(child[c]) => AttemptsScore(child[c], {1, 2}) = 0
    BY DEF AttemptsScore
  <2>6. kind \in {"tracked", "program", "attempts"}
    BY DEF TypeOK
  <2>7. QED
    BY <2>2, <2>3, <2>4, <2>5, <2>6 DEF e, healed
<1>2. DevStaysOutOfTest
  BY DEF DevStaysOutOfTest, Selected
<1>3. QED
  BY <1>1, <1>2, IInvHolds, PTL DEF NothingIsEarnedByFailing, IInv
=============================================================================
