------------------------ MODULE WriteAheadLogProofs ------------------------
(***************************************************************************)
(* What the write-ahead log keeps, for any number of appending tasks, any  *)
(* file size and any bounds.                                               *)
(*                                                                         *)
(* Every step but a crash only adds files and moves entries from buffers   *)
(* to contents.  So an entry that is out of reach of the current buffer    *)
(* stays so, and a flush that is under way will have brought out whatever  *)
(* had returned when it began: that is what the invariant says of tasks    *)
(* that await one, and why the entries that return meanwhile are its only  *)
(* exception.                                                              *)
(*                                                                         *)
(* Recovery keeps the order of the appends because a file is written to    *)
(* only while it is current, or by tasks that took it up when it was: an   *)
(* append goes to a file that is no older than any that holds what had     *)
(* returned before it, and behind it (OrderInv).  The names are in the     *)
(* order of the files but for rotations that overlap.                      *)
(***************************************************************************)
EXTENDS WriteAheadLog, FiniteSetTheorems, TLAPS

In(s) == {s[i] : i \in DOMAIN s}

\* e is in some file or buffer.
Held(e) == \E f \in DOMAIN files : e \in In(files[f].content) \/ e \in In(files[f].buffer)

\* e does not depend on a flush of the current file, or is an exception.
Safe(e) ==
    \/ e \in overtaken
    \/ \E f \in DOMAIN files : e \in In(files[f].content)
    \/ \E f \in DOMAIN files : f # current /\ e \in In(files[f].buffer)

\* Where each task may be, and what it has by then
Phases ==
    /\ pc["commit"] \in {"idle", "flush", "flushed"}
    /\ pc["stop"] \in {"idle", "final", "flush", "close"}
    /\ \A a \in Appender : pc[a] # "final"
    /\ \A a \in Appender : pc[a] # "idle" => entry[a] \in 1 .. calls
    /\ status = "down" => current = 0 /\ \A t \in Task : pc[t] = "idle"
    /\ pc["stop"] # "idle" => status = "stopping"

ClosedEmpty(fs) == \A f \in DOMAIN fs : fs[f].state = "closed" => fs[f].buffer = <<>>

OpenHeld == \A f \in DOMAIN files : files[f].state = "open" => f = current \/ \E t \in Task : at[t] = f

ReturnedHeld == \A e \in returned : Held(e)

WrittenHeld ==
    \A a \in Appender : pc[a] = "written" =>
        entry[a] \in In(files[at[a]].content) \/ entry[a] \in In(files[at[a]].buffer)

\* What the tasks that await a flush, or have it behind them, can rely on
Flushes ==
    /\ event = "set" => \A e \in returned : Safe(e)
    /\ \A t \in Task : pc[t] = "flushed" => \A e \in returned : Safe(e)
    /\ \A t \in Task : pc[t] \in {"flush", "final"} =>
           \A e \in returned : Safe(e) \/ e \in In(files[at[t]].buffer)

\* A stop that began with no append running is alone with the current file.
OrderlyStop ==
    status \in {"stopping", "stopped"} /\ ending = "orderly" =>
        /\ \A t \in Task \ {"stop"} : pc[t] = "idle"
        /\ pc["stop"] # "idle" => at["stop"] = current
        /\ pc["stop"] = "close" \/ status = "stopped" => files[current].buffer = <<>>
        /\ status = "stopped" => pc["stop"] = "idle"

IInv ==
    /\ TypeOK /\ Phases
    /\ ClosedEmpty(files) /\ OpenHeld
    /\ ReturnedHeld /\ WrittenHeld /\ Flushes
    /\ OrderlyStop /\ ClosedOnlyInRotation

\* gs comes from fs by opening files and by moving entries out of buffers.
Keeps(fs, gs) ==
    \A f \in DOMAIN fs :
        /\ f \in DOMAIN gs
        /\ In(fs[f].content) \subseteq In(gs[f].content)
        /\ In(fs[f].buffer) \subseteq In(gs[f].content) \cup In(gs[f].buffer)
-----------------------------------------------------------------------------
LEMMA InConcat ==
    ASSUME NEW T, NEW s \in Seq(T), NEW u \in Seq(T)
    PROVE  In(s \o u) = In(s) \cup In(u)
<1>1. In(s \o u) \subseteq In(s) \cup In(u)
  <2> SUFFICES ASSUME NEW i \in DOMAIN (s \o u) PROVE (s \o u)[i] \in In(s) \cup In(u)
    BY DEF In
  <2>1. CASE i <= Len(s)
    BY <2>1 DEF In
  <2>2. CASE i > Len(s)
    <3>1. i - Len(s) \in DOMAIN u /\ (s \o u)[i] = u[i - Len(s)]
      BY <2>2
    <3> QED
      BY <3>1 DEF In
  <2> QED
    BY <2>1, <2>2
<1>2. In(s) \subseteq In(s \o u)
  <2> SUFFICES ASSUME NEW i \in DOMAIN s PROVE s[i] \in In(s \o u)
    BY DEF In
  <2>1. i \in DOMAIN (s \o u) /\ (s \o u)[i] = s[i]
    OBVIOUS
  <2> QED
    BY <2>1 DEF In
<1>3. In(u) \subseteq In(s \o u)
  <2> SUFFICES ASSUME NEW i \in DOMAIN u PROVE u[i] \in In(s \o u)
    BY DEF In
  <2>1. i + Len(s) \in DOMAIN (s \o u) /\ (s \o u)[i + Len(s)] = u[i]
    OBVIOUS
  <2> QED
    BY <2>1 DEF In
<1> QED
  BY <1>1, <1>2, <1>3

LEMMA InAppend ==
    ASSUME NEW T, NEW s \in Seq(T), NEW e \in T
    PROVE  In(Append(s, e)) = In(s) \cup {e}
<1>1. In(Append(s, e)) \subseteq In(s) \cup {e}
  BY DEF In
<1>2. In(s) \subseteq In(Append(s, e))
  <2> SUFFICES ASSUME NEW i \in DOMAIN s PROVE s[i] \in In(Append(s, e))
    BY DEF In
  <2>1. i \in DOMAIN Append(s, e) /\ Append(s, e)[i] = s[i]
    OBVIOUS
  <2> QED
    BY <2>1 DEF In
<1>3. e \in In(Append(s, e))
  <2>1. Len(s) + 1 \in DOMAIN Append(s, e) /\ Append(s, e)[Len(s) + 1] = e
    OBVIOUS
  <2> QED
    BY <2>1 DEF In
<1> QED
  BY <1>1, <1>2, <1>3

LEMMA InEmpty == In(<<>>) = {}
BY DEF In

\* What the operators on one file do to its entries
LEMMA FlushedFile ==
    ASSUME NEW f \in File
    PROVE  /\ Flushed(f) \in File /\ Flushed(f).buffer = <<>> /\ Flushed(f).state = f.state
           /\ In(Flushed(f).content) = In(f.content) \cup In(f.buffer)
<1>1. f.content \in Seq(Entry) /\ f.buffer \in Seq(Entry) /\ f.path \in 0 .. MaxTime
      /\ f.state \in {"open", "closed"}
  BY DEF File
<1>2. f.content \o f.buffer \in Seq(Entry) /\ <<>> \in Seq(Entry)
  BY <1>1
<1> QED
  BY <1>1, <1>2, InConcat DEF Flushed, File

LEMMA ClosedFile ==
    ASSUME NEW f \in File
    PROVE  /\ Closed(f) \in File /\ Closed(f).buffer = <<>> /\ Closed(f).state = "closed"
           /\ In(Closed(f).content) = In(f.content) \cup In(f.buffer)
<1>1. f.content \in Seq(Entry) /\ f.buffer \in Seq(Entry) /\ f.path \in 0 .. MaxTime
  BY DEF File
<1>2. f.content \o f.buffer \in Seq(Entry) /\ <<>> \in Seq(Entry)
  BY <1>1
<1> QED
  BY <1>1, <1>2, InConcat DEF Closed, File

LEMMA WrittenFile ==
    ASSUME NEW f \in File, NEW e \in Entry, NEW kept \in {f.buffer, <<>>}
    PROVE  /\ Written(f, e, kept) \in File /\ Written(f, e, kept).state = f.state
           /\ In(f.content) \subseteq In(Written(f, e, kept).content)
           /\ In(f.buffer) \subseteq In(Written(f, e, kept).content) \cup In(Written(f, e, kept).buffer)
           /\ e \in In(Written(f, e, kept).buffer)
<1> DEFINE w == Written(f, e, kept)
<1>1. f.content \in Seq(Entry) /\ f.buffer \in Seq(Entry) /\ f.path \in 0 .. MaxTime
      /\ f.state \in {"open", "closed"}
  BY DEF File
<1>2. f.content \o f.buffer \in Seq(Entry) /\ kept \in Seq(Entry) /\ Append(kept, e) \in Seq(Entry)
  <2>1. f.content \o f.buffer \in Seq(Entry)
    BY <1>1
  <2>2. kept \in Seq(Entry)
    <3>1. kept = f.buffer \/ kept = <<>>
      OBVIOUS
    <3>2. <<>> \in Seq(Entry)
      OBVIOUS
    <3> QED
      BY <1>1, <3>1, <3>2
  <2>3. Append(kept, e) \in Seq(Entry)
    BY <2>2
  <2> QED
    BY <2>1, <2>2, <2>3
<1>3. w \in File /\ w.state = f.state
  BY <1>1, <1>2 DEF Written, File
<1>4. In(w.buffer) = In(kept) \cup {e}
  <2>1. w.buffer = Append(kept, e)
    BY DEF Written
  <2> QED
    BY <1>2, <2>1, InAppend
<1>5. In(f.content) \subseteq In(w.content) /\ In(f.buffer) \subseteq In(w.content) \cup In(w.buffer)
  <2>1. CASE kept = f.buffer
    <3>1. w.content = f.content
      BY <2>1 DEF Written
    <3> QED
      BY <1>4, <2>1, <3>1
  <2>2. CASE kept # f.buffer
    <3>1. w.content = f.content \o f.buffer
      BY <2>2 DEF Written
    <3> QED
      BY <1>1, <3>1, InConcat
  <2> QED
    BY <2>1, <2>2
<1> QED
  BY <1>3, <1>4, <1>5

LEMMA OpenedFile ==
    ASSUME NEW p \in 0 .. MaxTime
    PROVE  Opened(p) \in File /\ Opened(p).state = "open" /\ Opened(p).buffer = <<>>
BY DEF Opened, File
-----------------------------------------------------------------------------
LEMMA KeepsReflexive == ASSUME NEW fs PROVE Keeps(fs, fs)
BY DEF Keeps

LEMMA KeepsTransitive ==
    ASSUME NEW fs, NEW gs, NEW hs, Keeps(fs, gs), Keeps(gs, hs)
    PROVE  Keeps(fs, hs)
<1> SUFFICES ASSUME NEW f \in DOMAIN fs
             PROVE  /\ f \in DOMAIN hs
                    /\ In(fs[f].content) \subseteq In(hs[f].content)
                    /\ In(fs[f].buffer) \subseteq In(hs[f].content) \cup In(hs[f].buffer)
  BY DEF Keeps
<1>1. /\ f \in DOMAIN gs
      /\ In(fs[f].content) \subseteq In(gs[f].content)
      /\ In(fs[f].buffer) \subseteq In(gs[f].content) \cup In(gs[f].buffer)
  BY DEF Keeps
<1>2. /\ f \in DOMAIN hs
      /\ In(gs[f].content) \subseteq In(hs[f].content)
      /\ In(gs[f].buffer) \subseteq In(hs[f].content) \cup In(hs[f].buffer)
  BY <1>1 DEF Keeps
<1> QED
  BY <1>1, <1>2

\* Replacing one file by one that has its entries keeps all.
LEMMA KeepsOneFile ==
    ASSUME NEW fs \in Seq(File), NEW f \in DOMAIN fs, NEW g \in File,
           In(fs[f].content) \subseteq In(g.content),
           In(fs[f].buffer) \subseteq In(g.content) \cup In(g.buffer)
    PROVE  /\ [fs EXCEPT ![f] = g] \in Seq(File)
           /\ Len([fs EXCEPT ![f] = g]) = Len(fs)
           /\ Keeps(fs, [fs EXCEPT ![f] = g])
<1>1. /\ [fs EXCEPT ![f] = g] \in Seq(File)
      /\ Len([fs EXCEPT ![f] = g]) = Len(fs)
  OBVIOUS
<1> QED
  BY <1>1 DEF Keeps

\* Opening a file keeps the others.
LEMMA KeepsAppend ==
    ASSUME NEW fs \in Seq(File), NEW g \in File
    PROVE  /\ Append(fs, g) \in Seq(File)
           /\ Len(Append(fs, g)) = Len(fs) + 1
           /\ Append(fs, g)[Len(fs) + 1] = g
           /\ \A f \in DOMAIN fs : f \in DOMAIN Append(fs, g) /\ Append(fs, g)[f] = fs[f]
           /\ Keeps(fs, Append(fs, g))
<1>1. /\ Append(fs, g) \in Seq(File)
      /\ Len(Append(fs, g)) = Len(fs) + 1
      /\ Append(fs, g)[Len(fs) + 1] = g
      /\ \A f \in DOMAIN fs : f \in DOMAIN Append(fs, g) /\ Append(fs, g)[f] = fs[f]
  OBVIOUS
<1> QED
  BY <1>1 DEF Keeps

\* Reclaim closes files that nobody holds, and nothing else.
LEMMA ReclaimFacts ==
    ASSUME NEW fs \in Seq(File), NEW cur, NEW held, NEW gs, gs = Reclaim(fs, cur, held)
    PROVE  /\ gs \in Seq(File) /\ Len(gs) = Len(fs) /\ DOMAIN gs = DOMAIN fs
           /\ Keeps(fs, gs)
           /\ ClosedEmpty(fs) => ClosedEmpty(gs)
           /\ \A f \in DOMAIN gs : f = cur \/ (\E t \in Task : held[t] = f) => gs[f] = fs[f]
           /\ \A f \in DOMAIN gs : gs[f].state = "open" => f = cur \/ \E t \in Task : held[t] = f
<1> DEFINE Lost(f) == fs[f].state = "open" /\ f # cur /\ \A t \in Task : held[t] # f
<1>1. DOMAIN gs = DOMAIN fs /\ \A f \in DOMAIN fs : gs[f] = IF Lost(f) THEN Closed(fs[f]) ELSE fs[f]
  BY DEF Reclaim
<1>2. \A f \in DOMAIN fs : fs[f] \in File
  OBVIOUS
<1>3. \A f \in DOMAIN fs : gs[f] \in File
  BY <1>1, <1>2, ClosedFile
<1>4. gs \in Seq(File) /\ Len(gs) = Len(fs)
  <2>1. gs = [f \in 1 .. Len(fs) |-> IF Lost(f) THEN Closed(fs[f]) ELSE fs[f]]
    BY DEF Reclaim
  <2>2. \A f \in 1 .. Len(fs) : gs[f] \in File
    BY <1>3
  <2>3. Len(fs) \in Nat
    OBVIOUS
  <2> HIDE DEF Lost
  <2> QED
    BY <2>1, <2>2, <2>3
<1>5. Keeps(fs, gs)
  <2> SUFFICES ASSUME NEW f \in DOMAIN fs
               PROVE  /\ f \in DOMAIN gs
                      /\ In(fs[f].content) \subseteq In(gs[f].content)
                      /\ In(fs[f].buffer) \subseteq In(gs[f].content) \cup In(gs[f].buffer)
    BY DEF Keeps
  <2>1. gs[f] = fs[f] \/ gs[f] = Closed(fs[f])
    BY <1>1
  <2> QED
    BY <1>1, <1>2, <2>1, ClosedFile
<1>6. ClosedEmpty(fs) => ClosedEmpty(gs)
  BY <1>1, <1>2, ClosedFile DEF ClosedEmpty
<1>7. \A f \in DOMAIN gs : f = cur \/ (\E t \in Task : held[t] = f) => gs[f] = fs[f]
  BY <1>1
<1>8. \A f \in DOMAIN gs : gs[f].state = "open" => f = cur \/ \E t \in Task : held[t] = f
  <2> SUFFICES ASSUME NEW f \in DOMAIN fs, gs[f].state = "open", f # cur, \A t \in Task : held[t] # f
               PROVE  FALSE
    BY <1>1
  <2>1. fs[f].state = "open" \/ fs[f].state = "closed"
    BY <1>2 DEF File
  <2>2. Closed(fs[f]).state = "closed"
    BY <1>2, ClosedFile
  <2> QED
    BY <1>1, <2>1, <2>2
<1> QED
  BY <1>1, <1>4, <1>5, <1>6, <1>7, <1>8
-----------------------------------------------------------------------------
\* What every step but a crash does to the files.
Step ==
    /\ files' \in Seq(File)
    /\ Keeps(files, files')
    /\ ClosedEmpty(files')
    /\ OpenHeld'
    /\ current' = current \/ current' \notin DOMAIN files
    /\ overtaken \subseteq overtaken'

Pc == {"idle", "flush", "flushed", "close", "open", "write", "written", "final"}

\* A step that ends in Await, and the types it leaves
LEMMA AwaitStep ==
    ASSUME TypeOK, NEW t \in Task, NEW what \in Pc, NEW fs \in Seq(File),
           NEW f \in 0 .. Len(fs), f = 0 <=> what \in {"idle", "open"},
           NEW cur \in 1 .. Len(fs), cur = current \/ cur \notin DOMAIN files,
           Keeps(files, fs), ClosedEmpty(fs), overtaken \subseteq overtaken',
           Await(t, what, f, fs, cur)
    PROVE  /\ Step /\ Keeps(fs, files')
           /\ Len(files') = Len(fs) /\ DOMAIN files \subseteq DOMAIN files'
           /\ current' = cur /\ files'[cur] = fs[cur] /\ (f # 0 => files'[f] = fs[f])
           /\ pc'[t] = what /\ at'[t] = f
           /\ \A u \in Task : u # t => pc'[u] = pc[u] /\ at'[u] = at[u]
           /\ pc' \in [Task -> Pc]
           /\ at' \in [Task -> 0 .. Len(files')]
           /\ \A u \in Task : at'[u] = 0 <=> pc'[u] \in {"idle", "open"}
<1>1. /\ pc' = [pc EXCEPT ![t] = what]
      /\ at' = [at EXCEPT ![t] = f]
      /\ current' = cur
      /\ files' = Reclaim(fs, cur, at')
  BY DEF Await
<1>2. /\ files \in Seq(File) /\ current \in 0 .. Len(files)
      /\ pc \in [Task -> Pc] /\ at \in [Task -> 0 .. Len(files)]
      /\ \A u \in Task : at[u] = 0 <=> pc[u] \in {"idle", "open"}
  BY DEF TypeOK, Pc
<1>3. /\ files' \in Seq(File) /\ Len(files') = Len(fs) /\ DOMAIN files' = DOMAIN fs
      /\ Keeps(fs, files')
      /\ ClosedEmpty(files')
      /\ \A g \in DOMAIN files' : g = cur \/ (\E u \in Task : at'[u] = g) => files'[g] = fs[g]
      /\ \A g \in DOMAIN files' : files'[g].state = "open" => g = cur \/ \E u \in Task : at'[u] = g
  <2> DEFINE gs == files'
             held == at'
  <2>1. gs = Reclaim(fs, cur, held)
    BY <1>1
  <2> HIDE DEF gs, held
  <2>2. /\ gs \in Seq(File) /\ Len(gs) = Len(fs) /\ DOMAIN gs = DOMAIN fs
        /\ Keeps(fs, gs)
        /\ ClosedEmpty(fs) => ClosedEmpty(gs)
        /\ \A g \in DOMAIN gs : g = cur \/ (\E u \in Task : held[u] = g) => gs[g] = fs[g]
        /\ \A g \in DOMAIN gs : gs[g].state = "open" => g = cur \/ \E u \in Task : held[u] = g
    BY <2>1, ReclaimFacts
  <2> QED
    BY <2>2 DEF gs, held
<1>4. Keeps(files, files')
  BY <1>3, KeepsTransitive
<1>5. DOMAIN files \subseteq DOMAIN files' /\ Len(files) <= Len(files')
  <2>1. DOMAIN files \subseteq DOMAIN files'
    BY <1>4 DEF Keeps
  <2> QED
    BY <1>2, <1>3, <2>1
<1>6. OpenHeld'
  BY <1>1, <1>3 DEF OpenHeld
<1>7. Step
  BY <1>1, <1>3, <1>4, <1>6 DEF Step
<1>8. /\ pc'[t] = what /\ at'[t] = f
      /\ \A u \in Task : u # t => pc'[u] = pc[u] /\ at'[u] = at[u]
  BY <1>1, <1>2
<1>9. pc' \in [Task -> Pc]
  BY <1>1, <1>2
<1>10. at' \in [Task -> 0 .. Len(files')]
  <2>1. at \in [Task -> 0 .. Len(files')]
    BY <1>2, <1>5
  <2>2. f \in 0 .. Len(files')
    BY <1>3
  <2> QED
    BY <1>1, <2>1, <2>2
<1>11. \A u \in Task : at'[u] = 0 <=> pc'[u] \in {"idle", "open"}
  BY <1>2, <1>8
<1>12. files'[cur] = fs[cur] /\ (f # 0 => files'[f] = fs[f])
  <2>1. cur \in DOMAIN files'
    BY <1>3
  <2>2. f # 0 => f \in DOMAIN files'
    BY <1>3
  <2> QED
    BY <1>3, <1>8, <2>1, <2>2
<1> QED
  BY <1>1, <1>3, <1>5, <1>7, <1>8, <1>9, <1>10, <1>11, <1>12

\* Entries stay within reach, and those a flush of the current file does not
\* concern stay so.
LEMMA Carry ==
    ASSUME TypeOK, Step
    PROVE  /\ \A e : Held(e) => Held(e)'
           /\ \A e : Safe(e) => Safe(e)'
           /\ \A f \in DOMAIN files : \A e \in In(files[f].buffer) : Safe(e)' \/ e \in In(files'[f].buffer)
           /\ current # 0 => \A e : Held(e) => Safe(e)' \/ e \in In(files'[current].buffer)
<1>1. \A f \in DOMAIN files :
          /\ f \in DOMAIN files'
          /\ In(files[f].content) \subseteq In(files'[f].content)
          /\ In(files[f].buffer) \subseteq In(files'[f].content) \cup In(files'[f].buffer)
  BY DEF Step, Keeps
<1>2. current' = current \/ current' \notin DOMAIN files
  BY DEF Step
<1>3. overtaken \subseteq overtaken'
  BY DEF Step
<1>4. ASSUME NEW e, Held(e) PROVE Held(e)'
  BY <1>1, <1>4 DEF Held
<1>5. ASSUME NEW f \in DOMAIN files, NEW e, e \in In(files[f].content) PROVE Safe(e)'
  BY <1>1, <1>5 DEF Safe
<1>6. ASSUME NEW f \in DOMAIN files, NEW e, e \in In(files[f].buffer)
      PROVE  Safe(e)' \/ e \in In(files'[f].buffer)
  BY <1>1, <1>6 DEF Safe
<1>7. ASSUME NEW f \in DOMAIN files, NEW e, e \in In(files[f].buffer), f # current PROVE Safe(e)'
  <2>1. f # current'
    BY <1>2, <1>7
  <2> QED
    BY <1>1, <1>7, <2>1 DEF Safe
<1>8. ASSUME NEW e, Safe(e) PROVE Safe(e)'
  <2>1. CASE e \in overtaken
    BY <1>3, <2>1 DEF Safe
  <2> QED
    BY <1>5, <1>7, <1>8, <2>1 DEF Safe
<1>9. ASSUME current # 0, NEW e, Held(e) PROVE Safe(e)' \/ e \in In(files'[current].buffer)
  <2>1. PICK f \in DOMAIN files : e \in In(files[f].content) \/ e \in In(files[f].buffer)
    BY <1>9 DEF Held
  <2> QED
    BY <1>5, <1>6, <1>7, <2>1
<1> QED
  BY <1>4, <1>6, <1>8, <1>9
-----------------------------------------------------------------------------
\* One task moves and nothing returns: what the flushes can rely on still holds,
\* if it does for that task.
LEMMA FlushesMove ==
    ASSUME IInv, Step, NEW t \in Task, returned' = returned,
           \A u \in Task : u # t => pc'[u] = pc[u] /\ at'[u] = at[u],
           event' = "set" => event = "set" \/ pc[t] = "flushed" \/ \A e \in returned : Safe(e)',
           pc'[t] = "flushed" => \A e \in returned : Safe(e)',
           pc'[t] \in {"flush", "final"} =>
               \/ pc[t] \in {"flush", "final"} /\ at'[t] = at[t]
               \/ current # 0 /\ at'[t] = current
    PROVE  Flushes' /\ ReturnedHeld'
<1>1. /\ \A e : Held(e) => Held(e)'
      /\ \A e : Safe(e) => Safe(e)'
      /\ \A f \in DOMAIN files : \A e \in In(files[f].buffer) : Safe(e)' \/ e \in In(files'[f].buffer)
      /\ current # 0 => \A e : Held(e) => Safe(e)' \/ e \in In(files'[current].buffer)
  BY Carry DEF IInv
<1>2. ReturnedHeld'
  BY <1>1 DEF IInv, ReturnedHeld
<1>3. event' = "set" => \A e \in returned : Safe(e)'
  BY <1>1 DEF IInv, Flushes
<1>4. \A u \in Task : pc'[u] = "flushed" => \A e \in returned : Safe(e)'
  BY <1>1 DEF IInv, Flushes
<1>5. ASSUME NEW u \in Task, pc[u] \in {"flush", "final"}, at'[u] = at[u], NEW e \in returned
      PROVE  Safe(e)' \/ e \in In(files'[at'[u]].buffer)
  <2>1. at[u] \in DOMAIN files
    BY <1>5 DEF IInv, TypeOK
  <2>2. Safe(e) \/ e \in In(files[at[u]].buffer)
    BY <1>5 DEF IInv, Flushes
  <2> QED
    BY <1>1, <1>5, <2>1, <2>2
<1>6. ASSUME NEW u \in Task, pc'[u] \in {"flush", "final"}, NEW e \in returned
      PROVE  Safe(e)' \/ e \in In(files'[at'[u]].buffer)
  <2>1. CASE pc[u] \in {"flush", "final"} /\ at'[u] = at[u]
    BY <1>5, <2>1
  <2>2. CASE u = t /\ current # 0 /\ at'[t] = current
    BY <1>1, <2>2 DEF IInv, ReturnedHeld
  <2> QED
    BY <1>6, <2>1, <2>2
<1> QED
  BY <1>2, <1>3, <1>4, <1>6 DEF Flushes

LEMMA WrittenMove ==
    ASSUME IInv, Step, NEW t \in Task,
           \A u \in Task : u # t => pc'[u] = pc[u] /\ at'[u] = at[u],
           \A a \in Appender : a # t => entry'[a] = entry[a],
           pc'[t] = "written" => \/ entry'[t] \in In(files'[at'[t]].content)
                                \/ entry'[t] \in In(files'[at'[t]].buffer)
    PROVE  WrittenHeld'
<1> SUFFICES ASSUME NEW a \in Appender, pc'[a] = "written"
             PROVE  entry'[a] \in In(files'[at'[a]].content) \/ entry'[a] \in In(files'[at'[a]].buffer)
  BY DEF WrittenHeld
<1>1. CASE a = t
  BY <1>1
<1>2. CASE a # t
  <2>1. a \in Task /\ pc[a] = "written" /\ at'[a] = at[a] /\ entry'[a] = entry[a]
    BY <1>2 DEF Task
  <2>2. at[a] \in DOMAIN files
    BY <2>1 DEF IInv, TypeOK
  <2>3. entry[a] \in In(files[at[a]].content) \/ entry[a] \in In(files[at[a]].buffer)
    BY <2>1 DEF IInv, WrittenHeld
  <2> QED
    BY <2>1, <2>2, <2>3 DEF Step, Keeps
<1> QED
  BY <1>1, <1>2

\* In an orderly stop no other task moves.
LEMMA OrderlyMove ==
    ASSUME IInv, NEW t \in Task \ {"stop"}, pc[t] # "idle" \/ status = "up",
           status' = status, ending' = ending
    PROVE  OrderlyStop'
BY DEF IInv, OrderlyStop

\* The current file stays as it is, or is replaced by an open one, or there is a
\* rotation to blame.
LEMMA ClosedMove ==
    ASSUME IInv, NEW t \in Task, status' = "up" => status = "up",
           \A u \in Task : u # t => pc'[u] = pc[u],
           wounded \subseteq wounded',
           \/ files'[current'].state # "closed"
           \/ t \in Appender /\ pc'[t] = "open"
           \/ current' \in wounded'
           \/ current' = current /\ files'[current].state = files[current].state /\ pc[t] # "open"
    PROVE  ClosedOnlyInRotation'
<1> SUFFICES ASSUME status' = "up", files'[current'].state = "closed"
             PROVE  (\E a \in Appender : pc'[a] = "open") \/ current' \in wounded'
  BY DEF ClosedOnlyInRotation
<1>1. CASE current' = current /\ files'[current].state = files[current].state /\ pc[t] # "open"
  <2>1. CASE current \in wounded
    BY <1>1, <2>1
  <2>2. CASE \E a \in Appender : pc[a] = "open"
    BY <1>1, <2>2 DEF Task
  <2> QED
    BY <1>1, <2>1, <2>2 DEF IInv, ClosedOnlyInRotation
<1> QED
  BY <1>1

LEMMA InitIInv == Init => IInv
<1> SUFFICES ASSUME Init PROVE IInv
  OBVIOUS
<1>1. Opened(0) \in File /\ Opened(0).state = "open" /\ Opened(0).buffer = <<>>
  BY BoundAssumption, OpenedFile
<1>2. /\ files \in Seq(File) /\ DOMAIN files = {1} /\ Len(files) = 1
      /\ \A f \in DOMAIN files : files[f] = Opened(0)
  BY <1>1 DEF Init
<1>3. TypeOK
  BY <1>2, BoundAssumption DEF Init, TypeOK
<1>4. Phases
  BY DEF Init, Phases, Task
<1>5. ClosedEmpty(files) /\ OpenHeld
  BY <1>1, <1>2 DEF Init, ClosedEmpty, OpenHeld
<1>6. ReturnedHeld /\ WrittenHeld /\ Flushes
  BY DEF Init, ReturnedHeld, WrittenHeld, Flushes, Task
<1>7. OrderlyStop /\ ClosedOnlyInRotation
  BY <1>1, <1>2 DEF Init, OrderlyStop, ClosedOnlyInRotation
<1> QED
  BY <1>3, <1>4, <1>5, <1>6, <1>7 DEF IInv
-----------------------------------------------------------------------------
\* While a task is at work there is a process, and its file objects are there.
LEMMA AtWork ==
    ASSUME IInv
    PROVE  /\ files \in Seq(File) /\ ClosedEmpty(files)
           /\ \A f \in DOMAIN files : files[f] \in File
           /\ \A t \in Task : pc[t] # "idle" => status # "down"
           /\ status # "down" => current \in 1 .. Len(files) /\ current \in DOMAIN files
           /\ \A t \in Task : pc[t] \notin {"idle", "open"} => at[t] \in 1 .. Len(files) /\ at[t] \in DOMAIN files
           /\ \A a \in Appender : a \in Task \ {"stop"} /\ a # "commit"
           /\ "commit" \in Task \ {"stop"} /\ "stop" \in Task
BY AppenderAssumption DEF IInv, TypeOK, Phases, Task

LEMMA CallAppendKeepsIInv ==
    ASSUME IInv, NEW a \in Appender, CallAppend(a)
    PROVE  IInv'
<1> DEFINE what == pc'[a]
<1>1. /\ status = "up" /\ pc[a] = "idle" /\ calls < MaxCalls
      /\ calls' = calls + 1
      /\ entry' = [entry EXCEPT ![a] = calls + 1]
      /\ earlier' = [earlier EXCEPT ![calls + 1] = returned]
      /\ \E w \in {"flush", "write"} : Await(a, w, current, files, current)
      /\ status' = status /\ size' = size /\ event' = event /\ path' = path /\ now' = now
      /\ cancels' = cancels /\ crashes' = crashes /\ returned' = returned
      /\ overtaken' = overtaken /\ rushed' = rushed /\ wounded' = wounded /\ ending' = ending
  BY DEF CallAppend
<1>2. PICK w \in {"flush", "write"} : Await(a, w, current, files, current)
  BY <1>1
<1>3. a \in Task \ {"stop"} /\ current \in 1 .. Len(files)
  BY <1>1, AtWork
<1>4. /\ Step
      /\ Len(files') = Len(files) /\ DOMAIN files \subseteq DOMAIN files'
      /\ current' = current /\ files'[current] = files[current]
      /\ pc'[a] = w /\ at'[a] = current
      /\ \A u \in Task : u # a => pc'[u] = pc[u] /\ at'[u] = at[u]
      /\ pc' \in [Task -> Pc]
      /\ at' \in [Task -> 0 .. Len(files')]
      /\ \A u \in Task : at'[u] = 0 <=> pc'[u] \in {"idle", "open"}
  BY <1>1, <1>2, <1>3, AtWork, AwaitStep, KeepsReflexive DEF IInv, Pc
<1>5. calls + 1 \in Entry /\ calls + 1 \in 1 .. calls' /\ calls' \in 0 .. MaxCalls
  BY <1>1, BoundAssumption DEF IInv, TypeOK, Entry
<1>6. TypeOK'
  <2>1. entry' \in [Appender -> Entry \cup {0}]
    BY <1>1, <1>5 DEF IInv, TypeOK
  <2>4. returned' \subseteq 1 .. calls'
    BY <1>1 DEF IInv, TypeOK
  <2>5. returned \subseteq Entry
    BY BoundAssumption DEF IInv, TypeOK, Entry
  <2>6. earlier' \in [Entry -> SUBSET Entry]
    BY <1>1, <2>5 DEF IInv, TypeOK
  <2>2. files' \in Seq(File) /\ current' \in 0 .. Len(files')
    BY <1>3, <1>4 DEF Step
  <2>3. rushed' \subseteq DOMAIN files' /\ wounded' \subseteq DOMAIN files'
    BY <1>1, <1>4 DEF IInv, TypeOK
  <2> QED
    BY <1>1, <1>3, <1>4, <1>5, <2>1, <2>2, <2>3, <2>4, <2>6 DEF IInv, TypeOK, Pc
<1>7. Phases'
  <2>1. \A b \in Appender : pc'[b] # "idle" => entry'[b] \in 1 .. calls'
    BY <1>1, <1>4, <1>5 DEF IInv, TypeOK, Phases, Task
  <2> QED
    BY <1>1, <1>2, <1>3, <1>4, <2>1, AtWork DEF IInv, Phases
<1>8. ClosedEmpty(files)' /\ OpenHeld'
  BY <1>4 DEF Step
<1>9. Flushes' /\ ReturnedHeld'
  BY <1>1, <1>2, <1>3, <1>4, FlushesMove
<1>10. WrittenHeld'
  BY <1>1, <1>2, <1>3, <1>4, WrittenMove DEF IInv, TypeOK
<1>11. OrderlyStop'
  BY <1>1, <1>3, OrderlyMove
<1>12. ClosedOnlyInRotation'
  BY <1>1, <1>3, <1>4, ClosedMove
<1> QED
  BY <1>6, <1>7, <1>8, <1>9, <1>10, <1>11, <1>12 DEF IInv
-----------------------------------------------------------------------------
\* Task t takes a step in which no append returns or begins and no process does.
Quiet(t, what, f, fs, cur) ==
    /\ pc[t] # "idle" \/ (status = "up" /\ t \notin Appender)
    /\ status' = status /\ size' \in Nat /\ event' \in {"set", "clear"}
    /\ now' = now /\ calls' = calls /\ cancels' \in 0 .. MaxCancels /\ crashes' = crashes
    /\ earlier' = earlier /\ returned' = returned /\ overtaken' = overtaken /\ ending' = ending
    /\ entry' \in [Appender -> Entry \cup {0}]
    /\ \A a \in Appender : entry'[a] = entry[a] \/ (a = t /\ what = "idle")
    /\ path' \in [Appender -> 0 .. MaxTime]
    /\ rushed' \subseteq 1 .. Len(fs)
    /\ wounded \subseteq wounded' /\ wounded' \subseteq 1 .. Len(fs)
    /\ event' = "set" => event = "set" \/ pc[t] = "flushed"
    /\ what = "flush" => f = current
    /\ what = "flushed" => pc[t] = "flush" /\ f = at[t] /\ fs[f].buffer = <<>>
    /\ what = "written" => entry[t] \in In(fs[f].content) \/ entry[t] \in In(fs[f].buffer)
    /\ \/ fs[cur].state # "closed"
       \/ t \in Appender /\ what = "open"
       \/ cur \in wounded'
       \/ cur = current /\ fs[cur].state = files[cur].state /\ pc[t] # "open"

LEMMA QuietKeepsIInv ==
    ASSUME IInv, NEW t \in Task \ {"stop"}, NEW what \in Pc \ {"final"},
           t = "commit" => what \in {"idle", "flush", "flushed"},
           NEW fs \in Seq(File), NEW f \in 0 .. Len(fs), f = 0 <=> what \in {"idle", "open"},
           NEW cur \in 1 .. Len(fs), cur = current \/ cur \notin DOMAIN files,
           Keeps(files, fs), ClosedEmpty(fs),
           Await(t, what, f, fs, cur), Quiet(t, what, f, fs, cur)
    PROVE  IInv'
<1>0. /\ pc[t] # "idle" \/ status = "up"
      /\ status' = status /\ size' \in Nat /\ event' \in {"set", "clear"}
      /\ now' = now /\ calls' = calls /\ cancels' \in 0 .. MaxCancels /\ crashes' = crashes
      /\ earlier' = earlier /\ returned' = returned /\ overtaken' = overtaken /\ ending' = ending
  BY DEF Quiet
<1>1. /\ status # "down" /\ current \in 1 .. Len(files) /\ current # 0
      /\ \A a \in Appender : a \in Task /\ a # "commit" /\ a # "stop"
      /\ "stop" \in Task /\ "commit" \in Task
  BY <1>0, AtWork
<1>2. /\ Step
      /\ Len(files') = Len(fs) /\ DOMAIN files \subseteq DOMAIN files'
      /\ current' = cur /\ files'[cur] = fs[cur] /\ (f # 0 => files'[f] = fs[f])
      /\ pc'[t] = what /\ at'[t] = f
      /\ \A u \in Task : u # t => pc'[u] = pc[u] /\ at'[u] = at[u]
      /\ pc' \in [Task -> Pc]
      /\ at' \in [Task -> 0 .. Len(files')]
      /\ \A u \in Task : at'[u] = 0 <=> pc'[u] \in {"idle", "open"}
  <2>1. TypeOK /\ t \in Task /\ what \in Pc /\ overtaken \subseteq overtaken'
    BY <1>0 DEF IInv
  <2> QED
    BY <2>1, AwaitStep
<1>3. files' \in Seq(File) /\ DOMAIN files' = 1 .. Len(fs)
  BY <1>2 DEF Step
<1>4. TypeOK'
  <2>1. /\ entry' \in [Appender -> Entry \cup {0}]
        /\ path' \in [Appender -> 0 .. MaxTime]
        /\ rushed' \subseteq DOMAIN files'
        /\ wounded' \subseteq DOMAIN files'
    BY <1>3 DEF Quiet
  <2>2. current' \in 0 .. Len(files') /\ current' # 0
    BY <1>2
  <2> QED
    BY <1>0, <1>2, <1>3, <2>1, <2>2 DEF IInv, TypeOK, Pc
<1>5. Phases'
  <2>1. \A a \in Appender : pc'[a] # "idle" => entry'[a] \in 1 .. calls'
    <3> SUFFICES ASSUME NEW a \in Appender, pc'[a] # "idle" PROVE entry'[a] \in 1 .. calls
      BY <1>0
    <3>1. CASE a = t
      <4>1. entry'[a] = entry[a] /\ pc[a] # "idle"
        BY <1>2, <3>1 DEF Quiet
      <4> QED
        BY <4>1 DEF IInv, Phases
    <3>2. CASE a # t
      BY <1>1, <1>2, <3>2 DEF IInv, Phases, Quiet
    <3> QED
      BY <3>1, <3>2
  <2>2. /\ pc'["commit"] \in {"idle", "flush", "flushed"}
        /\ pc'["stop"] = pc["stop"]
    BY <1>1, <1>2 DEF IInv, Phases
  <2>3. \A a \in Appender : pc'[a] # "final"
    BY <1>1, <1>2 DEF IInv, Phases
  <2> QED
    BY <1>0, <1>1, <2>1, <2>2, <2>3 DEF IInv, Phases
<1>6. ClosedEmpty(files)' /\ OpenHeld'
  BY <1>2 DEF Step
<1>7. Flushes' /\ ReturnedHeld'
  <2>1. event' = "set" => event = "set" \/ pc[t] = "flushed"
    BY DEF Quiet
  <2>2. ASSUME what = "flushed", NEW e \in returned PROVE Safe(e)'
    <3>1. pc[t] = "flush" /\ f = at[t] /\ fs[f].buffer = <<>> /\ t \in Task
      BY <2>2 DEF Quiet
    <3>2. f \in DOMAIN files /\ f # 0
      BY <3>1, AtWork
    <3>3. Safe(e) \/ e \in In(files[f].buffer)
      BY <3>1 DEF IInv, Flushes
    <3>4. In(files'[f].buffer) = {}
      BY <1>2, <3>1, <3>2, InEmpty
    <3> QED
      BY <1>2, <3>2, <3>3, <3>4, Carry DEF IInv
  <2>3. what = "flush" => at'[t] = current
    BY <1>2 DEF Quiet
  <2> QED
    BY <1>0, <1>1, <1>2, <2>1, <2>2, <2>3, FlushesMove
<1>8. WrittenHeld'
  <2>1. ASSUME what = "written"
        PROVE  entry'[t] \in In(files'[at'[t]].content) \/ entry'[t] \in In(files'[at'[t]].buffer)
    <3>1. entry[t] \in In(fs[f].content) \/ entry[t] \in In(fs[f].buffer)
      BY <2>1 DEF Quiet
    <3>2. t \in Appender /\ entry'[t] = entry[t]
      BY <2>1 DEF Quiet, Task
    <3> QED
      BY <1>2, <2>1, <3>1, <3>2
  <2>2. \A a \in Appender : a # t => entry'[a] = entry[a]
    BY DEF Quiet
  <2> QED
    BY <1>2, <2>1, <2>2, WrittenMove
<1>9. OrderlyStop'
  BY <1>0, OrderlyMove
<1>10. ClosedOnlyInRotation'
  <2>1. /\ wounded \subseteq wounded'
        /\ \/ fs[cur].state # "closed"
           \/ t \in Appender /\ what = "open"
           \/ cur \in wounded'
           \/ cur = current /\ fs[cur].state = files[cur].state /\ pc[t] # "open"
    BY DEF Quiet
  <2> QED
    BY <1>0, <1>2, <2>1, ClosedMove
<1> QED
  BY <1>4, <1>5, <1>6, <1>7, <1>8, <1>9, <1>10 DEF IInv
-----------------------------------------------------------------------------
\* The files when the one that task t uses becomes g
With(t, g) == [files EXCEPT ![at[t]] = g]

\* Replacing the file a task uses by one that has its entries
LEMMA FileStep ==
    ASSUME IInv, NEW t \in Task, at[t] # 0, NEW g \in File,
           In(files[at[t]].content) \subseteq In(g.content),
           In(files[at[t]].buffer) \subseteq In(g.content) \cup In(g.buffer),
           g.state = "closed" => g.buffer = <<>>
    PROVE  /\ With(t, g) \in Seq(File) /\ Len(With(t, g)) = Len(files)
           /\ Keeps(files, With(t, g)) /\ ClosedEmpty(With(t, g))
           /\ at[t] \in 1 .. Len(files) /\ With(t, g)[at[t]] = g
           /\ \A f \in DOMAIN files : f # at[t] => With(t, g)[f] = files[f]
<1> DEFINE fs == With(t, g)
<1>1. /\ files \in Seq(File) /\ ClosedEmpty(files) /\ at[t] \in DOMAIN files /\ at[t] \in 1 .. Len(files)
  BY DEF IInv, TypeOK
<1>2. fs \in Seq(File) /\ Len(fs) = Len(files) /\ Keeps(files, fs)
  BY <1>1, KeepsOneFile DEF With
<1>3. fs[at[t]] = g /\ \A f \in DOMAIN files : f # at[t] => fs[f] = files[f]
  BY <1>1 DEF With
<1> HIDE DEF fs
<1>4. ClosedEmpty(fs)
  <2>1. DOMAIN fs = DOMAIN files
    BY <1>1, <1>2
  <2> QED
    BY <1>1, <1>3, <2>1 DEF ClosedEmpty
<1> QED
  BY <1>1, <1>2, <1>3, <1>4 DEF fs

\* What a quiet step leaves alone
LEMMA Unmoved ==
    ASSUME IInv
    PROVE  /\ size \in Nat /\ event \in {"set", "clear"} /\ cancels \in 0 .. MaxCancels
           /\ entry \in [Appender -> Entry \cup {0}] /\ path \in [Appender -> 0 .. MaxTime]
           /\ rushed \subseteq 1 .. Len(files) /\ wounded \subseteq 1 .. Len(files)
BY DEF IInv, TypeOK

LEMMA FailKeepsIInv ==
    ASSUME IInv, NEW a \in Appender, pc[a] \in {"flush", "write"}, Fail(a)
    PROVE  IInv'
<1>1. /\ a \in Task \ {"stop"} /\ a # "commit" /\ a \in Task
      /\ files \in Seq(File) /\ ClosedEmpty(files) /\ current \in 1 .. Len(files)
  BY AtWork
<1>2. Await(a, "idle", 0, files, current)
  BY DEF Fail
<1>3. Quiet(a, "idle", 0, files, current)
  BY <1>1, Unmoved DEF Fail, Quiet, bounds, ghosts
<1>4. Keeps(files, files)
  BY KeepsReflexive
<1>5. "idle" \in Pc \ {"final"} /\ 0 \in 0 .. Len(files)
  BY <1>1 DEF Pc
<1> QED
  BY <1>1, <1>2, <1>3, <1>4, <1>5, QuietKeepsIInv

LEMMA FlushKeepsIInv ==
    ASSUME IInv, NEW t \in Task \ {"stop"}, FlushFile(t, "flushed")
    PROVE  IInv'
<1> DEFINE f == at[t]
           g == Flushed(files[f])
           fs == With(t, g)
<1>1. /\ pc[t] = "flush" /\ t \in Task
      /\ Await(t, "flushed", f, fs, current)
      /\ UNCHANGED <<status, size, event, entry, path, now, bounds, ghosts>>
  BY DEF FlushFile, With
<1>2. /\ f \in 1 .. Len(files) /\ f \in DOMAIN files /\ files[f] \in File
      /\ current \in 1 .. Len(files) /\ current \in DOMAIN files /\ f # 0
  BY <1>1, AtWork
<1>3. /\ g \in File /\ g.buffer = <<>> /\ g.state = files[f].state
      /\ In(g.content) = In(files[f].content) \cup In(files[f].buffer)
  BY <1>2, FlushedFile
<1> HIDE DEF g
<1>4. /\ fs \in Seq(File) /\ Len(fs) = Len(files) /\ Keeps(files, fs) /\ ClosedEmpty(fs)
      /\ fs[f] = g /\ \A h \in DOMAIN files : h # f => fs[h] = files[h]
  BY <1>1, <1>2, <1>3, FileStep
<1> HIDE DEF fs
<1>5. fs[current].state = files[current].state /\ fs[f].buffer = <<>>
  BY <1>2, <1>3, <1>4
<1>6. Quiet(t, "flushed", f, fs, current)
  BY <1>1, <1>2, <1>4, <1>5, Unmoved DEF Quiet, bounds, ghosts
<1>7. "flushed" \in Pc \ {"final"} /\ f \in 0 .. Len(fs) /\ current \in 1 .. Len(fs)
  BY <1>2, <1>4 DEF Pc
<1> HIDE DEF f
<1> QED
  BY <1>1, <1>2, <1>4, <1>6, <1>7, QuietKeepsIInv

\* A step that only hands over the current file, or lets go of all files
LEMMA TurnKeepsIInv ==
    ASSUME IInv, NEW t \in Task \ {"stop"}, NEW what \in {"idle", "flush", "close"},
           t = "commit" => what # "close",
           NEW f \in {0, current}, f = 0 <=> what = "idle", current # 0,
           Await(t, what, f, files, current), Quiet(t, what, f, files, current)
    PROVE  IInv'
<1>1. /\ files \in Seq(File) /\ ClosedEmpty(files) /\ current \in 1 .. Len(files)
      /\ Keeps(files, files)
  BY AtWork, KeepsReflexive DEF IInv, TypeOK
<1>2. f \in 0 .. Len(files) /\ what \in Pc \ {"final"}
  BY <1>1 DEF Pc
<1> QED
  BY <1>1, <1>2, QuietKeepsIInv

LEMMA RotateFlushedKeepsIInv ==
    ASSUME IInv, NEW a \in Appender, RotateFlushed(a)
    PROVE  IInv'
<1>1. /\ pc[a] = "flushed" /\ event' = "set"
      /\ Await(a, "close", current, files, current)
      /\ UNCHANGED <<status, size, entry, path, now, bounds, ghosts>>
  BY DEF RotateFlushed
<1>2. a \in Task \ {"stop"} /\ a # "commit" /\ current \in 1 .. Len(files) /\ current # 0
  BY <1>1, AtWork
<1>3. Quiet(a, "close", current, files, current)
  BY <1>1, <1>2, Unmoved DEF Quiet, bounds, ghosts
<1> QED
  BY <1>1, <1>2, <1>3, TurnKeepsIInv

LEMMA CommitBeginKeepsIInv ==
    ASSUME IInv, CommitBegin
    PROVE  IInv'
<1>1. /\ status = "up" /\ pc["commit"] = "idle" /\ event = "clear"
      /\ Await("commit", "flush", current, files, current)
      /\ UNCHANGED <<status, size, event, entry, path, now, bounds, ghosts>>
  BY DEF CommitBegin
<1>2. "commit" \in Task \ {"stop"} /\ current \in 1 .. Len(files) /\ current # 0
  BY <1>1, AtWork
<1>3. Quiet("commit", "flush", current, files, current)
  BY <1>1, <1>2, Unmoved, AppenderAssumption DEF Quiet, bounds, ghosts
<1> QED
  BY <1>1, <1>2, <1>3, TurnKeepsIInv

LEMMA CommitEndKeepsIInv ==
    ASSUME IInv, CommitEnd
    PROVE  IInv'
<1>1. /\ pc["commit"] = "flushed" /\ event' = "set"
      /\ Await("commit", "idle", 0, files, current)
      /\ UNCHANGED <<status, size, entry, path, now, bounds, ghosts>>
  BY DEF CommitEnd
<1>2. "commit" \in Task \ {"stop"} /\ current \in 1 .. Len(files) /\ current # 0
  BY <1>1, AtWork
<1>3. Quiet("commit", "idle", 0, files, current)
  BY <1>1, <1>2, Unmoved, AppenderAssumption DEF Quiet, bounds, ghosts
<1> QED
  BY <1>1, <1>2, <1>3, TurnKeepsIInv

LEMMA RotateFlushKeepsIInv ==
    ASSUME IInv, NEW a \in Appender, RotateFlush(a)
    PROVE  IInv'
<1>1. CASE FlushFile(a, "flushed")
  BY <1>1, AtWork, FlushKeepsIInv
<1>2. CASE pc[a] = "flush" /\ Fail(a)
  BY <1>2, FailKeepsIInv
<1> QED
  BY <1>1, <1>2 DEF RotateFlush

LEMMA CommitFlushKeepsIInv ==
    ASSUME IInv, CommitFlush
    PROVE  IInv'
<1>1. CASE FlushFile("commit", "flushed")
  BY <1>1, AtWork, FlushKeepsIInv
<1>2. CASE /\ pc["commit"] = "flush" /\ files[at["commit"]].state = "closed"
           /\ Await("commit", "flushed", at["commit"], files, current)
           /\ UNCHANGED <<status, size, event, entry, path, now, bounds, ghosts>>
  <2> DEFINE f == at["commit"]
  <2>1. /\ "commit" \in Task \ {"stop"} /\ current \in 1 .. Len(files) /\ current # 0
        /\ f \in 1 .. Len(files) /\ f # 0 /\ f \in DOMAIN files
        /\ files \in Seq(File) /\ ClosedEmpty(files) /\ Keeps(files, files)
    BY <1>2, AtWork, KeepsReflexive
  <2>2. files[f].buffer = <<>>
    BY <1>2, <2>1 DEF ClosedEmpty
  <2>3. Quiet("commit", "flushed", f, files, current)
    BY <1>2, <2>1, <2>2, Unmoved, AppenderAssumption DEF Quiet, bounds, ghosts
  <2>4. "flushed" \in Pc \ {"final"} /\ f \in 0 .. Len(files)
    BY <2>1 DEF Pc
  <2>5. Await("commit", "flushed", f, files, current)
    BY <1>2
  <2> HIDE DEF f
  <2> QED
    BY <2>1, <2>3, <2>4, <2>5, QuietKeepsIInv
<1> QED
  BY <1>1, <1>2 DEF CommitFlush

LEMMA RotateCloseKeepsIInv ==
    ASSUME IInv, NEW a \in Appender, RotateClose(a)
    PROVE  IInv'
<1> DEFINE f == at[a]
           g == Closed(files[f])
           fs == With(a, g)
<1>1. /\ pc[a] = "close"
      /\ Await(a, "open", 0, fs, current)
      /\ path' = [path EXCEPT ![a] = now]
      /\ UNCHANGED <<status, size, event, entry, now, bounds, ghosts>>
  BY DEF RotateClose, With
<1>2. /\ f \in DOMAIN files /\ files[f] \in File /\ f # 0
      /\ current \in 1 .. Len(files) /\ a \in Task \ {"stop"} /\ a # "commit" /\ a \in Task
  BY <1>1, AtWork
<1>3. /\ g \in File /\ g.buffer = <<>>
      /\ In(g.content) = In(files[f].content) \cup In(files[f].buffer)
  BY <1>2, ClosedFile
<1> HIDE DEF g
<1>4. fs \in Seq(File) /\ Len(fs) = Len(files) /\ Keeps(files, fs) /\ ClosedEmpty(fs)
  BY <1>2, <1>3, FileStep
<1> HIDE DEF fs
<1>5. path' \in [Appender -> 0 .. MaxTime]
  BY <1>1 DEF IInv, TypeOK
<1>6. Quiet(a, "open", 0, fs, current)
  BY <1>1, <1>2, <1>4, <1>5, Unmoved DEF Quiet, bounds, ghosts
<1>7. "open" \in Pc \ {"final"} /\ 0 \in 0 .. Len(fs) /\ current \in 1 .. Len(fs)
  BY <1>2, <1>4 DEF Pc
<1> QED
  BY <1>1, <1>2, <1>4, <1>6, <1>7, QuietKeepsIInv

\* What opening one more file does to the files
LEMMA OpenStep ==
    ASSUME IInv, NEW a \in Appender
    PROVE  LET fs == Append(files, Opened(path[a]))
               n  == Len(files) + 1
           IN  /\ fs \in Seq(File) /\ Len(fs) = n /\ Keeps(files, fs) /\ ClosedEmpty(fs)
               /\ n \in 1 .. Len(fs) /\ n \notin DOMAIN files /\ fs[n].state = "open" /\ n # 0
               /\ Len(files) <= Len(fs)
<1> DEFINE g == Opened(path[a])
           fs == Append(files, g)
           n == Len(files) + 1
<1>1. files \in Seq(File) /\ ClosedEmpty(files) /\ path[a] \in 0 .. MaxTime
  BY DEF IInv, TypeOK
<1>2. g \in File /\ g.state = "open"
  BY <1>1, OpenedFile
<1> HIDE DEF g
<1>3. /\ fs \in Seq(File) /\ Len(fs) = n /\ fs[n] = g
      /\ \A f \in DOMAIN files : f \in DOMAIN fs /\ fs[f] = files[f]
      /\ Keeps(files, fs)
  BY <1>1, <1>2, KeepsAppend
<1> HIDE DEF fs
<1>4. n \in 1 .. Len(fs) /\ n \notin DOMAIN files /\ n # 0 /\ Len(files) <= Len(fs)
  BY <1>1, <1>3
<1>5. ClosedEmpty(fs)
  <2> SUFFICES ASSUME NEW f \in DOMAIN fs, fs[f].state = "closed" PROVE fs[f].buffer = <<>>
    BY DEF ClosedEmpty
  <2>1. f \in DOMAIN files \/ f = n
    BY <1>1, <1>3
  <2>2. f # n
    BY <1>2, <1>3
  <2> QED
    BY <1>1, <1>3, <2>1, <2>2 DEF ClosedEmpty
<1> QED
  BY <1>2, <1>3, <1>4, <1>5 DEF fs, g

LEMMA RotateOpenKeepsIInv ==
    ASSUME IInv, NEW a \in Appender, RotateOpen(a)
    PROVE  IInv'
<1> DEFINE n == Len(files) + 1
           fs == Append(files, Opened(path[a]))
<1>1. /\ pc[a] = "open"
      /\ Await(a, "write", n, fs, n)
      /\ path' = [path EXCEPT ![a] = 0]
      /\ size' = 0
      /\ rushed' \in {rushed, rushed \cup {n}}
      /\ UNCHANGED <<status, event, entry, now, bounds, earlier, returned, overtaken, wounded, ending>>
  BY DEF RotateOpen
<1>2. /\ fs \in Seq(File) /\ Len(fs) = n /\ Keeps(files, fs) /\ ClosedEmpty(fs)
      /\ n \in 1 .. Len(fs) /\ n \notin DOMAIN files /\ fs[n].state = "open" /\ n # 0
      /\ Len(files) <= Len(fs)
  BY OpenStep
<1>3. a \in Task \ {"stop"} /\ a # "commit" /\ 1 .. Len(files) \subseteq 1 .. Len(fs)
  BY <1>1, <1>2, AtWork
<1> HIDE DEF fs, n
<1>4. path' \in [Appender -> 0 .. MaxTime]
  BY <1>1, BoundAssumption DEF IInv, TypeOK
<1>5. Quiet(a, "write", n, fs, n)
  <2>1. rushed' \subseteq 1 .. Len(fs)
    BY <1>1, <1>2, <1>3, Unmoved
  <2> QED
    BY <1>1, <1>2, <1>3, <1>4, <2>1, Unmoved DEF Quiet, bounds
<1>6. "write" \in Pc \ {"final"} /\ n \in 0 .. Len(fs)
  BY <1>2 DEF Pc
<1> QED
  BY <1>1, <1>2, <1>3, <1>5, <1>6, QuietKeepsIInv

LEMMA WriteKeepsIInv ==
    ASSUME IInv, NEW a \in Appender, Write(a)
    PROVE  IInv'
<1> DEFINE f == at[a]
<1>1. pc[a] = "write"
  BY DEF Write
<1>2. /\ f \in 1 .. Len(files) /\ f \in DOMAIN files /\ files[f] \in File /\ f # 0
      /\ current \in 1 .. Len(files) /\ current \in DOMAIN files
      /\ a \in Task \ {"stop"} /\ a # "commit" /\ a \in Task
  BY <1>1, AtWork
<1>3. CASE Fail(a)
  BY <1>1, <1>3, FailKeepsIInv
<1>4. ASSUME NEW kept \in {files[f].buffer, <<>>}, files[f].state = "open",
             Await(a, "written", f, With(a, Written(files[f], entry[a], kept)), current),
             UNCHANGED <<status, size, event, entry, path, now, bounds, ghosts>>
      PROVE  IInv'
  <2> DEFINE g == Written(files[f], entry[a], kept)
             fs == With(a, g)
  <2>1. entry[a] \in Entry
    BY <1>1 DEF IInv, TypeOK, Phases, Entry
  <2>2. /\ g \in File /\ g.state = files[f].state
        /\ In(files[f].content) \subseteq In(g.content)
        /\ In(files[f].buffer) \subseteq In(g.content) \cup In(g.buffer)
        /\ entry[a] \in In(g.buffer)
    BY <1>2, <2>1, WrittenFile
  <2>3. Await(a, "written", f, fs, current)
    BY <1>4
  <2> HIDE DEF g
  <2>4. g.state # "closed"
    BY <1>4, <2>2
  <2>5. /\ fs \in Seq(File) /\ Len(fs) = Len(files) /\ Keeps(files, fs) /\ ClosedEmpty(fs)
        /\ fs[f] = g /\ \A h \in DOMAIN files : h # f => fs[h] = files[h]
    BY <1>2, <2>2, <2>4, FileStep
  <2> HIDE DEF fs
  <2>6. fs[current].state = files[current].state /\ entry[a] \in In(fs[f].buffer)
    BY <1>2, <2>2, <2>5
  <2>7. Quiet(a, "written", f, fs, current)
    BY <1>1, <1>2, <1>4, <2>5, <2>6, Unmoved DEF Quiet, bounds, ghosts
  <2>8. "written" \in Pc \ {"final"} /\ f \in 0 .. Len(fs) /\ current \in 1 .. Len(fs)
    BY <1>2, <2>5 DEF Pc
  <2> HIDE DEF f
  <2> QED
    BY <1>2, <2>3, <2>5, <2>7, <2>8, QuietKeepsIInv
<1> QED
  BY <1>3, <1>4 DEF Write, With

\* A cancelled append lets go of its file, whatever has become of it.
LEMMA LetGo ==
    ASSUME IInv, NEW a \in Appender, pc[a] # "idle", Cancel(a),
           NEW fs \in Seq(File), Keeps(files, fs), ClosedEmpty(fs), Len(files) <= Len(fs),
           Await(a, "idle", 0, fs, current),
           pc[a] \in {"close", "open"} \/ fs = files
    PROVE  IInv'
<1>1. /\ a \in Task \ {"stop"} /\ a # "commit" /\ current \in 1 .. Len(files)
      /\ 1 .. Len(files) \subseteq 1 .. Len(fs) /\ current \in 1 .. Len(fs)
      /\ files \in Seq(File)
  BY AtWork
<1>2. /\ cancels < MaxCancels /\ cancels' = cancels + 1
      /\ entry' = [entry EXCEPT ![a] = 0] /\ path' = [path EXCEPT ![a] = 0]
      /\ wounded' \in {wounded, wounded \cup {current}}
      /\ Rotating(a) => wounded' = wounded \cup {current}
      /\ UNCHANGED <<status, size, event, now, calls, crashes,
                     earlier, returned, overtaken, rushed, ending>>
  BY DEF Cancel
<1>3. cancels' \in 0 .. MaxCancels
  BY <1>2, BoundAssumption DEF IInv, TypeOK
<1>4. entry' \in [Appender -> Entry \cup {0}] /\ path' \in [Appender -> 0 .. MaxTime]
  BY <1>2, BoundAssumption DEF IInv, TypeOK
<1>5. rushed' \subseteq 1 .. Len(fs) /\ wounded \subseteq wounded' /\ wounded' \subseteq 1 .. Len(fs)
  BY <1>1, <1>2, Unmoved
<1>6. \/ current \in wounded'
      \/ fs[current].state = files[current].state /\ pc[a] # "open"
  BY <1>2 DEF Rotating
<1>7. \A b \in Appender : entry'[b] = entry[b] \/ b = a
  BY <1>2 DEF IInv, TypeOK
<1>8. Quiet(a, "idle", 0, fs, current)
  BY <1>1, <1>2, <1>3, <1>4, <1>5, <1>6, <1>7, Unmoved DEF Quiet
<1>9. "idle" \in Pc \ {"final"} /\ 0 \in 0 .. Len(fs)
  BY <1>1 DEF Pc
<1> QED
  BY <1>1, <1>8, <1>9, QuietKeepsIInv

LEMMA CancelKeepsIInv ==
    ASSUME IInv, NEW a \in Appender, Cancel(a)
    PROVE  IInv'
<1>1. /\ pc[a] # "idle" /\ a \in Task
      /\ files \in Seq(File) /\ ClosedEmpty(files) /\ Keeps(files, files) /\ Len(files) \in Nat
  BY AtWork, KeepsReflexive DEF Cancel
<1>2. CASE Await(a, "idle", 0, files, current)
  BY <1>1, <1>2, LetGo
<1>3. CASE pc[a] = "close" /\ Await(a, "idle", 0, With(a, Closed(files[at[a]])), current)
  <2> DEFINE g == Closed(files[at[a]])
             fs == With(a, g)
  <2>1. at[a] # 0 /\ files[at[a]] \in File
    BY <1>3, <1>1, AtWork
  <2>2. /\ g \in File /\ g.buffer = <<>>
        /\ In(g.content) = In(files[at[a]].content) \cup In(files[at[a]].buffer)
    BY <2>1, ClosedFile
  <2> HIDE DEF g
  <2>3. fs \in Seq(File) /\ Len(fs) = Len(files) /\ Keeps(files, fs) /\ ClosedEmpty(fs)
    BY <1>1, <2>1, <2>2, FileStep
  <2>4. Await(a, "idle", 0, fs, current)
    BY <1>3 DEF g
  <2> HIDE DEF fs
  <2> QED
    BY <1>1, <1>3, <2>3, <2>4, LetGo
<1>4. CASE pc[a] = "open" /\ Await(a, "idle", 0, Append(files, Opened(path[a])), current)
  <2> DEFINE fs == Append(files, Opened(path[a]))
  <2>1. fs \in Seq(File) /\ Keeps(files, fs) /\ ClosedEmpty(fs) /\ Len(files) <= Len(fs)
    BY OpenStep
  <2>2. Await(a, "idle", 0, fs, current)
    BY <1>4
  <2> HIDE DEF fs
  <2> QED
    BY <1>1, <1>4, <2>1, <2>2, LetGo
<1> QED
  BY <1>2, <1>3, <1>4 DEF Cancel, With

-----------------------------------------------------------------------------
LEMMA ReturnKeepsIInv ==
    ASSUME IInv, NEW a \in Appender, ReturnFromAppend(a)
    PROVE  IInv'
<1>0. PICK e : e = entry[a]
  OBVIOUS
<1> DEFINE Underway == \E t \in Task : pc[t] \in {"flush", "flushed", "final"}
<1>1. /\ pc[a] = "written"
      /\ size' = size + 1 /\ event' = "clear"
      /\ Await(a, "idle", 0, files, current)
      /\ entry' = [entry EXCEPT ![a] = 0]
      /\ returned' = returned \cup {e}
      /\ overtaken' = IF Underway THEN overtaken \cup {e} ELSE overtaken
      /\ UNCHANGED <<status, path, now, bounds, earlier, rushed, wounded, ending>>
  BY <1>0 DEF ReturnFromAppend
<1>2. /\ a \in Task \ {"stop"} /\ a # "commit" /\ a \in Task /\ status # "down"
      /\ current \in 1 .. Len(files) /\ current # 0 /\ current \in DOMAIN files
      /\ at[a] \in DOMAIN files /\ files \in Seq(File) /\ ClosedEmpty(files) /\ Keeps(files, files)
      /\ \A b \in Appender : b \in Task /\ b # "commit" /\ b # "stop"
      /\ "commit" \in Task /\ "stop" \in Task
  BY <1>1, AtWork, KeepsReflexive
<1>3. e \in 1 .. calls /\ e \in Entry
  BY <1>0, <1>1 DEF IInv, Phases, TypeOK, Entry
<1>4. overtaken \subseteq overtaken'
  BY <1>1
<1>5. /\ Step
      /\ Len(files') = Len(files) /\ DOMAIN files \subseteq DOMAIN files'
      /\ current' = current /\ files'[current] = files[current]
      /\ pc'[a] = "idle" /\ at'[a] = 0
      /\ \A u \in Task : u # a => pc'[u] = pc[u] /\ at'[u] = at[u]
      /\ pc' \in [Task -> Pc]
      /\ at' \in [Task -> 0 .. Len(files')]
      /\ \A u \in Task : at'[u] = 0 <=> pc'[u] \in {"idle", "open"}
  <2>1. "idle" \in Pc /\ 0 \in 0 .. Len(files) /\ TypeOK
    BY <1>2 DEF Pc, IInv
  <2> QED
    BY <1>1, <1>2, <1>4, <2>1, AwaitStep
<1>6. TypeOK'
  <2>1. /\ entry' \in [Appender -> Entry \cup {0}]
        /\ size' \in Nat
    BY <1>1 DEF IInv, TypeOK
  <2>4. returned' \subseteq 1 .. calls' /\ overtaken' \subseteq Entry
    BY <1>1, <1>3 DEF IInv, TypeOK, bounds
  <2>2. files' \in Seq(File) /\ current' \in 0 .. Len(files') /\ current' # 0
    BY <1>2, <1>5 DEF Step
  <2>3. rushed' \subseteq DOMAIN files' /\ wounded' \subseteq DOMAIN files'
    BY <1>1, <1>5 DEF IInv, TypeOK
  <2> QED
    BY <1>1, <1>5, <2>1, <2>2, <2>3, <2>4 DEF IInv, TypeOK, Pc, bounds
<1>7. Phases'
  <2>1. \A b \in Appender : pc'[b] # "idle" => entry'[b] \in 1 .. calls'
    BY <1>1, <1>2, <1>5 DEF IInv, TypeOK, Phases, bounds
  <2>2. /\ pc'["commit"] = pc["commit"] /\ pc'["stop"] = pc["stop"] /\ status' = status
        /\ \A b \in Appender : pc'[b] # "final"
    BY <1>1, <1>2, <1>5 DEF IInv, Phases
  <2> QED
    BY <1>2, <2>1, <2>2 DEF IInv, Phases
<1>8. ClosedEmpty(files)' /\ OpenHeld'
  BY <1>5 DEF Step
<1>9. /\ \A d : Held(d) => Held(d)'
      /\ \A d : Safe(d) => Safe(d)'
      /\ \A f \in DOMAIN files : \A d \in In(files[f].buffer) : Safe(d)' \/ d \in In(files'[f].buffer)
  BY <1>5, Carry DEF IInv
<1>10. ReturnedHeld'
  <2>1. Held(e)
    BY <1>0, <1>1, <1>2 DEF IInv, WrittenHeld, Held
  <2> QED
    BY <1>1, <1>9, <2>1 DEF IInv, ReturnedHeld
<1>11. Flushes'
  <2>1. ASSUME NEW t \in Task, pc'[t] \in {"flush", "flushed", "final"}
        PROVE  t # a /\ pc[t] = pc'[t] /\ at'[t] = at[t] /\ Safe(e)'
    <3>1. t # a /\ pc[t] = pc'[t] /\ at'[t] = at[t]
      BY <1>5, <2>1
    <3>2. e \in overtaken'
      BY <1>1, <2>1, <3>1
    <3> QED
      BY <3>1, <3>2 DEF Safe
  <2>2. ASSUME NEW t \in Task, pc'[t] = "flushed", NEW d \in returned' PROVE Safe(d)'
    BY <1>1, <1>9, <2>1, <2>2 DEF IInv, Flushes
  <2>3. ASSUME NEW t \in Task, pc'[t] \in {"flush", "final"}, NEW d \in returned'
        PROVE  Safe(d)' \/ d \in In(files'[at'[t]].buffer)
    <3>1. pc[t] \in {"flush", "final"} /\ at'[t] = at[t] /\ Safe(e)'
      BY <2>1, <2>3
    <3>2. CASE d = e
      BY <3>1, <3>2
    <3>3. CASE d \in returned
      <4>1. Safe(d) \/ d \in In(files[at[t]].buffer)
        BY <3>1, <3>3 DEF IInv, Flushes
      <4>2. at[t] \in DOMAIN files
        BY <3>1, AtWork
      <4> QED
        BY <1>9, <3>1, <4>1, <4>2
    <3> QED
      BY <1>1, <2>3, <3>2, <3>3
  <2>4. event' # "set"
    BY <1>1
  <2> QED
    BY <2>2, <2>3, <2>4 DEF Flushes
<1>12. WrittenHeld'
  <2>1. \A b \in Appender : b # a => entry'[b] = entry[b]
    BY <1>1 DEF IInv, TypeOK
  <2> QED
    BY <1>2, <1>5, <2>1, WrittenMove
<1>13. OrderlyStop'
  BY <1>1, <1>2, OrderlyMove
<1>14. ClosedOnlyInRotation'
  BY <1>1, <1>2, <1>5, ClosedMove
<1> QED
  BY <1>6, <1>7, <1>8, <1>10, <1>11, <1>12, <1>13, <1>14 DEF IInv

-----------------------------------------------------------------------------
\* What stop() leaves alone: the appends and what they have.
LEMMA AppendsStand ==
    ASSUME IInv, files' \in Seq(File), current' = current, Len(files) <= Len(files'),
           current # 0, entry' = entry, path' = path, now' = now,
           bounds' = bounds, earlier' = earlier, returned' = returned, overtaken' = overtaken,
           rushed' = rushed, wounded' = wounded, size' = size,
           status' \in {"up", "stopping", "stopped", "down"},
           event' \in {"set", "clear"}, ending' \in {"orderly", "abrupt"},
           pc' \in [Task -> Pc], at' \in [Task -> 0 .. Len(files')],
           \A u \in Task : at'[u] = 0 <=> pc'[u] \in {"idle", "open"}
    PROVE  TypeOK'
<1>1. /\ DOMAIN files \subseteq DOMAIN files' /\ current \in 0 .. Len(files')
  BY DEF IInv, TypeOK
<1>2. rushed' \subseteq DOMAIN files' /\ wounded' \subseteq DOMAIN files'
  BY <1>1 DEF IInv, TypeOK
<1> QED
  BY <1>1, <1>2 DEF IInv, TypeOK, Pc, bounds

LEMMA StopBeginKeepsIInv ==
    ASSUME IInv, StopBegin
    PROVE  IInv'
<1>1. /\ status = "up" /\ status' = "stopping"
      /\ pc' = [pc EXCEPT !["commit"] = "idle", !["stop"] = IF event = "clear" THEN "final" ELSE "flush"]
      /\ at' = [at EXCEPT !["commit"] = 0, !["stop"] = current]
      /\ files' = Reclaim(files, current, at')
      /\ ending' = IF \A a \in Appender : pc[a] = "idle" THEN "orderly" ELSE "abrupt"
      /\ UNCHANGED <<current, size, event, entry, path, now, bounds,
                     earlier, returned, overtaken, rushed, wounded>>
  BY DEF StopBegin
<1>2. /\ current \in 1 .. Len(files) /\ current # 0 /\ files \in Seq(File) /\ ClosedEmpty(files)
      /\ "commit" \in Task /\ "stop" \in Task /\ Task = Appender \cup {"commit", "stop"}
      /\ "commit" \notin Appender /\ "stop" \notin Appender
      /\ pc \in [Task -> Pc] /\ at \in [Task -> 0 .. Len(files)]
      /\ event \in {"set", "clear"}
      /\ \A u \in Task : at[u] = 0 <=> pc[u] \in {"idle", "open"}
  BY <1>1, AtWork, AppenderAssumption DEF IInv, TypeOK, Task, Pc
<1>3. /\ pc'["commit"] = "idle" /\ at'["commit"] = 0
      /\ pc'["stop"] \in {"final", "flush"} /\ at'["stop"] = current
      /\ \A a \in Appender : pc'[a] = pc[a] /\ at'[a] = at[a]
  BY <1>1, <1>2
<1>4. /\ files' \in Seq(File) /\ Len(files') = Len(files) /\ Keeps(files, files')
      /\ ClosedEmpty(files') /\ OpenHeld'
  <2> DEFINE gs == files'
             held == at'
  <2>1. gs = Reclaim(files, current, held)
    BY <1>1
  <2> HIDE DEF gs, held
  <2>2. /\ gs \in Seq(File) /\ Len(gs) = Len(files) /\ Keeps(files, gs) /\ ClosedEmpty(gs)
        /\ \A f \in DOMAIN gs : gs[f].state = "open" => f = current \/ \E t \in Task : held[t] = f
    BY <1>2, <2>1, ReclaimFacts
  <2> QED
    BY <1>1, <2>2 DEF gs, held, OpenHeld
<1>5. Step
  BY <1>1, <1>4 DEF Step
<1>6. TypeOK'
  <2>1. pc' \in [Task -> Pc]
    BY <1>1, <1>2 DEF Pc
  <2>2. at' \in [Task -> 0 .. Len(files')]
    <3>1. at \in [Task -> 0 .. Len(files')] /\ current \in 0 .. Len(files')
      BY <1>2, <1>4
    <3>2. 0 \in 0 .. Len(files')
      BY <1>2, <1>4
    <3> QED
      BY <1>1, <3>1, <3>2
  <2>3. \A u \in Task : at'[u] = 0 <=> pc'[u] \in {"idle", "open"}
    BY <1>2, <1>3
  <2>4. ending' \in {"orderly", "abrupt"}
    BY <1>1
  <2>5. Len(files) <= Len(files')
    BY <1>2, <1>4
  <2> QED
    BY <1>1, <1>2, <1>4, <2>1, <2>2, <2>3, <2>4, <2>5, AppendsStand
<1>7. Phases'
  <2>1. \A a \in Appender : pc'[a] # "final" /\ (pc'[a] # "idle" => entry'[a] \in 1 .. calls')
    BY <1>1, <1>3 DEF IInv, Phases, bounds
  <2> QED
    BY <1>1, <1>3, <2>1 DEF Phases
<1>8. /\ \A e : Held(e) => Held(e)'
      /\ \A e : Safe(e) => Safe(e)'
      /\ \A f \in DOMAIN files : \A e \in In(files[f].buffer) : Safe(e)' \/ e \in In(files'[f].buffer)
      /\ \A e : Held(e) => Safe(e)' \/ e \in In(files'[current].buffer)
  BY <1>2, <1>5, Carry DEF IInv
<1>9. ReturnedHeld'
  BY <1>1, <1>8 DEF IInv, ReturnedHeld
<1>10. Flushes'
  <2>1. event' = "set" => \A e \in returned' : Safe(e)'
    BY <1>1, <1>8 DEF IInv, Flushes
  <2>2. ASSUME NEW t \in Task, pc'[t] = "flushed", NEW e \in returned' PROVE Safe(e)'
    BY <1>1, <1>2, <1>3, <1>8, <2>2 DEF IInv, Flushes
  <2>3. ASSUME NEW t \in Task, pc'[t] \in {"flush", "final"}, NEW e \in returned'
        PROVE  Safe(e)' \/ e \in In(files'[at'[t]].buffer)
    <3>1. CASE t = "stop"
      BY <1>1, <1>3, <1>8, <2>3, <3>1 DEF IInv, ReturnedHeld
    <3>2. CASE t \in Appender
      <4>1. pc[t] \in {"flush", "final"} /\ at'[t] = at[t] /\ e \in returned
        BY <1>1, <1>3, <2>3, <3>2
      <4>2. at[t] \in DOMAIN files
        BY <4>1, AtWork
      <4>3. Safe(e) \/ e \in In(files[at[t]].buffer)
        BY <4>1 DEF IInv, Flushes
      <4> QED
        BY <1>8, <4>1, <4>2, <4>3
    <3> QED
      BY <1>2, <1>3, <2>3, <3>1, <3>2
  <2> QED
    BY <2>1, <2>2, <2>3 DEF Flushes
<1>11. WrittenHeld'
  <2> SUFFICES ASSUME NEW a \in Appender, pc'[a] = "written"
               PROVE  entry'[a] \in In(files'[at'[a]].content) \/ entry'[a] \in In(files'[at'[a]].buffer)
    BY DEF WrittenHeld
  <2>1. pc[a] = "written" /\ at'[a] = at[a] /\ entry'[a] = entry[a] /\ a \in Task
    BY <1>1, <1>2, <1>3
  <2>2. at[a] \in DOMAIN files
    BY <2>1, AtWork
  <2>3. entry[a] \in In(files[at[a]].content) \/ entry[a] \in In(files[at[a]].buffer)
    BY <2>1 DEF IInv, WrittenHeld
  <2> QED
    BY <1>4, <2>1, <2>2, <2>3 DEF Keeps
<1>12. OrderlyStop'
  BY <1>1, <1>2, <1>3 DEF OrderlyStop
<1>13. ClosedOnlyInRotation'
  BY <1>1 DEF ClosedOnlyInRotation
<1>14. ClosedEmpty(files)'
  BY <1>4
<1> QED
  BY <1>4, <1>6, <1>7, <1>9, <1>10, <1>11, <1>12, <1>13, <1>14 DEF IInv

\* A later step of stop()
LEMMA StopStep ==
    ASSUME IInv, pc["stop"] # "idle", NEW what \in {"flush", "close", "idle"},
           NEW fs \in Seq(File), Len(fs) = Len(files), Keeps(files, fs), ClosedEmpty(fs),
           NEW f \in {0, current}, f = 0 <=> what = "idle",
           Await("stop", what, f, fs, current),
           status' = IF what = "idle" THEN "stopped" ELSE status,
           event' \in {"set", "clear"}, event' = "set" => \/ event = "set"
                              \/ \A e \in returned : Safe(e) \/ \E g \in DOMAIN fs : e \in In(fs[g].content),
           what \in {"close", "idle"} => (at["stop"] = current => fs[current].buffer = <<>>),
           UNCHANGED <<size, entry, path, now, bounds, ghosts>>
    PROVE  IInv'
<1>1. /\ status = "stopping" /\ status' \in {"stopping", "stopped"}
      /\ "stop" \in Task /\ current \in 1 .. Len(files) /\ current # 0
      /\ "commit" \in Task /\ \A a \in Appender : a \in Task /\ a # "stop"
      /\ files \in Seq(File)
  BY AtWork, AppenderAssumption DEF IInv, Phases
<1>2. /\ Step /\ Keeps(fs, files')
      /\ Len(files') = Len(fs) /\ DOMAIN files \subseteq DOMAIN files'
      /\ current' = current /\ files'[current] = fs[current]
      /\ pc'["stop"] = what /\ at'["stop"] = f
      /\ \A u \in Task : u # "stop" => pc'[u] = pc[u] /\ at'[u] = at[u]
      /\ pc' \in [Task -> Pc]
      /\ at' \in [Task -> 0 .. Len(files')]
      /\ \A u \in Task : at'[u] = 0 <=> pc'[u] \in {"idle", "open"}
  <2>1. what \in Pc /\ f \in 0 .. Len(fs) /\ (f = 0 <=> what \in {"idle", "open"}) /\ TypeOK
    BY <1>1 DEF Pc, IInv
  <2>2. overtaken \subseteq overtaken' /\ current \in 1 .. Len(fs)
    BY <1>1 DEF ghosts
  <2> QED
    BY <1>1, <2>1, <2>2, AwaitStep
<1>3. /\ returned' = returned /\ entry' = entry /\ wounded' = wounded /\ ending' = ending
      /\ calls' = calls
  BY DEF ghosts, bounds
<1>4. TypeOK'
  <2>1. Len(files) <= Len(files') /\ files' \in Seq(File)
    BY <1>1, <1>2 DEF Step
  <2>2. /\ path' = path /\ now' = now /\ bounds' = bounds /\ earlier' = earlier
        /\ overtaken' = overtaken /\ rushed' = rushed /\ size' = size
    BY DEF ghosts
  <2>3. ending' \in {"orderly", "abrupt"}
    BY <1>3 DEF IInv, TypeOK
  <2> QED
    BY <1>1, <1>2, <1>3, <2>1, <2>2, <2>3, AppendsStand
<1>5. Phases'
  <2>1. \A a \in Appender : pc'[a] # "final" /\ (pc'[a] # "idle" => entry'[a] \in 1 .. calls')
    BY <1>1, <1>2, <1>3 DEF IInv, Phases
  <2>2. pc'["commit"] \in {"idle", "flush", "flushed"}
    BY <1>1, <1>2 DEF IInv, Phases
  <2> QED
    BY <1>1, <1>2, <2>1, <2>2 DEF Phases
<1>6. ClosedEmpty(files)' /\ OpenHeld'
  BY <1>2 DEF Step
<1>7. Flushes' /\ ReturnedHeld'
  <2>1. ASSUME NEW e \in returned, Safe(e) PROVE Safe(e)'
    BY <1>2, <2>1, Carry DEF IInv
  <2>2. ASSUME NEW e, NEW g \in DOMAIN fs, e \in In(fs[g].content) PROVE Safe(e)'
    BY <1>2, <2>2 DEF Keeps, Safe
  <2>3. event' = "set" => event = "set" \/ \A e \in returned : Safe(e)'
    BY <2>1, <2>2
  <2> QED
    BY <1>1, <1>2, <1>3, <2>3, FlushesMove
<1>8. WrittenHeld'
  BY <1>1, <1>2, <1>3, WrittenMove
<1>9. OrderlyStop'
  <2> SUFFICES ASSUME ending = "orderly"
               PROVE  /\ \A t \in Task \ {"stop"} : pc'[t] = "idle"
                      /\ pc'["stop"] # "idle" => at'["stop"] = current'
                      /\ pc'["stop"] = "close" \/ status' = "stopped" => files'[current'].buffer = <<>>
                      /\ status' = "stopped" => pc'["stop"] = "idle"
    BY <1>3 DEF OrderlyStop
  <2>1. (\A t \in Task \ {"stop"} : pc[t] = "idle") /\ at["stop"] = current
    BY <1>1 DEF IInv, OrderlyStop
  <2>2. what = "idle" \/ what = "close" => fs[current].buffer = <<>>
    BY <2>1
  <2>3. status' = "stopped" <=> what = "idle"
    BY <1>1
  <2> QED
    BY <1>2, <2>1, <2>2, <2>3
<1>10. ClosedOnlyInRotation'
  BY <1>1 DEF ClosedOnlyInRotation
<1> QED
  BY <1>4, <1>5, <1>6, <1>7, <1>8, <1>9, <1>10 DEF IInv

\* What a flush or close of stop()'s file does to the files
LEMMA StopFile ==
    ASSUME IInv, pc["stop"] # "idle", NEW g \in File, g.buffer = <<>>,
           In(g.content) = In(files[at["stop"]].content) \cup In(files[at["stop"]].buffer),
           at["stop"] # 0
    PROVE  LET fs == With("stop", g)
           IN  /\ fs \in Seq(File) /\ Len(fs) = Len(files) /\ Keeps(files, fs) /\ ClosedEmpty(fs)
               /\ at["stop"] = current => fs[current].buffer = <<>>
               /\ at["stop"] \in DOMAIN fs /\ fs[at["stop"]] = g
<1>1. "stop" \in Task
  BY DEF Task
<1>2. /\ With("stop", g) \in Seq(File) /\ Len(With("stop", g)) = Len(files)
      /\ Keeps(files, With("stop", g)) /\ ClosedEmpty(With("stop", g))
      /\ at["stop"] \in 1 .. Len(files) /\ With("stop", g)[at["stop"]] = g
  BY <1>1, FileStep
<1> QED
  BY <1>2

LEMMA StopFsyncKeepsIInv ==
    ASSUME IInv, StopFsync
    PROVE  IInv'
<1> DEFINE g == Flushed(files[at["stop"]])
           fs == IF files[at["stop"]].state = "open" THEN With("stop", g) ELSE files
<1>1. /\ pc["stop"] = "final" /\ event' = "set"
      /\ Await("stop", "flush", current, fs, current)
      /\ UNCHANGED <<status, size, entry, path, now, bounds, ghosts>>
  BY DEF StopFsync, With
<1>2. /\ "stop" \in Task /\ at["stop"] # 0 /\ at["stop"] \in DOMAIN files /\ files[at["stop"]] \in File
      /\ files \in Seq(File) /\ ClosedEmpty(files) /\ Keeps(files, files)
      /\ current \in 1 .. Len(files) /\ current # 0
  BY <1>1, AtWork, KeepsReflexive
<1>3. /\ g \in File /\ g.buffer = <<>>
      /\ In(g.content) = In(files[at["stop"]].content) \cup In(files[at["stop"]].buffer)
  BY <1>2, FlushedFile
<1>4. \A e \in returned : Safe(e) \/ e \in In(files[at["stop"]].buffer)
  BY <1>1, <1>2 DEF IInv, Flushes
<1> HIDE DEF g
<1>5. /\ fs \in Seq(File) /\ Len(fs) = Len(files) /\ Keeps(files, fs) /\ ClosedEmpty(fs)
      /\ \A e \in returned : Safe(e) \/ \E h \in DOMAIN fs : e \in In(fs[h].content)
  <2>1. CASE files[at["stop"]].state = "open"
    <3>1. /\ fs \in Seq(File) /\ Len(fs) = Len(files) /\ Keeps(files, fs) /\ ClosedEmpty(fs)
          /\ at["stop"] \in DOMAIN fs /\ fs[at["stop"]] = g
      BY <1>1, <1>2, <1>3, <2>1, StopFile
    <3> QED
      BY <1>3, <1>4, <3>1
  <2>2. CASE files[at["stop"]].state # "open"
    <3>1. fs = files
      BY <2>2
    <3>2. files[at["stop"]].state = "closed"
      BY <1>2, <2>2 DEF File
    <3>3. In(files[at["stop"]].buffer) = {}
      BY <1>2, <3>2, InEmpty DEF ClosedEmpty
    <3> QED
      BY <1>2, <1>4, <3>1, <3>3
  <2> QED
    BY <2>1, <2>2
<1> HIDE DEF fs
<1> QED
  BY <1>1, <1>2, <1>5, StopStep

LEMMA StopFlushKeepsIInv ==
    ASSUME IInv, StopFlush
    PROVE  IInv'
<1> DEFINE g == Flushed(files[at["stop"]])
           fs == With("stop", g)
<1>1. /\ pc["stop"] = "flush"
      /\ UNCHANGED <<size, event, entry, path, now, bounds, ghosts>>
  BY DEF StopFlush
<1>2. /\ "stop" \in Task /\ at["stop"] # 0 /\ at["stop"] \in DOMAIN files /\ files[at["stop"]] \in File
      /\ files \in Seq(File) /\ ClosedEmpty(files) /\ Keeps(files, files)
      /\ current \in 1 .. Len(files) /\ current # 0 /\ event' \in {"set", "clear"}
  BY <1>1, AtWork, KeepsReflexive DEF IInv, TypeOK
<1>3. CASE files[at["stop"]].state = "open"
  <2>1. Await("stop", "close", current, fs, current) /\ status' = status
    BY <1>3 DEF StopFlush, With
  <2>2. /\ g \in File /\ g.buffer = <<>>
        /\ In(g.content) = In(files[at["stop"]].content) \cup In(files[at["stop"]].buffer)
    BY <1>2, FlushedFile
  <2> HIDE DEF g
  <2>3. /\ fs \in Seq(File) /\ Len(fs) = Len(files) /\ Keeps(files, fs) /\ ClosedEmpty(fs)
        /\ at["stop"] = current => fs[current].buffer = <<>>
    BY <1>1, <1>2, <2>2, StopFile
  <2> HIDE DEF fs
  <2> QED
    BY <1>1, <1>2, <2>1, <2>3, StopStep
<1>4. CASE files[at["stop"]].state # "open"
  <2>1. Await("stop", "idle", 0, files, current) /\ status' = "stopped"
    BY <1>4 DEF StopFlush
  <2>2. at["stop"] = current => files[current].buffer = <<>>
    BY <1>2, <1>4 DEF ClosedEmpty, File
  <2> QED
    BY <1>1, <1>2, <2>1, <2>2, StopStep
<1> QED
  BY <1>3, <1>4

LEMMA StopCloseKeepsIInv ==
    ASSUME IInv, StopClose
    PROVE  IInv'
<1> DEFINE g == Closed(files[at["stop"]])
           fs == With("stop", g)
<1>1. /\ pc["stop"] = "close"
      /\ Await("stop", "idle", 0, fs, current) /\ status' = "stopped"
      /\ UNCHANGED <<size, event, entry, path, now, bounds, ghosts>>
  BY DEF StopClose, With
<1>2. /\ at["stop"] # 0 /\ files[at["stop"]] \in File
      /\ current \in 1 .. Len(files) /\ event' \in {"set", "clear"} /\ "stop" \in Task
  BY <1>1, AtWork DEF IInv, TypeOK
<1>3. /\ g \in File /\ g.buffer = <<>>
      /\ In(g.content) = In(files[at["stop"]].content) \cup In(files[at["stop"]].buffer)
  BY <1>2, ClosedFile
<1> HIDE DEF g
<1>4. /\ fs \in Seq(File) /\ Len(fs) = Len(files) /\ Keeps(files, fs) /\ ClosedEmpty(fs)
      /\ at["stop"] = current => fs[current].buffer = <<>>
  BY <1>1, <1>2, <1>3, StopFile
<1> HIDE DEF fs
<1> QED
  BY <1>1, <1>2, <1>4, StopStep

-----------------------------------------------------------------------------
LEMMA CrashKeepsIInv ==
    ASSUME IInv, Crash
    PROVE  IInv'
<1> DEFINE Dead(f) == [path |-> files[f].path, content |-> files[f].content, buffer |-> <<>>, state |-> "closed"]
<1>1. /\ crashes < MaxCrashes /\ crashes' = crashes + 1
      /\ status' = "down"
      /\ files' = [f \in DOMAIN files |-> Dead(f)]
      /\ pc' = [t \in Task |-> "idle"] /\ at' = [t \in Task |-> 0]
      /\ entry' = [a \in Appender |-> 0] /\ path' = [a \in Appender |-> 0]
      /\ returned' = returned \cap Durable
      /\ current' = 0 /\ size' = 0 /\ event' = "set"
      /\ wounded' = {} /\ ending' = "orderly"
      /\ now' = now /\ calls' = calls /\ cancels' = cancels
      /\ earlier' = earlier /\ overtaken' = overtaken /\ rushed' = rushed
  BY DEF Crash
<1>2. /\ "commit" \in Task /\ "stop" \in Task /\ \A a \in Appender : a \in Task
      /\ files \in Seq(File) /\ \A f \in DOMAIN files : files[f] \in File
  BY AtWork
<1>3. /\ DOMAIN files' = DOMAIN files
      /\ \A f \in DOMAIN files : /\ files'[f].content = files[f].content
                                /\ files'[f].buffer = <<>> /\ files'[f].state = "closed"
  BY <1>1
<1>4. files' \in Seq(File) /\ Len(files') = Len(files)
  <2>1. \A f \in DOMAIN files : Dead(f) \in File
    <3> SUFFICES ASSUME NEW f \in DOMAIN files PROVE Dead(f) \in File
      OBVIOUS
    <3>1. files[f].path \in 0 .. MaxTime /\ files[f].content \in Seq(Entry) /\ <<>> \in Seq(Entry)
      BY <1>2 DEF File
    <3> QED
      BY <3>1 DEF File
  <2>2. files' = [f \in 1 .. Len(files) |-> Dead(f)] /\ Len(files) \in Nat
    BY <1>1, <1>2
  <2>3. \A f \in 1 .. Len(files) : Dead(f) \in File
    BY <1>2, <2>1
  <2> HIDE DEF Dead
  <2> QED
    BY <2>2, <2>3
<1>5. TypeOK'
  <2>1. /\ rushed' \subseteq DOMAIN files' /\ wounded' \subseteq DOMAIN files'
        /\ returned' \subseteq 1 .. calls'
    BY <1>1, <1>3 DEF IInv, TypeOK
  <2>4. crashes' \in 0 .. MaxCrashes
    BY <1>1, BoundAssumption DEF IInv, TypeOK
  <2>2. /\ pc' \in [Task -> {"idle", "flush", "flushed", "close", "open", "write", "written", "final"}]
        /\ at' \in [Task -> 0 .. Len(files')]
        /\ \A t \in Task : at'[t] = 0 <=> pc'[t] \in {"idle", "open"}
    BY <1>1, <1>2, <1>4
  <2>3. /\ entry' \in [Appender -> Entry \cup {0}]
        /\ path' \in [Appender -> 0 .. MaxTime]
        /\ current' \in 0 .. Len(files')
    BY <1>1, <1>2, <1>4, BoundAssumption
  <2> QED
    BY <1>1, <1>4, <2>1, <2>2, <2>3, <2>4 DEF IInv, TypeOK
<1>6. Phases'
  BY <1>1, <1>2 DEF Phases
<1>7. ClosedEmpty(files)' /\ OpenHeld'
  BY <1>3 DEF ClosedEmpty, OpenHeld
<1>8. ASSUME NEW e \in returned' PROVE Held(e)' /\ Safe(e)'
  <2>1. PICK f \in DOMAIN files : e \in In(files[f].content)
    BY <1>1, <1>8 DEF Durable, In
  <2> QED
    BY <1>3, <2>1 DEF Held, Safe
<1>9. ReturnedHeld'
  BY <1>8 DEF ReturnedHeld
<1>10. Flushes' /\ WrittenHeld'
  BY <1>1, <1>2, <1>8 DEF Flushes, WrittenHeld
<1>11. OrderlyStop' /\ ClosedOnlyInRotation'
  BY <1>1 DEF OrderlyStop, ClosedOnlyInRotation
<1> QED
  BY <1>5, <1>6, <1>7, <1>9, <1>10, <1>11 DEF IInv

LEMMA StartKeepsIInv ==
    ASSUME IInv, Start
    PROVE  IInv'
<1> DEFINE n == Len(files) + 1
<1>1. /\ status = "down" /\ now < MaxTime /\ now' = now + 1 /\ status' = "up"
      /\ files' = Append(files, Opened(now + 1))
      /\ current' = n
      /\ UNCHANGED <<size, event, tasks, bounds, ghosts>>
  BY DEF Start
<1>2. /\ pc' = pc /\ at' = at /\ entry' = entry /\ path' = path /\ size' = size /\ event' = event
      /\ calls' = calls /\ cancels' = cancels /\ crashes' = crashes
      /\ earlier' = earlier /\ returned' = returned /\ overtaken' = overtaken
      /\ rushed' = rushed /\ wounded' = wounded /\ ending' = ending
  BY <1>1 DEF tasks, bounds, ghosts
<1>3. /\ files \in Seq(File) /\ ClosedEmpty(files) /\ now + 1 \in 0 .. MaxTime
      /\ current = 0 /\ \A t \in Task : pc[t] = "idle" /\ at[t] = 0
      /\ "commit" \in Task /\ "stop" \in Task /\ \A a \in Appender : a \in Task
  BY <1>1, BoundAssumption, AtWork DEF IInv, TypeOK, Phases
<1>4. Opened(now + 1) \in File /\ Opened(now + 1).state = "open"
  BY <1>3, OpenedFile
<1>5. /\ files' \in Seq(File) /\ Len(files') = n /\ files'[n].state = "open"
      /\ \A f \in DOMAIN files : f \in DOMAIN files' /\ files'[f] = files[f]
      /\ Keeps(files, files')
  <2> DEFINE g == Opened(now + 1)
             fs == Append(files, g)
  <2>1. files' = fs /\ g \in File /\ g.state = "open"
    BY <1>1, <1>4
  <2> HIDE DEF g
  <2>2. /\ fs \in Seq(File) /\ Len(fs) = n /\ fs[n] = g
        /\ \A f \in DOMAIN files : f \in DOMAIN fs /\ fs[f] = files[f]
        /\ Keeps(files, fs)
    BY <1>3, <2>1, KeepsAppend
  <2> HIDE DEF fs
  <2> QED
    BY <2>1, <2>2
<1>6. \A f \in DOMAIN files' : f \in DOMAIN files \/ f = n
  BY <1>3, <1>5
<1>7. n \notin DOMAIN files /\ n \in 1 .. Len(files') /\ n # 0 /\ Len(files) <= Len(files')
  BY <1>3, <1>5
<1> HIDE DEF n
<1>8. ClosedEmpty(files')
  BY <1>3, <1>5, <1>6 DEF ClosedEmpty
<1>9. OpenHeld'
  <2> SUFFICES ASSUME NEW f \in DOMAIN files', files'[f].state = "open", f # n PROVE FALSE
    BY <1>1 DEF OpenHeld
  <2>1. f \in DOMAIN files /\ files[f].state = "open"
    BY <1>5, <1>6
  <2>2. f = 0
    BY <1>3, <2>1 DEF IInv, OpenHeld
  <2> QED
    BY <1>3, <2>1, <2>2
<1>10. Step
  BY <1>1, <1>2, <1>5, <1>7, <1>8, <1>9 DEF Step
<1>11. TypeOK'
  <2>1. /\ at' \in [Task -> 0 .. Len(files')]
        /\ rushed' \subseteq DOMAIN files' /\ wounded' \subseteq DOMAIN files'
    <3>1. at \in [Task -> 0 .. Len(files)] /\ Len(files) \in Nat /\ Len(files') \in Nat
      BY <1>3, <1>5 DEF IInv, TypeOK
    <3>2. 0 .. Len(files) \subseteq 0 .. Len(files')
      BY <1>7, <3>1
    <3> QED
      BY <1>2, <1>5, <3>1, <3>2 DEF IInv, TypeOK
  <2>2. current' \in 0 .. Len(files') /\ current' # 0 /\ now' \in 0 .. MaxTime
    BY <1>1, <1>3, <1>7
  <2> QED
    BY <1>1, <1>2, <1>5, <2>1, <2>2 DEF IInv, TypeOK
<1>12. Phases'
  BY <1>1, <1>2, <1>3 DEF Phases
<1>13. \A e : (Held(e) => Held(e)') /\ (Safe(e) => Safe(e)')
  BY <1>10, Carry DEF IInv
<1>14. ReturnedHeld' /\ Flushes' /\ WrittenHeld'
  BY <1>2, <1>3, <1>13 DEF IInv, ReturnedHeld, Flushes, WrittenHeld
<1>15. OrderlyStop' /\ ClosedOnlyInRotation'
  BY <1>1, <1>5 DEF OrderlyStop, ClosedOnlyInRotation
<1> QED
  BY <1>8, <1>9, <1>11, <1>12, <1>14, <1>15 DEF IInv

\* Time passes, or nothing happens.
LEMMA IdleKeepsIInv ==
    ASSUME IInv, UNCHANGED <<status, files, current, size, event, tasks, bounds, ghosts>>,
           now' \in 0 .. MaxTime
    PROVE  IInv'
<1>1. /\ status' = status /\ files' = files /\ current' = current /\ size' = size /\ event' = event
      /\ pc' = pc /\ at' = at /\ entry' = entry /\ path' = path
      /\ calls' = calls /\ cancels' = cancels /\ crashes' = crashes
      /\ earlier' = earlier /\ returned' = returned /\ overtaken' = overtaken
      /\ rushed' = rushed /\ wounded' = wounded /\ ending' = ending
  BY DEF tasks, bounds, ghosts
<1>2. TypeOK' /\ Phases'
  BY <1>1 DEF IInv, TypeOK, Phases
<1>3. ClosedEmpty(files)' /\ OpenHeld' /\ ReturnedHeld' /\ WrittenHeld'
  BY <1>1 DEF IInv, ClosedEmpty, OpenHeld, ReturnedHeld, Held, WrittenHeld
<1>4. Flushes' /\ OrderlyStop' /\ ClosedOnlyInRotation'
  BY <1>1 DEF IInv, Flushes, Safe, OrderlyStop, ClosedOnlyInRotation
<1> QED
  BY <1>2, <1>3, <1>4 DEF IInv

LEMMA NextKeepsIInv ==
    ASSUME IInv, [Next]_vars
    PROVE  IInv'
<1>1. ASSUME NEW a \in Appender, CallAppend(a) PROVE IInv'
  BY <1>1, CallAppendKeepsIInv
<1>2. ASSUME NEW a \in Appender, Proceed(a) PROVE IInv'
  BY <1>2, RotateFlushKeepsIInv, RotateFlushedKeepsIInv, RotateCloseKeepsIInv, RotateOpenKeepsIInv,
     WriteKeepsIInv, ReturnKeepsIInv DEF Proceed
<1>3. ASSUME NEW a \in Appender, Cancel(a) PROVE IInv'
  BY <1>3, CancelKeepsIInv
<1>4. CASE Commit
  BY <1>4, CommitBeginKeepsIInv, CommitFlushKeepsIInv, CommitEndKeepsIInv DEF Commit
<1>5. CASE Stop
  BY <1>5, StopBeginKeepsIInv, StopFsyncKeepsIInv, StopFlushKeepsIInv, StopCloseKeepsIInv DEF Stop
<1>6. CASE Crash
  BY <1>6, CrashKeepsIInv
<1>7. CASE Start
  BY <1>7, StartKeepsIInv
<1>8. CASE Tick
  <2>1. now' \in 0 .. MaxTime
    BY <1>8, BoundAssumption DEF IInv, TypeOK, Tick
  <2> QED
    BY <1>8, <2>1, IdleKeepsIInv DEF Tick
<1>9. CASE UNCHANGED vars
  <2>1. now' \in 0 .. MaxTime
    BY <1>9 DEF IInv, TypeOK, vars
  <2> QED
    BY <1>9, <2>1, IdleKeepsIInv DEF vars
<1> QED
  BY <1>1, <1>2, <1>3, <1>4, <1>5, <1>6, <1>7, <1>8, <1>9 DEF Next
-----------------------------------------------------------------------------
\* How far a file can outgrow max_file_size.  current_file_size lags behind what
\* is in the current file by the writes that are done and not yet added, and a
\* task whose write is to come looked at the size before.

Used(f) == Len(f.content) + Len(f.buffer)

\* The appenders at phase w with file f, where tasks are at p and use q
Users(p, q, w, f) == {a \in Appender : p[a] = w /\ q[a] = f}

Bounded(fs, p, q, cur, sz, cn) ==
    /\ \A f \in DOMAIN fs :
           Used(fs[f]) + Cardinality(Users(p, q, "write", f)) < MaxFileSize + Cardinality(Appender) + cn
    /\ cur # 0 => Used(fs[cur]) <= sz + Cardinality(Users(p, q, "written", cur)) + cn

SizeBounded == Bounded(files, pc, at, current, size, cancels)

LEMMA UsersCount ==
    ASSUME NEW S \in SUBSET Appender
    PROVE  /\ IsFiniteSet(S) /\ Cardinality(S) \in Nat /\ Cardinality(S) <= Cardinality(Appender)
           /\ Cardinality(Appender) \in Nat
           /\ \A T \in SUBSET S : Cardinality(T) <= Cardinality(S)
           /\ \A a \in Appender \ S : Cardinality(S \cup {a}) = Cardinality(S) + 1
           /\ \A a \in S : Cardinality(S \ {a}) = Cardinality(S) - 1
           /\ \A a : Cardinality(S) <= Cardinality(S \ {a}) + 1 /\ Cardinality(S \ {a}) \in Nat
<1>1. IsFiniteSet(Appender)
  BY AppenderAssumption
<1>2. IsFiniteSet(S) /\ Cardinality(S) <= Cardinality(Appender)
  BY <1>1, FS_Subset
<1>3. Cardinality(S) \in Nat /\ Cardinality(Appender) \in Nat
  BY <1>1, <1>2, FS_CardinalityType
<1>4. \A T \in SUBSET S : Cardinality(T) <= Cardinality(S)
  BY <1>2, FS_Subset
<1>5. \A a \in Appender \ S : Cardinality(S \cup {a}) = Cardinality(S) + 1
  BY <1>2, FS_AddElement
<1>6. \A a : Cardinality(S \ {a}) = IF a \in S THEN Cardinality(S) - 1 ELSE Cardinality(S)
  BY <1>2, FS_RemoveElement
<1>7. \A a : Cardinality(S \ {a}) \in Nat
  <2> TAKE a
  <2>1. IsFiniteSet(S \ {a})
    BY <1>2, FS_RemoveElement
  <2> QED
    BY <2>1, FS_CardinalityType
<1>8. \A a : Cardinality(S) <= Cardinality(S \ {a}) + 1
  BY <1>3, <1>6
<1>9. \A a \in S : Cardinality(S \ {a}) = Cardinality(S) - 1
  BY <1>6
<1> QED
  BY <1>2, <1>3, <1>4, <1>5, <1>7, <1>8, <1>9, Zenon

LEMMA UsedCount == \A f \in File : Used(f) \in Nat
BY DEF File, Used

\* Flushing, closing and writing, as far as the number of entries goes
LEMMA UsedByFiles ==
    ASSUME NEW f \in File
    PROVE  /\ Used(Flushed(f)) = Used(f) /\ Used(Closed(f)) = Used(f)
           /\ \A e \in Entry : \A kept \in {f.buffer, <<>>} : Used(Written(f, e, kept)) = Used(f) + 1
<1>1. f.content \in Seq(Entry) /\ f.buffer \in Seq(Entry)
  BY DEF File
<1>2. Len(f.content \o f.buffer) = Len(f.content) + Len(f.buffer) /\ Len(<<>>) = 0
  BY <1>1
<1>3. Len(f.content) \in Nat /\ Len(f.buffer) \in Nat
  BY <1>1
<1>4. Used(Flushed(f)) = Used(f) /\ Used(Closed(f)) = Used(f)
  BY <1>2, <1>3 DEF Used, Flushed, Closed
<1>5. Len(f.content) + (Len(f.buffer) + 1) = Used(f) + 1
  <2> DEFINE c == Len(f.content)
             b == Len(f.buffer)
  <2>1. c \in Nat /\ b \in Nat /\ Used(f) = c + b
    BY <1>3 DEF Used
  <2> HIDE DEF c, b
  <2>2. c + (b + 1) = Used(f) + 1
    BY <2>1
  <2> QED
    BY <2>2 DEF c, b
<1>6. ASSUME NEW e \in Entry, NEW kept \in {f.buffer, <<>>}
      PROVE  Used(Written(f, e, kept)) = Used(f) + 1
  <2>1. Len(Append(f.buffer, e)) = Len(f.buffer) + 1 /\ Len(Append(<<>>, e)) = 1
    BY <1>1
  <2>2. CASE kept = f.buffer
    <3>1. Used(Written(f, e, kept)) = Len(f.content) + Len(Append(f.buffer, e))
      BY <2>2 DEF Used, Written
    <3>2. Used(Written(f, e, kept)) = Len(f.content) + (Len(f.buffer) + 1)
      BY <2>1, <3>1, Zenon
    <3> QED
      BY <1>5, <3>2, Zenon
  <2>3. CASE kept # f.buffer
    <3>1. kept = <<>>
      BY <2>3
    <3>2. Used(Written(f, e, kept)) = Len(f.content \o f.buffer) + Len(Append(<<>>, e))
      BY <2>3, <3>1 DEF Used, Written
    <3> QED
      BY <1>2, <1>3, <2>1, <3>2 DEF Used
  <2> QED
    BY <2>2, <2>3
<1> QED
  BY <1>4, <1>6

\* No file of gs has more in it, or more coming, than it had in fs.
NoneGrows(fs, gs, p, q, r, s) ==
    \A f \in DOMAIN gs :
        \/ Used(gs[f]) = 0
        \/ /\ f \in DOMAIN fs /\ Used(gs[f]) <= Used(fs[f])
           /\ Users(r, s, "write", f) \subseteq Users(p, q, "write", f)

\* What was written and not yet added still is, was added, or counts as cancelled.
StillAdded(gs, p, q, r, s, cur, new, total, sum) ==
    \/ new = 0
    \/ Used(gs[new]) = 0
    \/ /\ new = cur
       /\ \/ /\ total <= sum
             /\ Users(p, q, "written", cur) \subseteq Users(r, s, "written", cur)
          \/ /\ total + 1 <= sum
             /\ \E a : Users(p, q, "written", cur) \ {a} \subseteq Users(r, s, "written", cur)

\* The bound survives when no file grows, no task comes to a write, and what is
\* no longer to be added was added or was cancelled.
LEMMA BoundedStays ==
    ASSUME NEW fs \in Seq(File), NEW gs \in Seq(File), NEW p, NEW q, NEW r, NEW s,
           NEW cur \in 0 .. Len(fs), NEW new \in 0 .. Len(gs),
           NEW sz \in Nat, NEW sy \in Nat, NEW cn \in Nat, NEW cm \in Nat, cn <= cm,
           Bounded(fs, p, q, cur, sz, cn),
           NoneGrows(fs, gs, p, q, r, s), StillAdded(gs, p, q, r, s, cur, new, sz + cn, sy + cm)
    PROVE  Bounded(gs, r, s, new, sy, cm)
<1> DEFINE A == Cardinality(Appender)
           Was(w, f) == Cardinality(Users(p, q, w, f))
           Is(w, f) == Cardinality(Users(r, s, w, f))
<1>1. \A w, f : Users(p, q, w, f) \in SUBSET Appender /\ Users(r, s, w, f) \in SUBSET Appender
  BY DEF Users
<1>2. A \in Nat /\ \A w, f : Was(w, f) \in Nat /\ Is(w, f) \in Nat /\ Is(w, f) <= A
  BY <1>1, UsersCount
<1>3. \A f \in DOMAIN gs : Used(gs[f]) \in Nat
  BY UsedCount
<1>4. \A f \in DOMAIN fs : Used(fs[f]) \in Nat
  BY UsedCount
<1>5. ASSUME NEW f \in DOMAIN gs PROVE Used(gs[f]) + Is("write", f) < MaxFileSize + A + cm
  <2>1. CASE Used(gs[f]) = 0
    BY <1>2, <2>1, FileSizeAssumption, SMTT(40)
  <2>2. CASE /\ f \in DOMAIN fs /\ Used(gs[f]) <= Used(fs[f])
             /\ Users(r, s, "write", f) \subseteq Users(p, q, "write", f)
    <3>1. Is("write", f) <= Was("write", f)
      BY <1>1, <2>2, UsersCount
    <3>2. Used(fs[f]) + Was("write", f) < MaxFileSize + A + cn
      BY <2>2 DEF Bounded
    <3> HIDE DEF A, Was, Is
    <3> QED
      BY <1>2, <1>3, <1>4, <2>2, <3>1, <3>2, FileSizeAssumption, SMTT(40)
  <2> QED
    BY <2>1, <2>2 DEF NoneGrows
<1>6. ASSUME new # 0 PROVE Used(gs[new]) <= sy + Is("written", new) + cm
  <2>1. CASE Used(gs[new]) = 0
    BY <1>2, <2>1
  <2>2. CASE Used(gs[new]) # 0
    <3>1. new = cur /\ new \in DOMAIN gs
      BY <1>6, <2>2 DEF StillAdded
    <3>2. new \in DOMAIN fs /\ Used(gs[new]) <= Used(fs[new])
      BY <2>2, <3>1 DEF NoneGrows
    <3>3. Used(fs[new]) <= sz + Was("written", new) + cn
      BY <1>6, <3>1 DEF Bounded
    <3>4. \/ sz + cn <= sy + cm /\ Was("written", new) <= Is("written", new)
          \/ sz + cn + 1 <= sy + cm /\ Was("written", new) <= Is("written", new) + 1
      <4>1. CASE /\ sz + cn <= sy + cm
                 /\ Users(p, q, "written", cur) \subseteq Users(r, s, "written", cur)
        BY <1>1, <3>1, <4>1, UsersCount
      <4>2. CASE /\ sz + cn + 1 <= sy + cm
                 /\ \E a : Users(p, q, "written", cur) \ {a} \subseteq Users(r, s, "written", cur)
        <5>1. PICK a : Users(p, q, "written", cur) \ {a} \subseteq Users(r, s, "written", cur)
          BY <4>2
        <5> DEFINE U == Users(p, q, "written", cur)
        <5>2. Cardinality(U \ {a}) <= Is("written", cur) /\ Cardinality(U) <= Cardinality(U \ {a}) + 1
              /\ Cardinality(U \ {a}) \in Nat
          BY <1>1, <5>1, UsersCount
        <5> HIDE DEF U
        <5>3. Was("written", cur) <= Is("written", cur) + 1
          BY <1>2, <5>2 DEF U
        <5> QED
          BY <3>1, <4>2, <5>3
      <4> QED
        BY <1>6, <2>2, <4>1, <4>2 DEF StillAdded
    <3> DEFINE x == Used(gs[new])
               y == Used(fs[new])
               was == Was("written", new)
               is == Is("written", new)
    <3>5. x \in Nat /\ y \in Nat
      BY <1>3, <1>4, <3>1, <3>2
    <3>6. was \in Nat /\ is \in Nat
      BY <1>2, Zenon
    <3>7. x <= y /\ y <= sz + was + cn
      BY <3>2, <3>3, Zenon
    <3>8. \/ sz + cn <= sy + cm /\ was <= is
          \/ sz + cn + 1 <= sy + cm /\ was <= is + 1
      BY <3>4, Zenon
    <3>9. x <= sy + is + cm
      <4> HIDE DEF x, y, was, is
      <4> QED
        BY <3>5, <3>6, <3>7, <3>8
    <3> QED
      BY <3>9, Zenon
  <2> QED
    BY <2>1, <2>2
<1> QED
  BY <1>5, <1>6 DEF Bounded

\* Only appender a moves.
OnlyMoves(a, p, q, r, s) == \A b \in Appender \ {a} : r[b] = p[b] /\ s[b] = q[b]

\* The files hold as much as before, but for file g, which has the difference more.
Holds(fs, gs, g, more) == \A f \in DOMAIN gs : Used(gs[f]) = Used(fs[f]) + IF f = g THEN more ELSE 0

\* A task comes to its write when the size it looks at has room.
LEMMA BoundedComes ==
    ASSUME NEW fs \in Seq(File), NEW gs \in Seq(File), DOMAIN gs = DOMAIN fs,
           NEW p, NEW q, NEW r, NEW s, NEW cur \in DOMAIN fs, cur # 0,
           NEW sz \in Nat, NEW cn \in Nat, sz + 1 <= MaxFileSize,
           Bounded(fs, p, q, cur, sz, cn),
           Holds(fs, gs, 0, 0),
           NEW a \in Appender, p[a] = "idle", r[a] = "write", s[a] = cur,
           OnlyMoves(a, p, q, r, s)
    PROVE  Bounded(gs, r, s, cur, sz, cn)
<1> DEFINE A == Cardinality(Appender)
           Was(w, f) == Cardinality(Users(p, q, w, f))
           Is(w, f) == Cardinality(Users(r, s, w, f))
<1>1. \A w, f : Users(p, q, w, f) \in SUBSET Appender /\ Users(r, s, w, f) \in SUBSET Appender
  BY DEF Users
<1>2. A \in Nat /\ \A w, f : Was(w, f) \in Nat /\ Is(w, f) \in Nat /\ Is(w, f) <= A
  BY <1>1, UsersCount
<1>3. \A f \in DOMAIN fs : Used(fs[f]) \in Nat
  BY UsedCount
<1>4. /\ \A f : Users(r, s, "written", f) = Users(p, q, "written", f)
      /\ \A f : f # cur => Users(r, s, "write", f) = Users(p, q, "write", f)
  BY DEF Users, OnlyMoves
<1>5. \A f \in DOMAIN gs : Used(gs[f]) = Used(fs[f])
  BY <1>3 DEF Holds
<1>6. Is("write", cur) + Is("written", cur) <= A
  <2> DEFINE X == Users(r, s, "write", cur)
             Y == Users(r, s, "written", cur)
  <2>1. X \cap Y = {} /\ X \cup Y \in SUBSET Appender
    BY DEF Users
  <2>2. IsFiniteSet(X) /\ IsFiniteSet(Y) /\ Cardinality(X) \in Nat /\ Cardinality(Y) \in Nat
    BY <1>1, UsersCount
  <2>3. Cardinality(X \cup Y) <= A
    BY <2>1, UsersCount
  <2> HIDE DEF X, Y
  <2>4. Cardinality(X \cup Y) = Cardinality(X) + Cardinality(Y)
    <3>1. Cardinality(X \cup Y) = Cardinality(X) + Cardinality(Y) - Cardinality({})
      BY <2>1, <2>2, FS_Union
    <3> QED
      BY <2>2, <3>1, FS_EmptySet
  <2> QED
    BY <2>3, <2>4 DEF X, Y
<1>7. Used(fs[cur]) <= sz + Is("written", cur) + cn
  BY <1>4 DEF Bounded
<1>8. ASSUME NEW f \in DOMAIN gs PROVE Used(gs[f]) + Is("write", f) < MaxFileSize + A + cn
  <2>1. CASE f = cur
    <3>1. Used(gs[f]) = Used(fs[cur])
      BY <1>5, <2>1
    <3> HIDE DEF A, Is
    <3> QED
      BY <1>2, <1>3, <1>6, <1>7, <2>1, <3>1, FileSizeAssumption
  <2>2. CASE f # cur
    BY <1>4, <1>5, <2>2 DEF Bounded
  <2> QED
    BY <2>1, <2>2
<1>9. Used(gs[cur]) <= sz + Is("written", cur) + cn
  BY <1>7, <1>5
<1> QED
  BY <1>8, <1>9 DEF Bounded

\* A write adds one entry and takes one task from before to after its write.
LEMMA BoundedGrows ==
    ASSUME NEW fs \in Seq(File), NEW gs \in Seq(File), DOMAIN gs = DOMAIN fs,
           NEW p, NEW q, NEW r, NEW s, NEW cur \in 0 .. Len(fs), NEW g \in DOMAIN fs,
           NEW sz \in Nat, NEW cn \in Nat,
           Bounded(fs, p, q, cur, sz, cn),
           Holds(fs, gs, g, 1),
           NEW a \in Appender, p[a] = "write", q[a] = g, r[a] = "written", s[a] = g,
           OnlyMoves(a, p, q, r, s)
    PROVE  Bounded(gs, r, s, cur, sz, cn)
<1> DEFINE A == Cardinality(Appender)
           Was(w, f) == Cardinality(Users(p, q, w, f))
           Is(w, f) == Cardinality(Users(r, s, w, f))
<1>1. \A w, f : Users(p, q, w, f) \in SUBSET Appender /\ Users(r, s, w, f) \in SUBSET Appender
  BY DEF Users
<1>2. A \in Nat /\ \A w, f : Was(w, f) \in Nat /\ Is(w, f) \in Nat
  BY <1>1, UsersCount
<1>3. \A f \in DOMAIN fs : Used(fs[f]) \in Nat
  BY UsedCount
<1>4. \A w, f : f # g => Users(r, s, w, f) = Users(p, q, w, f)
  BY DEF Users, OnlyMoves
<1>5. \A f \in DOMAIN gs : Used(gs[f]) = IF f = g THEN Used(fs[f]) + 1 ELSE Used(fs[f])
  BY <1>3 DEF Holds
<1>6. /\ Users(r, s, "write", g) = Users(p, q, "write", g) \ {a} /\ a \in Users(p, q, "write", g)
      /\ Users(r, s, "written", g) = Users(p, q, "written", g) \cup {a}
      /\ a \notin Users(p, q, "written", g)
  BY DEF Users, OnlyMoves
<1>7. Is("write", g) = Was("write", g) - 1 /\ Is("written", g) = Was("written", g) + 1
  BY <1>1, <1>6, UsersCount
<1>8. ASSUME NEW f \in DOMAIN gs PROVE Used(gs[f]) + Is("write", f) < MaxFileSize + A + cn
  <2>1. Used(fs[f]) + Was("write", f) < MaxFileSize + A + cn
    BY DEF Bounded
  <2>2. CASE f = g
    <3> HIDE DEF A, Was, Is
    <3> QED
      BY <1>2, <1>3, <1>7, <1>5, <2>1, <2>2, FileSizeAssumption
  <2>3. CASE f # g
    BY <1>4, <1>5, <2>1, <2>3
  <2> QED
    BY <2>2, <2>3
<1>9. ASSUME cur # 0 PROVE Used(gs[cur]) <= sz + Is("written", cur) + cn
  <2>1. Used(fs[cur]) <= sz + Was("written", cur) + cn /\ cur \in DOMAIN fs
    BY <1>9 DEF Bounded
  <2>2. CASE cur = g
    <3> HIDE DEF Was, Is
    <3> QED
      BY <1>2, <1>3, <1>7, <1>5, <2>1, <2>2, SMTT(40)
  <2>3. CASE cur # g
    BY <1>4, <1>5, <2>1, <2>3
  <2> QED
    BY <2>2, <2>3
<1> QED
  BY <1>8, <1>9 DEF Bounded
-----------------------------------------------------------------------------
\* What Reclaim does to the files does not change how much is in them.
LEMMA ReclaimUsed ==
    ASSUME NEW fs \in Seq(File), NEW cur, NEW held, NEW gs, gs = Reclaim(fs, cur, held)
    PROVE  gs \in Seq(File) /\ DOMAIN gs = DOMAIN fs /\ \A f \in DOMAIN gs : Used(gs[f]) = Used(fs[f])
<1>1. gs \in Seq(File) /\ DOMAIN gs = DOMAIN fs
  BY ReclaimFacts
<1>2. \A f \in DOMAIN gs : gs[f] = fs[f] \/ gs[f] = Closed(fs[f])
  BY DEF Reclaim
<1>3. \A f \in DOMAIN fs : fs[f] \in File
  OBVIOUS
<1> QED
  BY <1>1, <1>2, <1>3, UsedByFiles

\* The end of most steps, in the terms of the bound
LEMMA AwaitUsed ==
    ASSUME TypeOK, NEW t \in Task, NEW what, NEW fs \in Seq(File), NEW f, NEW cur,
           Await(t, what, f, fs, cur)
    PROVE  /\ current' = cur /\ files' \in Seq(File) /\ DOMAIN files' = DOMAIN fs
           /\ \A g \in DOMAIN files' : Used(files'[g]) = Used(fs[g])
           /\ pc'[t] = what /\ at'[t] = f
           /\ \A u \in Task : u # t => pc'[u] = pc[u] /\ at'[u] = at[u]
<1>1. /\ pc' = [pc EXCEPT ![t] = what] /\ at' = [at EXCEPT ![t] = f]
      /\ current' = cur /\ files' = Reclaim(fs, cur, at')
  BY DEF Await
<1> DEFINE gs == files'
           held == at'
<1>2. gs = Reclaim(fs, cur, held)
  BY <1>1
<1> HIDE DEF gs, held
<1>3. gs \in Seq(File) /\ DOMAIN gs = DOMAIN fs /\ \A g \in DOMAIN gs : Used(gs[g]) = Used(fs[g])
  BY <1>2, ReclaimUsed
<1> QED
  BY <1>1, <1>3 DEF TypeOK, gs

\* Steps that neither begin nor end a write, nor open a file that becomes current:
\* the bound holds with the files, phases and counters they leave.
LEMMA OtherSteps ==
    ASSUME TypeOK, SizeBounded, files' \in Seq(File), size' = size, cancels' = cancels,
           current' = current, DOMAIN files \subseteq DOMAIN files',
           \A f \in DOMAIN files' : Used(files'[f]) = 0 \/ (f \in DOMAIN files /\ Used(files'[f]) <= Used(files[f])),
           \A a \in Appender :
               \/ pc'[a] = pc[a] /\ at'[a] = at[a]
               \/ pc[a] # "written" /\ pc'[a] \notin {"write", "written"}
    PROVE  SizeBounded'
<1> DEFINE gs == files'
           r == pc'
           s == at'
           new == current'
           sy == size'
           cm == cancels'
<1>1. /\ files \in Seq(File) /\ current \in 0 .. Len(files) /\ size \in Nat /\ cancels \in Nat
      /\ Bounded(files, pc, at, current, size, cancels)
  BY BoundAssumption DEF TypeOK, SizeBounded
<1>2. /\ \A f : Users(r, s, "write", f) \subseteq Users(pc, at, "write", f)
      /\ \A f : Users(pc, at, "written", f) \subseteq Users(r, s, "written", f)
  BY DEF Users
<1>3. new \in 0 .. Len(gs) /\ new = current /\ sy = size /\ cm = cancels /\ gs \in Seq(File)
  BY <1>1
<1>4. NoneGrows(files, gs, pc, at, r, s)
  BY <1>2 DEF NoneGrows
<1>5. size + cancels <= sy + cm /\ cancels <= cm /\ sy \in Nat /\ cm \in Nat
  BY <1>1, <1>3
<1>6. StillAdded(gs, pc, at, r, s, current, new, size + cancels, sy + cm)
  BY <1>2, <1>3, <1>5 DEF StillAdded
<1>7. Bounded(gs, r, s, new, sy, cm)
  BY <1>1, <1>3, <1>4, <1>5, <1>6, BoundedStays
<1> QED
  BY <1>7 DEF SizeBounded, gs, r, s, new, sy, cm

\* Task t moves between other phases, over files that hold as much as before.
LEMMA MoveKeepsSize ==
    ASSUME TypeOK, SizeBounded, NEW t \in Task, NEW what, NEW f, NEW fs \in Seq(File),
           DOMAIN fs = DOMAIN files, \A g \in DOMAIN fs : Used(fs[g]) = Used(files[g]),
           Await(t, what, f, fs, current), size' = size, cancels' = cancels,
           t \in Appender => pc[t] # "written" /\ what \notin {"write", "written"}
    PROVE  SizeBounded'
<1>1. /\ current' = current /\ files' \in Seq(File) /\ DOMAIN files' = DOMAIN files
      /\ \A g \in DOMAIN files' : Used(files'[g]) = Used(files[g])
      /\ pc'[t] = what /\ at'[t] = f
      /\ \A u \in Task : u # t => pc'[u] = pc[u] /\ at'[u] = at[u]
  BY AwaitUsed
<1>2. \A g \in DOMAIN files' : g \in DOMAIN files /\ Used(files'[g]) <= Used(files[g])
  <2>1. \A g \in DOMAIN files' : Used(files'[g]) \in Nat
    BY <1>1, UsedCount
  <2> QED
    BY <1>1, <2>1
<1>3. \A a \in Appender :
          \/ pc'[a] = pc[a] /\ at'[a] = at[a]
          \/ pc[a] # "written" /\ pc'[a] \notin {"write", "written"}
  <2> TAKE a \in Appender
  <2>1. a \in Task
    BY DEF Task
  <2> QED
    BY <1>1, <2>1
<1> QED
  BY <1>1, <1>2, <1>3, OtherSteps

\* Replacing the file a task uses by one that holds as much
LEMMA WithUsed ==
    ASSUME TypeOK, NEW t \in Task, at[t] \in DOMAIN files, NEW g \in File
    PROVE  /\ With(t, g) \in Seq(File) /\ DOMAIN With(t, g) = DOMAIN files
           /\ \A f \in DOMAIN files : With(t, g)[f] = IF f = at[t] THEN g ELSE files[f]
<1>1. files \in Seq(File)
  BY DEF TypeOK
<1> QED
  BY <1>1 DEF With

LEMMA FlushFileKeepsSize ==
    ASSUME IInv, SizeBounded, NEW t \in Task, NEW next \in {"flushed", "close", "flush"},
           pc[t] \in {"flush", "final"},
           Await(t, next, at[t], With(t, Flushed(files[at[t]])), current)
           \/ (next # "flushed" /\ Await(t, next, current, With(t, Flushed(files[at[t]])), current)),
           size' = size, cancels' = cancels
    PROVE  SizeBounded'
<1> DEFINE g == Flushed(files[at[t]])
           fs == With(t, g)
<1>1. TypeOK /\ at[t] \in DOMAIN files /\ files[at[t]] \in File
  BY AtWork DEF IInv
<1>2. g \in File /\ Used(g) = Used(files[at[t]])
  BY <1>1, FlushedFile, UsedByFiles
<1> HIDE DEF g
<1>3. /\ fs \in Seq(File) /\ DOMAIN fs = DOMAIN files
      /\ \A f \in DOMAIN files : fs[f] = IF f = at[t] THEN g ELSE files[f]
  BY <1>1, <1>2, WithUsed
<1>4. \E f : Await(t, next, f, fs, current)
  BY DEF g
<1> HIDE DEF fs
<1>5. \A f \in DOMAIN fs : Used(fs[f]) = Used(files[f])
  BY <1>2, <1>3
<1>6. pc[t] # "written" /\ next \notin {"write", "written"}
  OBVIOUS
<1> QED
  BY <1>1, <1>3, <1>4, <1>5, <1>6, MoveKeepsSize

\* The same for a close
LEMMA CloseFileKeepsSize ==
    ASSUME IInv, SizeBounded, NEW t \in Task, NEW next \in {"open", "idle"},
           pc[t] = "close", Await(t, next, 0, With(t, Closed(files[at[t]])), current),
           size' = size, cancels' = cancels
    PROVE  SizeBounded'
<1> DEFINE g == Closed(files[at[t]])
           fs == With(t, g)
<1>1. TypeOK /\ at[t] \in DOMAIN files /\ files[at[t]] \in File
  BY AtWork DEF IInv
<1>2. g \in File /\ Used(g) = Used(files[at[t]])
  BY <1>1, ClosedFile, UsedByFiles
<1>3. Await(t, next, 0, fs, current)
  OBVIOUS
<1> HIDE DEF g
<1>4. /\ fs \in Seq(File) /\ DOMAIN fs = DOMAIN files
      /\ \A f \in DOMAIN files : fs[f] = IF f = at[t] THEN g ELSE files[f]
  BY <1>1, <1>2, WithUsed
<1> HIDE DEF fs
<1>5. \A f \in DOMAIN fs : Used(fs[f]) = Used(files[f])
  BY <1>2, <1>4
<1>6. pc[t] # "written" /\ next \notin {"write", "written"}
  OBVIOUS
<1> QED
  BY <1>1, <1>3, <1>4, <1>5, <1>6, MoveKeepsSize

\* Steps that leave the files alone
LEMMA TurnKeepsSize ==
    ASSUME IInv, SizeBounded, NEW t \in Task, NEW what, what \notin {"write", "written"}, NEW f,
           pc[t] # "written", Await(t, what, f, files, current), size' = size, cancels' = cancels
    PROVE  SizeBounded'
<1>1. TypeOK /\ files \in Seq(File)
  BY DEF IInv, TypeOK
<1> QED
  BY <1>1, MoveKeepsSize

LEMMA CallAppendKeepsSize ==
    ASSUME IInv, SizeBounded, NEW a \in Appender, CallAppend(a)
    PROVE  SizeBounded'
<1>1. /\ pc[a] = "idle" /\ status = "up"
      /\ Await(a, IF size + 1 > MaxFileSize THEN "flush" ELSE "write", current, files, current)
      /\ size' = size /\ cancels' = cancels
  BY DEF CallAppend
<1>2. a \in Task /\ TypeOK /\ files \in Seq(File) /\ current \in DOMAIN files /\ current # 0
      /\ size \in Nat /\ cancels \in Nat
  BY <1>1, AtWork, BoundAssumption DEF IInv, TypeOK
<1>3. CASE size + 1 > MaxFileSize
  BY <1>1, <1>2, <1>3, TurnKeepsSize
<1>4. CASE ~(size + 1 > MaxFileSize)
  <2> DEFINE gs == files'
             r == pc'
             s == at'
  <2>1. Await(a, "write", current, files, current)
    BY <1>1, <1>4
  <2>2. /\ current' = current /\ gs \in Seq(File) /\ DOMAIN gs = DOMAIN files
        /\ \A g \in DOMAIN gs : Used(gs[g]) = Used(files[g])
        /\ r[a] = "write" /\ s[a] = current
        /\ \A u \in Task : u # a => r[u] = pc[u] /\ s[u] = at[u]
    BY <1>2, <2>1, AwaitUsed
  <2>3. OnlyMoves(a, pc, at, r, s) /\ Holds(files, gs, 0, 0)
    <3>1. \A g \in DOMAIN gs : Used(gs[g]) \in Nat
      BY <2>2, UsedCount
    <3> QED
      BY <2>2, <3>1 DEF Task, OnlyMoves, Holds
  <2>4. size + 1 <= MaxFileSize /\ Bounded(files, pc, at, current, size, cancels)
    BY <1>2, <1>4, FileSizeAssumption DEF SizeBounded
  <2> HIDE DEF gs, r, s
  <2>5. Bounded(gs, r, s, current, size, cancels)
    BY <1>1, <1>2, <2>2, <2>3, <2>4, BoundedComes
  <2> QED
    BY <1>1, <2>2, <2>5 DEF SizeBounded, gs, r, s
<1> QED
  BY <1>3, <1>4

LEMMA WriteKeepsSize ==
    ASSUME IInv, SizeBounded, NEW a \in Appender, Write(a)
    PROVE  SizeBounded'
<1>1. /\ a \in Task /\ TypeOK /\ pc[a] = "write" /\ at[a] \in DOMAIN files /\ files[at[a]] \in File
      /\ files \in Seq(File) /\ current \in 0 .. Len(files) /\ size \in Nat /\ cancels \in Nat
  <2>1. TypeOK /\ pc[a] = "write"
    BY DEF IInv, Write
  <2>2. files \in Seq(File) /\ current \in 0 .. Len(files) /\ size \in Nat /\ cancels \in Nat
    BY <2>1, BoundAssumption DEF TypeOK
  <2> QED
    BY <2>1, <2>2, AtWork
<1>2. CASE Fail(a)
  BY <1>1, <1>2, TurnKeepsSize DEF Fail, bounds
<1>3. CASE /\ \E kept \in {files[at[a]].buffer, <<>>} :
                  Await(a, "written", at[a],
                        [files EXCEPT ![at[a]] = Written(@, entry[a], kept)], current)
           /\ UNCHANGED <<status, size, event, entry, path, now, bounds, ghosts>>
  <2>1. PICK kept \in {files[at[a]].buffer, <<>>} :
            Await(a, "written", at[a], With(a, Written(files[at[a]], entry[a], kept)), current)
    BY <1>3 DEF With
  <2> DEFINE g == Written(files[at[a]], entry[a], kept)
             fs == With(a, g)
             gs == files'
             r == pc'
             s == at'
  <2>2. entry[a] \in Entry
    BY <1>1, BoundAssumption DEF IInv, Phases, TypeOK, Entry
  <2>3. g \in File /\ Used(g) = Used(files[at[a]]) + 1
    BY <1>1, <2>2, WrittenFile, UsedByFiles
  <2>4. Await(a, "written", at[a], fs, current)
    BY <2>1
  <2> HIDE DEF g
  <2>5. /\ fs \in Seq(File) /\ DOMAIN fs = DOMAIN files
        /\ \A f \in DOMAIN files : fs[f] = IF f = at[a] THEN g ELSE files[f]
    BY <1>1, <2>3, WithUsed
  <2> HIDE DEF fs
  <2>6. /\ current' = current /\ gs \in Seq(File) /\ DOMAIN gs = DOMAIN fs
        /\ \A f \in DOMAIN gs : Used(gs[f]) = Used(fs[f])
        /\ r[a] = "written" /\ s[a] = at[a]
        /\ \A u \in Task : u # a => r[u] = pc[u] /\ s[u] = at[u]
    BY <1>1, <2>4, <2>5, AwaitUsed
  <2>7. OnlyMoves(a, pc, at, r, s) /\ Holds(files, gs, at[a], 1)
    <3>1. \A f \in DOMAIN files : Used(files[f]) \in Nat
      BY <1>1, UsedCount
    <3> QED
      BY <2>3, <2>5, <2>6, <3>1 DEF Task, OnlyMoves, Holds
  <2> HIDE DEF gs, r, s
  <2>8. Bounded(gs, r, s, current, size, cancels)
    BY <1>1, <2>5, <2>6, <2>7, BoundedGrows DEF SizeBounded
  <2>9. size' = size /\ cancels' = cancels
    BY <1>3 DEF bounds
  <2> QED
    BY <2>6, <2>8, <2>9 DEF SizeBounded, gs, r, s
<1> QED
  BY <1>2, <1>3 DEF Write

\* A write that is done is added to the size, or is given up and counts as
\* cancelled.
LEMMA LeaveKeepsSize ==
    ASSUME IInv, SizeBounded, NEW a \in Appender, pc[a] # "idle",
           NEW fs \in Seq(File), DOMAIN files \subseteq DOMAIN fs,
           \A f \in DOMAIN fs : Used(fs[f]) = 0 \/ (f \in DOMAIN files /\ Used(fs[f]) = Used(files[f])),
           Await(a, "idle", 0, fs, current),
           size' \in Nat, cancels' \in Nat, cancels <= cancels', size + cancels + 1 <= size' + cancels'
    PROVE  SizeBounded'
<1> DEFINE gs == files'
           r == pc'
           s == at'
           sy == size'
           cm == cancels'
<1>1. /\ a \in Task /\ TypeOK /\ files \in Seq(File) /\ current \in 0 .. Len(files)
      /\ size \in Nat /\ cancels \in Nat
      /\ Bounded(files, pc, at, current, size, cancels)
  <2>1. TypeOK /\ a \in Task
    BY AtWork DEF IInv
  <2>2. files \in Seq(File) /\ current \in 0 .. Len(files) /\ size \in Nat /\ cancels \in Nat
    BY <2>1, BoundAssumption DEF TypeOK
  <2> QED
    BY <2>1, <2>2 DEF SizeBounded
<1>2. /\ current' = current /\ gs \in Seq(File) /\ DOMAIN gs = DOMAIN fs
      /\ \A g \in DOMAIN gs : Used(gs[g]) = Used(fs[g])
      /\ r[a] = "idle"
      /\ \A u \in Task : u # a => r[u] = pc[u] /\ s[u] = at[u]
  BY <1>1, AwaitUsed
<1>3. \A b \in Appender \ {a} : r[b] = pc[b] /\ s[b] = at[b]
  BY <1>2 DEF Task
<1>4. /\ \A f : Users(r, s, "write", f) \subseteq Users(pc, at, "write", f)
      /\ \A f : Users(pc, at, "written", f) \ {a} \subseteq Users(r, s, "written", f)
  BY <1>2, <1>3 DEF Users
<1>5. sy \in Nat /\ cm \in Nat /\ cancels <= cm /\ size + cancels + 1 <= sy + cm
  OBVIOUS
<1>6. current \in 0 .. Len(gs)
  BY <1>1, <1>2
<1> HIDE DEF gs, r, s, sy, cm
<1>7. NoneGrows(files, gs, pc, at, r, s)
  <2> SUFFICES ASSUME NEW f \in DOMAIN gs, Used(gs[f]) # 0
               PROVE  f \in DOMAIN files /\ Used(gs[f]) <= Used(files[f])
    BY <1>4 DEF NoneGrows
  <2>1. f \in DOMAIN files /\ Used(gs[f]) = Used(files[f])
    BY <1>2
  <2>2. Used(files[f]) \in Nat
    BY <1>1, <2>1, UsedCount
  <2> QED
    BY <2>1, <2>2
<1>8. StillAdded(gs, pc, at, r, s, current, current, size + cancels, sy + cm)
  BY <1>4, <1>5 DEF StillAdded
<1>9. Bounded(gs, r, s, current, sy, cm)
  BY <1>1, <1>2, <1>5, <1>6, <1>7, <1>8, BoundedStays
<1> QED
  BY <1>2, <1>9 DEF SizeBounded, gs, r, s, sy, cm

\* A new file has nothing in it, and the others are as they were.
LEMMA OpenedUsed ==
    ASSUME TypeOK, NEW p \in 0 .. MaxTime, NEW fs, fs = Append(files, Opened(p))
    PROVE  /\ fs \in Seq(File) /\ Len(fs) = Len(files) + 1 /\ Len(files) + 1 \in DOMAIN fs
           /\ DOMAIN files \subseteq DOMAIN fs
           /\ \A f \in DOMAIN fs :
                  \/ f = Len(files) + 1 /\ Used(fs[f]) = 0
                  \/ f \in DOMAIN files /\ f # Len(files) + 1 /\ Used(fs[f]) = Used(files[f])
<1>1. files \in Seq(File) /\ Opened(p) \in File
  BY OpenedFile DEF TypeOK
<1>2. Used(Opened(p)) = 0
  BY DEF Used, Opened
<1>3. /\ fs \in Seq(File) /\ Len(fs) = Len(files) + 1 /\ fs[Len(files) + 1] = Opened(p)
      /\ \A f \in DOMAIN files : f \in DOMAIN fs /\ fs[f] = files[f]
  BY <1>1, KeepsAppend
<1>4. Len(files) \in Nat /\ DOMAIN files = 1 .. Len(files) /\ DOMAIN fs = 1 .. Len(fs)
  BY <1>1, <1>3
<1>5. DOMAIN files \subseteq DOMAIN fs
  BY <1>3
<1>6. Len(files) + 1 \in DOMAIN fs
  BY <1>3, <1>4
<1>7. ASSUME NEW f \in DOMAIN fs
      PROVE  \/ f = Len(files) + 1 /\ Used(fs[f]) = 0
             \/ f \in DOMAIN files /\ f # Len(files) + 1 /\ Used(fs[f]) = Used(files[f])
  <2>1. f = Len(files) + 1 \/ (f \in DOMAIN files /\ f # Len(files) + 1)
    BY <1>3, <1>4
  <2> QED
    BY <1>2, <1>3, <2>1
<1> QED
  BY <1>3, <1>5, <1>6, <1>7

\* A file is opened and becomes the current one: it is empty, whatever the size
\* says, and only tasks that use it come to a write.
LEMMA NewFileKeepsSize ==
    ASSUME TypeOK, SizeBounded, NEW p \in 0 .. MaxTime, files' \in Seq(File),
           DOMAIN files' = DOMAIN Append(files, Opened(p)),
           \A f \in DOMAIN files' : Used(files'[f]) = Used(Append(files, Opened(p))[f]),
           current' = Len(files) + 1, size' \in Nat, cancels' = cancels,
           \A a \in Appender :
               \/ pc'[a] = pc[a] /\ at'[a] = at[a]
               \/ pc'[a] = "write" /\ at'[a] = Len(files) + 1
    PROVE  SizeBounded'
<1> DEFINE fs == Append(files, Opened(p))
           n == Len(files) + 1
           gs == files'
           r == pc'
           s == at'
           sy == size'
<1>1. /\ fs \in Seq(File) /\ Len(fs) = n /\ n \in DOMAIN fs /\ DOMAIN files \subseteq DOMAIN fs
      /\ \A f \in DOMAIN fs :
             \/ f = n /\ Used(fs[f]) = 0
             \/ f \in DOMAIN files /\ f # n /\ Used(fs[f]) = Used(files[f])
  BY OpenedUsed
<1>2. /\ files \in Seq(File) /\ current \in 0 .. Len(files) /\ size \in Nat /\ cancels \in Nat
      /\ Bounded(files, pc, at, current, size, cancels)
  BY BoundAssumption DEF TypeOK, SizeBounded
<1>3. /\ gs \in Seq(File) /\ DOMAIN gs = DOMAIN fs
      /\ \A f \in DOMAIN gs : Used(gs[f]) = Used(fs[f])
      /\ sy \in Nat
  OBVIOUS
<1>4. \A f : f # n => Users(r, s, "write", f) \subseteq Users(pc, at, "write", f)
  BY DEF Users
<1> HIDE DEF fs, n, gs, r, s, sy
<1>5. n \in 0 .. Len(gs)
  BY <1>1, <1>3
<1>6. NoneGrows(files, gs, pc, at, r, s)
  <2> SUFFICES ASSUME NEW f \in DOMAIN gs, Used(gs[f]) # 0
               PROVE  /\ f \in DOMAIN files /\ Used(gs[f]) <= Used(files[f])
                      /\ Users(r, s, "write", f) \subseteq Users(pc, at, "write", f)
    BY DEF NoneGrows
  <2>1. f \in DOMAIN files /\ f # n /\ Used(gs[f]) = Used(files[f])
    BY <1>1, <1>3
  <2>2. Used(files[f]) \in Nat
    BY <1>2, <2>1, UsedCount
  <2> QED
    BY <1>4, <2>1, <2>2
<1>7. StillAdded(gs, pc, at, r, s, current, n, size + cancels, sy + cancels)
  BY <1>1, <1>3 DEF StillAdded
<1>8. cancels <= cancels
  BY <1>2
<1>9. Bounded(gs, r, s, n, sy, cancels)
  BY <1>2, <1>3, <1>5, <1>6, <1>7, <1>8, BoundedStays
<1> QED
  BY <1>9 DEF SizeBounded, gs, r, s, sy, n

LEMMA RotateKeepsSize ==
    ASSUME IInv, SizeBounded, NEW a \in Appender,
           RotateFlush(a) \/ RotateFlushed(a) \/ RotateClose(a) \/ RotateOpen(a)
    PROVE  SizeBounded'
<1>1. a \in Task /\ TypeOK
  BY AtWork DEF IInv
<1>2. CASE FlushFile(a, "flushed")
  BY <1>1, <1>2, FlushFileKeepsSize DEF FlushFile, With, bounds
<1>3. CASE pc[a] = "flush" /\ Fail(a)
  BY <1>1, <1>3, TurnKeepsSize DEF Fail, bounds
<1>4. CASE RotateFlushed(a)
  BY <1>1, <1>4, TurnKeepsSize DEF RotateFlushed, bounds
<1>5. CASE RotateClose(a)
  BY <1>1, <1>5, CloseFileKeepsSize DEF RotateClose, With, bounds
<1>6. CASE RotateOpen(a)
  <2> DEFINE n == Len(files) + 1
             fs == Append(files, Opened(path[a]))
  <2>1. Await(a, "write", n, fs, n) /\ size' = 0 /\ cancels' = cancels /\ path[a] \in 0 .. MaxTime
    BY <1>1, <1>6 DEF RotateOpen, TypeOK, bounds
  <2>2. fs \in Seq(File)
    BY <1>1, <2>1, OpenedUsed
  <2> HIDE DEF fs, n
  <2>3. /\ current' = n /\ files' \in Seq(File) /\ DOMAIN files' = DOMAIN fs
        /\ \A g \in DOMAIN files' : Used(files'[g]) = Used(fs[g])
        /\ pc'[a] = "write" /\ at'[a] = n
        /\ \A u \in Task : u # a => pc'[u] = pc[u] /\ at'[u] = at[u]
    BY <1>1, <2>1, <2>2, AwaitUsed
  <2>4. \A b \in Appender : \/ pc'[b] = pc[b] /\ at'[b] = at[b]
                            \/ pc'[b] = "write" /\ at'[b] = n
    BY <2>3 DEF Task
  <2>5. size' \in Nat
    BY <2>1
  <2> QED
    BY <1>1, <2>1, <2>3, <2>4, <2>5, NewFileKeepsSize DEF n, fs
<1> QED
  BY <1>2, <1>3, <1>4, <1>5, <1>6 DEF RotateFlush

LEMMA ReturnKeepsSize ==
    ASSUME IInv, SizeBounded, NEW a \in Appender, ReturnFromAppend(a)
    PROVE  SizeBounded'
<1>1. /\ pc[a] = "written" /\ size' = size + 1 /\ Await(a, "idle", 0, files, current)
      /\ cancels' = cancels
  BY DEF ReturnFromAppend, bounds
<1>2. files \in Seq(File) /\ size \in Nat /\ cancels \in Nat
  BY BoundAssumption DEF IInv, TypeOK
<1>3. size' \in Nat /\ cancels' \in Nat /\ cancels <= cancels' /\ size + cancels + 1 <= size' + cancels'
  BY <1>1, <1>2
<1> QED
  BY <1>1, <1>2, <1>3, LeaveKeepsSize

LEMMA CancelKeepsSize ==
    ASSUME IInv, SizeBounded, NEW a \in Appender, Cancel(a)
    PROVE  SizeBounded'
<1>1. pc[a] # "idle" /\ cancels' = cancels + 1 /\ size' = size
  BY DEF Cancel
<1>2. a \in Task /\ TypeOK /\ files \in Seq(File)
  BY AtWork DEF IInv, TypeOK
<1>3. size \in Nat /\ cancels \in Nat
  BY <1>2, BoundAssumption DEF TypeOK
<1>4. size' \in Nat /\ cancels' \in Nat /\ cancels <= cancels' /\ size + cancels + 1 <= size' + cancels'
  BY <1>1, <1>3
<1>5. CASE Await(a, "idle", 0, files, current)
  BY <1>1, <1>2, <1>4, <1>5, LeaveKeepsSize
<1>6. CASE pc[a] = "close" /\ Await(a, "idle", 0, With(a, Closed(files[at[a]])), current)
  <2> DEFINE g == Closed(files[at[a]])
             fs == With(a, g)
  <2>1. at[a] \in DOMAIN files /\ files[at[a]] \in File
    BY <1>2, <1>6, AtWork
  <2>2. g \in File /\ Used(g) = Used(files[at[a]])
    BY <2>1, ClosedFile, UsedByFiles
  <2>3. Await(a, "idle", 0, fs, current)
    BY <1>6
  <2> HIDE DEF g
  <2>4. /\ fs \in Seq(File) /\ DOMAIN fs = DOMAIN files
        /\ \A f \in DOMAIN files : fs[f] = IF f = at[a] THEN g ELSE files[f]
    BY <1>2, <2>1, <2>2, WithUsed
  <2> HIDE DEF fs
  <2>5. \A f \in DOMAIN fs : f \in DOMAIN files /\ Used(fs[f]) = Used(files[f])
    BY <2>2, <2>4
  <2> QED
    BY <1>1, <1>4, <2>3, <2>4, <2>5, LeaveKeepsSize
<1>7. CASE pc[a] = "open" /\ Await(a, "idle", 0, Append(files, Opened(path[a])), current)
  <2> DEFINE fs == Append(files, Opened(path[a]))
  <2>1. path[a] \in 0 .. MaxTime
    BY <1>2 DEF TypeOK
  <2>2. /\ fs \in Seq(File) /\ DOMAIN files \subseteq DOMAIN fs
        /\ \A f \in DOMAIN fs : Used(fs[f]) = 0 \/ (f \in DOMAIN files /\ Used(fs[f]) = Used(files[f]))
    BY <1>2, <2>1, OpenedUsed
  <2>3. Await(a, "idle", 0, fs, current)
    BY <1>7
  <2> HIDE DEF fs
  <2> QED
    BY <1>1, <1>4, <2>2, <2>3, LeaveKeepsSize
<1> QED
  BY <1>5, <1>6, <1>7 DEF Cancel, With

LEMMA CommitKeepsSize ==
    ASSUME IInv, SizeBounded, Commit
    PROVE  SizeBounded'
<1>1. "commit" \in Task
  BY DEF Task
<1>2. CASE CommitBegin
  BY <1>1, <1>2, TurnKeepsSize DEF CommitBegin, bounds
<1>3. CASE FlushFile("commit", "flushed")
  BY <1>1, <1>3, FlushFileKeepsSize DEF FlushFile, With, bounds
<1>4. CASE /\ pc["commit"] = "flush"
           /\ Await("commit", "flushed", at["commit"], files, current)
           /\ UNCHANGED <<status, size, event, entry, path, now, bounds, ghosts>>
  BY <1>1, <1>4, TurnKeepsSize DEF bounds
<1>5. CASE CommitEnd
  BY <1>1, <1>5, TurnKeepsSize DEF CommitEnd, bounds
<1> QED
  BY <1>2, <1>3, <1>4, <1>5 DEF Commit, CommitFlush

LEMMA StopKeepsSize ==
    ASSUME IInv, SizeBounded, Stop
    PROVE  SizeBounded'
<1>1. "stop" \in Task /\ TypeOK
  BY DEF Task, IInv
<1>2. CASE StopBegin
  <2> DEFINE gs == files'
             held == at'
  <2>1. /\ pc' = [pc EXCEPT !["commit"] = "idle", !["stop"] = IF event = "clear" THEN "final" ELSE "flush"]
        /\ at' = [at EXCEPT !["commit"] = 0, !["stop"] = current]
        /\ gs = Reclaim(files, current, held)
        /\ current' = current /\ size' = size /\ cancels' = cancels
    BY <1>2 DEF StopBegin, bounds
  <2>2. \A a \in Appender : pc'[a] = pc[a] /\ at'[a] = at[a]
    <3> TAKE a \in Appender
    <3>1. a \in Task /\ a # "commit" /\ a # "stop"
      BY AppenderAssumption DEF Task
    <3>2. pc \in [Task -> Pc] /\ at \in [Task -> 0 .. Len(files)]
      BY <1>1 DEF TypeOK, Pc
    <3> QED
      BY <2>1, <3>1, <3>2
  <2>3. files \in Seq(File)
    BY <1>1 DEF TypeOK
  <2> HIDE DEF gs, held
  <2>4. gs \in Seq(File) /\ DOMAIN gs = DOMAIN files /\ \A f \in DOMAIN gs : Used(gs[f]) = Used(files[f])
    BY <2>1, <2>3, ReclaimUsed
  <2>5. \A f \in DOMAIN gs : f \in DOMAIN files /\ Used(gs[f]) <= Used(files[f])
    <3>1. \A f \in DOMAIN files : Used(files[f]) \in Nat
      BY <2>3, UsedCount
    <3> QED
      BY <2>4, <3>1
  <2> QED
    BY <1>1, <2>1, <2>2, <2>4, <2>5, OtherSteps DEF gs
<1>3. CASE StopFsync
  <2>1. CASE files[at["stop"]].state = "open"
    BY <1>1, <1>3, <2>1, FlushFileKeepsSize DEF StopFsync, With, bounds
  <2>2. CASE files[at["stop"]].state # "open"
    BY <1>1, <1>3, <2>2, TurnKeepsSize DEF StopFsync, bounds
  <2> QED
    BY <2>1, <2>2
<1>4. CASE StopFlush
  <2>1. CASE files[at["stop"]].state = "open"
    BY <1>1, <1>4, <2>1, FlushFileKeepsSize DEF StopFlush, With, bounds
  <2>2. CASE files[at["stop"]].state # "open"
    BY <1>1, <1>4, <2>2, TurnKeepsSize DEF StopFlush, bounds
  <2> QED
    BY <2>1, <2>2
<1>5. CASE StopClose
  BY <1>1, <1>5, CloseFileKeepsSize DEF StopClose, With, bounds
<1> QED
  BY <1>2, <1>3, <1>4, <1>5 DEF Stop

LEMMA RestartKeepsSize ==
    ASSUME IInv, SizeBounded, Crash \/ Start
    PROVE  SizeBounded'
<1>1. /\ TypeOK /\ files \in Seq(File) /\ current \in 0 .. Len(files) /\ size \in Nat
  BY DEF IInv, TypeOK
<1>2. cancels \in Nat /\ Bounded(files, pc, at, current, size, cancels)
  BY <1>1, BoundAssumption DEF TypeOK, SizeBounded
<1>3. CASE Crash
  <2> DEFINE gs == files'
             r == pc'
             s == at'
  <2>1. /\ gs = [f \in DOMAIN files |-> [path |-> files[f].path, content |-> files[f].content,
                                         buffer |-> <<>>, state |-> "closed"]]
        /\ r = [t \in Task |-> "idle"]
        /\ current' = 0 /\ size' = 0 /\ cancels' = cancels
    BY <1>3 DEF Crash
  <2>2. gs \in Seq(File)
    BY <1>3, CrashKeepsIInv DEF IInv, TypeOK
  <2>3. \A f \in DOMAIN gs : f \in DOMAIN files /\ Used(gs[f]) <= Used(files[f])
    <3> TAKE f \in DOMAIN gs
    <3>1. f \in DOMAIN files /\ gs[f].content = files[f].content /\ gs[f].buffer = <<>>
      BY <2>1
    <3>2. Len(files[f].content) \in Nat /\ Len(files[f].buffer) \in Nat
      BY <1>1, <3>1 DEF File
    <3>3. Len(gs[f].content) = Len(files[f].content) /\ Len(gs[f].buffer) = 0
      BY <3>1
    <3> QED
      BY <3>1, <3>2, <3>3 DEF Used
  <2>4. \A f : Users(r, s, "write", f) = {}
    BY <2>1 DEF Users, Task
  <2> HIDE DEF gs, r, s
  <2>5. NoneGrows(files, gs, pc, at, r, s)
    BY <2>3, <2>4 DEF NoneGrows
  <2>6. StillAdded(gs, pc, at, r, s, current, 0, size + cancels, 0 + cancels)
    BY DEF StillAdded
  <2>7. cancels <= cancels /\ 0 \in 0 .. Len(gs) /\ 0 \in Nat
    BY <1>2, <2>2
  <2>8. Bounded(gs, r, s, 0, 0, cancels)
    BY <1>1, <1>2, <2>2, <2>5, <2>6, <2>7, BoundedStays
  <2> QED
    BY <2>1, <2>8 DEF SizeBounded, gs, r, s
<1>4. CASE Start
  <2> DEFINE p == now + 1
             fs == Append(files, Opened(p))
  <2>1. /\ files' = fs /\ current' = Len(files) + 1
        /\ size' = size /\ cancels' = cancels /\ pc' = pc /\ at' = at
    BY <1>4 DEF Start, tasks, bounds
  <2>2. p \in 0 .. MaxTime
    BY <1>1, <1>4, BoundAssumption DEF TypeOK, Start
  <2> HIDE DEF p
  <2>3. fs \in Seq(File)
    BY <1>1, <2>2, OpenedUsed
  <2> QED
    BY <1>1, <2>1, <2>2, <2>3, NewFileKeepsSize
<1> QED
  BY <1>3, <1>4

\* At first there is one file with nothing in it.
LEMMA InitSize == Init => SizeBounded
<1> SUFFICES ASSUME Init PROVE SizeBounded
  OBVIOUS
<1>1. /\ files = <<Opened(0)>> /\ current = 1 /\ size = 0 /\ cancels = 0
  BY DEF Init
<1>2. \A f \in DOMAIN files : Used(files[f]) = 0
  <2>1. Used(Opened(0)) = 0
    BY DEF Used, Opened
  <2>2. \A f \in DOMAIN files : files[f] = Opened(0)
    BY <1>1
  <2> QED
    BY <2>1, <2>2
<1>3. \A w, f : /\ Cardinality(Users(pc, at, w, f)) \in Nat
               /\ Cardinality(Users(pc, at, w, f)) <= Cardinality(Appender)
               /\ Cardinality(Appender) \in Nat
  <2> TAKE w, f
  <2>1. Users(pc, at, w, f) \in SUBSET Appender
    BY DEF Users
  <2> HIDE DEF Users
  <2> QED
    BY <2>1, UsersCount
<1>4. 1 \in DOMAIN files
  BY <1>1
<1> QED
  BY <1>1, <1>2, <1>3, <1>4, FileSizeAssumption DEF SizeBounded, Bounded

LEMMA NextKeepsSize ==
    ASSUME IInv, SizeBounded, [Next]_vars
    PROVE  SizeBounded'
<1>1. ASSUME NEW a \in Appender, CallAppend(a) PROVE SizeBounded'
  BY <1>1, CallAppendKeepsSize
<1>2. ASSUME NEW a \in Appender, Proceed(a) PROVE SizeBounded'
  BY <1>2, RotateKeepsSize, WriteKeepsSize, ReturnKeepsSize DEF Proceed
<1>3. ASSUME NEW a \in Appender, Cancel(a) PROVE SizeBounded'
  BY <1>3, CancelKeepsSize
<1>4. CASE Commit \/ Stop
  BY <1>4, CommitKeepsSize, StopKeepsSize
<1>5. CASE Crash \/ Start
  BY <1>5, RestartKeepsSize
<1>6. CASE Tick \/ UNCHANGED vars
  <2>1. files' = files /\ pc' = pc /\ at' = at /\ current' = current /\ size' = size /\ cancels' = cancels
    BY <1>6 DEF Tick, vars, tasks, bounds
  <2> QED
    BY <2>1 DEF SizeBounded
<1> QED
  BY <1>1, <1>2, <1>3, <1>4, <1>5, <1>6 DEF Next
-----------------------------------------------------------------------------
\* The order of what recover() returns.  What a file holds, with what its buffer
\* will add, is one line of entries, which only grows at its end.
Line(f) == f.content \o f.buffer

\* An entry that had returned before e's call stands before e.
Ordered(fs, er) ==
    \A e \in Entry : \A d \in er[e] : \A f, g \in DOMAIN fs :
        \A i \in DOMAIN Line(fs[f]), j \in DOMAIN Line(fs[g]) :
            Line(fs[f])[i] = d /\ Line(fs[g])[j] = e => f < g \/ (f = g /\ i < j)

\* The files and the appends before a call know nothing of an append that is
\* called later or has not returned, and no two appends share an entry.
Known(fs, p, en, cl, er, rt) ==
    /\ \A f \in DOMAIN fs : In(Line(fs[f])) \subseteq 1 .. cl
    /\ \A e \in Entry : er[e] \subseteq 1 .. cl
    /\ \A a \in Appender : p[a] # "idle" =>
           /\ en[a] \notin rt
           /\ \A e \in Entry : en[a] \notin er[e]
           /\ \A b \in Appender : p[b] # "idle" /\ en[b] = en[a] => b = a

\* A task about to write does so behind every entry that had returned before.
OnTime(fs, p, q, en, er) ==
    \A a \in Appender : p[a] = "write" =>
        \A f \in DOMAIN fs : f <= q[a] \/ er[en[a]] \cap In(Line(fs[f])) = {}

\* Nothing is or will be written behind the current file.
Latest(fs, q, cur) ==
    cur # 0 => /\ \A f \in DOMAIN fs : f <= cur \/ In(Line(fs[f])) = {}
               /\ \A t \in Task : q[t] <= cur

\* A file that is empty for good
Spent(fs, q, cur, f) == In(Line(fs[f])) = {} /\ f # cur /\ \A t \in Task : q[t] # f

\* The files were named in the order they were opened, but for rotations that
\* overlapped and files that nothing was written to.
Named(fs, p, q, pa, cur, n, rd) ==
    /\ \A f \in DOMAIN fs : fs[f].path <= n
    /\ \A f, g \in DOMAIN fs : f < g /\ fs[g].path < fs[f].path => f \in rd \/ Spent(fs, q, cur, f)
    /\ \A a \in Appender : p[a] = "open" =>
           /\ pa[a] <= n
           /\ \A f \in DOMAIN fs : pa[a] < fs[f].path => f \in rd \/ Spent(fs, q, cur, f)

OrderInv ==
    /\ Ordered(files, earlier)
    /\ Known(files, pc, entry, calls, earlier, returned)
    /\ OnTime(files, pc, at, entry, earlier)
    /\ Latest(files, at, current)
    /\ Named(files, pc, at, path, current, now, rushed)

\* The files keep their names, and every entry was at its place already.
NoLonger(fs, gs) ==
    /\ \A f \in DOMAIN fs : f \in DOMAIN gs /\ gs[f].path = fs[f].path
    /\ \A f \in DOMAIN gs : \A i \in DOMAIN Line(gs[f]) :
           f \in DOMAIN fs /\ i \in DOMAIN Line(fs[f]) /\ Line(fs[f])[i] = Line(gs[f])[i]

LEMMA NoLongerReflexive == ASSUME NEW fs PROVE NoLonger(fs, fs)
BY DEF NoLonger

LEMMA NoLongerTransitive ==
    ASSUME NEW fs, NEW gs, NEW hs, NoLonger(fs, gs), NoLonger(gs, hs)
    PROVE  NoLonger(fs, hs)
<1> QED
  BY DEF NoLonger

\* A file holds no entry that it did not hold.
LEMMA NothingNew ==
    ASSUME NEW fs, NEW gs, NoLonger(fs, gs), NEW f \in DOMAIN gs
    PROVE  /\ f \notin DOMAIN fs => In(Line(gs[f])) = {}
           /\ f \in DOMAIN fs => In(Line(gs[f])) \subseteq In(Line(fs[f]))
<1> QED
  BY DEF NoLonger, In

\* Flushing and closing a file keep its line.
LEMMA LineOfFile ==
    ASSUME NEW f \in File
    PROVE  /\ Line(f) \in Seq(Entry)
           /\ Line(Flushed(f)) = Line(f) /\ Flushed(f).path = f.path
           /\ Line(Closed(f)) = Line(f) /\ Closed(f).path = f.path
<1>1. f.content \in Seq(Entry) /\ f.buffer \in Seq(Entry)
  BY DEF File
<1>2. Line(f) \in Seq(Entry) /\ Line(f) = f.content \o f.buffer
  BY <1>1 DEF Line
<1>3. ASSUME NEW s \in Seq(Entry) PROVE s \o <<>> = s
  OBVIOUS
<1>4. /\ Flushed(f).content = Line(f) /\ Flushed(f).buffer = <<>> /\ Flushed(f).path = f.path
      /\ Closed(f).content = Line(f) /\ Closed(f).buffer = <<>> /\ Closed(f).path = f.path
  BY <1>2 DEF Flushed, Closed
<1>5. Line(Flushed(f)) = Line(f) \o <<>> /\ Line(Closed(f)) = Line(f) \o <<>>
  BY <1>4 DEF Line
<1> QED
  BY <1>2, <1>3, <1>4, <1>5

\* A file just opened has an empty line.
LEMMA LineOfOpened ==
    ASSUME NEW p
    PROVE  DOMAIN Line(Opened(p)) = {} /\ In(Line(Opened(p))) = {} /\ Opened(p).path = p
<1>1. Opened(p).content = <<>> /\ Opened(p).buffer = <<>> /\ Opened(p).path = p
  BY DEF Opened
<1>2. <<>> \o <<>> = <<>>
  OBVIOUS
<1>3. Line(Opened(p)) = <<>>
  BY <1>1, <1>2 DEF Line
<1> QED
  BY <1>1, <1>3, InEmpty

\* Replacing one file by one with its line
LEMMA NoLongerOne ==
    ASSUME NEW fs \in Seq(File), NEW f \in DOMAIN fs, NEW g \in File,
           Line(g) = Line(fs[f]), g.path = fs[f].path
    PROVE  NoLonger(fs, [fs EXCEPT ![f] = g])
<1> DEFINE gs == [fs EXCEPT ![f] = g]
<1>1. DOMAIN gs = DOMAIN fs /\ \A h \in DOMAIN fs : gs[h] = IF h = f THEN g ELSE fs[h]
  OBVIOUS
<1> HIDE DEF gs
<1>2. \A h \in DOMAIN fs : gs[h].path = fs[h].path /\ Line(gs[h]) = Line(fs[h])
  BY <1>1
<1>3. NoLonger(fs, gs)
  BY <1>1, <1>2 DEF NoLonger
<1> QED
  BY <1>3 DEF gs

\* Opening one more file
LEMMA NoLongerAppend ==
    ASSUME NEW fs \in Seq(File), NEW p
    PROVE  NoLonger(fs, Append(fs, Opened(p)))
<1> DEFINE g == Opened(p)
           gs == Append(fs, g)
<1>1. /\ DOMAIN gs = DOMAIN fs \cup {Len(fs) + 1} /\ gs[Len(fs) + 1] = g
      /\ \A h \in DOMAIN fs : gs[h] = fs[h]
  OBVIOUS
<1>2. DOMAIN Line(g) = {}
  BY LineOfOpened
<1> HIDE DEF gs, g
<1>3. NoLonger(fs, gs)
  <2>1. \A h \in DOMAIN gs : h \in DOMAIN fs \/ DOMAIN Line(gs[h]) = {}
    BY <1>1, <1>2
  <2> QED
    BY <1>1, <2>1 DEF NoLonger
<1> QED
  BY <1>3 DEF gs, g

LEMMA NoLongerReclaim ==
    ASSUME NEW fs \in Seq(File), NEW cur, NEW held, NEW gs, gs = Reclaim(fs, cur, held)
    PROVE  gs \in Seq(File) /\ DOMAIN gs = DOMAIN fs /\ Len(gs) = Len(fs) /\ NoLonger(fs, gs)
<1>1. gs \in Seq(File) /\ DOMAIN gs = DOMAIN fs /\ Len(gs) = Len(fs)
  BY ReclaimFacts
<1>2. \A f \in DOMAIN fs : gs[f] = fs[f] \/ gs[f] = Closed(fs[f])
  BY DEF Reclaim
<1>3. \A f \in DOMAIN fs : fs[f] \in File
  OBVIOUS
<1>4. \A f \in DOMAIN fs : gs[f].path = fs[f].path /\ Line(gs[f]) = Line(fs[f])
  BY <1>2, <1>3, LineOfFile
<1> QED
  BY <1>1, <1>4 DEF NoLonger
-----------------------------------------------------------------------------
LEMMA OrderedStays ==
    ASSUME NEW fs, NEW gs, NEW er, Ordered(fs, er), NoLonger(fs, gs)
    PROVE  Ordered(gs, er)
<1> SUFFICES ASSUME NEW e \in Entry, NEW d \in er[e], NEW f \in DOMAIN gs, NEW g \in DOMAIN gs,
                    NEW i \in DOMAIN Line(gs[f]), NEW j \in DOMAIN Line(gs[g]),
                    Line(gs[f])[i] = d, Line(gs[g])[j] = e
             PROVE  f < g \/ (f = g /\ i < j)
  BY DEF Ordered
<1>1. /\ f \in DOMAIN fs /\ i \in DOMAIN Line(fs[f]) /\ Line(fs[f])[i] = d
      /\ g \in DOMAIN fs /\ j \in DOMAIN Line(fs[g]) /\ Line(fs[g])[j] = e
  BY DEF NoLonger
<1> QED
  BY <1>1 DEF Ordered

LEMMA KnownStays ==
    ASSUME NEW fs, NEW gs, NEW p, NEW r, NEW en, NEW eo, NEW cl, NEW er, NEW rt, NEW ru,
           Known(fs, p, en, cl, er, rt), NoLonger(fs, gs),
           \A a \in Appender : r[a] # "idle" => p[a] # "idle" /\ eo[a] = en[a] /\ en[a] \notin ru
    PROVE  Known(gs, r, eo, cl, er, ru)
<1>1. \A f \in DOMAIN gs : In(Line(gs[f])) \subseteq 1 .. cl
  <2> TAKE f \in DOMAIN gs
  <2>1. CASE f \in DOMAIN fs
    BY <2>1, NothingNew DEF Known
  <2>2. CASE f \notin DOMAIN fs
    BY <2>2, NothingNew
  <2> QED
    BY <2>1, <2>2
<1>2. \A a \in Appender : r[a] # "idle" =>
          /\ eo[a] \notin ru
          /\ \A e \in Entry : eo[a] \notin er[e]
          /\ \A b \in Appender : r[b] # "idle" /\ eo[b] = eo[a] => b = a
  <2> TAKE a \in Appender
  <2> HAVE r[a] # "idle"
  <2>1. p[a] # "idle" /\ eo[a] = en[a] /\ en[a] \notin ru
    OBVIOUS
  <2>2. \A e \in Entry : eo[a] \notin er[e]
    BY <2>1 DEF Known
  <2>3. ASSUME NEW b \in Appender, r[b] # "idle", eo[b] = eo[a] PROVE b = a
    <3>1. p[b] # "idle" /\ en[b] = en[a]
      BY <2>1, <2>3
    <3> QED
      BY <2>1, <3>1 DEF Known
  <2> QED
    BY <2>1, <2>2, <2>3
<1> QED
  BY <1>1, <1>2 DEF Known

LEMMA OnTimeStays ==
    ASSUME NEW fs, NEW gs, NEW p, NEW r, NEW q, NEW s, NEW en, NEW eo, NEW er,
           OnTime(fs, p, q, en, er), NoLonger(fs, gs),
           \A a \in Appender : r[a] = "write" =>
               \/ p[a] = "write" /\ s[a] = q[a] /\ eo[a] = en[a]
               \/ \A f \in DOMAIN gs : f <= s[a]
    PROVE  OnTime(gs, r, s, eo, er)
<1> SUFFICES ASSUME NEW a \in Appender, r[a] = "write", NEW f \in DOMAIN gs
             PROVE  f <= s[a] \/ er[eo[a]] \cap In(Line(gs[f])) = {}
  BY DEF OnTime
<1>1. CASE p[a] = "write" /\ s[a] = q[a] /\ eo[a] = en[a]
  <2>1. CASE f \in DOMAIN fs
    <3>1. f <= q[a] \/ er[en[a]] \cap In(Line(fs[f])) = {}
      BY <1>1, <2>1 DEF OnTime
    <3> QED
      BY <1>1, <2>1, <3>1, NothingNew
  <2>2. CASE f \notin DOMAIN fs
    BY <2>2, NothingNew
  <2> QED
    BY <2>1, <2>2
<1> QED
  BY <1>1

LEMMA LatestStays ==
    ASSUME NEW fs, NEW gs, NEW q, NEW s, NEW cur, NEW new,
           Latest(fs, q, cur), NoLonger(fs, gs), cur \in Nat,
           \/ new = cur /\ \A t \in Task : s[t] \in {0, q[t], cur}
           \/ new = 0
           \/ (\A f \in DOMAIN gs : f <= new) /\ \A t \in Task : s[t] <= new
    PROVE  Latest(gs, s, new)
<1>1. CASE new = cur /\ (\A t \in Task : s[t] \in {0, q[t], cur}) /\ cur # 0
  <2>1. ASSUME NEW f \in DOMAIN gs PROVE f <= cur \/ In(Line(gs[f])) = {}
    <3>1. CASE f \in DOMAIN fs
      <4>1. f <= cur \/ In(Line(fs[f])) = {}
        BY <1>1, <3>1 DEF Latest
      <4> QED
        BY <3>1, <4>1, NothingNew
    <3> QED
      BY <3>1, NothingNew
  <2>2. ASSUME NEW t \in Task PROVE s[t] <= cur
    <3>1. q[t] <= cur
      BY <1>1 DEF Latest
    <3>2. s[t] = 0 \/ s[t] = q[t] \/ s[t] = cur
      BY <1>1
    <3> QED
      BY <3>1, <3>2
  <2> QED
    BY <1>1, <2>1, <2>2 DEF Latest
<1>2. CASE (\A f \in DOMAIN gs : f <= new) /\ \A t \in Task : s[t] <= new
  BY <1>2 DEF Latest
<1>3. CASE new = 0
  BY <1>3 DEF Latest
<1> QED
  BY <1>1, <1>2, <1>3

\* A file that is empty for good stays so.
LEMMA SpentStays ==
    ASSUME NEW fs, NEW gs, NEW q, NEW s, NEW cur, NEW new, NEW f \in DOMAIN fs,
           Spent(fs, q, cur, f), NoLonger(fs, gs),
           new = cur \/ new \notin DOMAIN fs,
           \A t \in Task : s[t] \in {q[t], cur} \/ s[t] \notin DOMAIN fs
    PROVE  f \in DOMAIN gs /\ Spent(gs, s, new, f)
<1>1. In(Line(fs[f])) = {} /\ f # cur /\ \A t \in Task : q[t] # f
  BY DEF Spent
<1>2. f \in DOMAIN gs
  BY DEF NoLonger
<1>3. In(Line(gs[f])) = {}
  BY <1>1, <1>2, NothingNew
<1> QED
  BY <1>1, <1>2, <1>3 DEF Spent

\* At most one file is opened, and under a name that fits.
OpensOne(fs, gs, r, q, s, pb, cur, new, m, rd, rf) ==
    \A k \in DOMAIN gs \ DOMAIN fs :
        /\ \A f \in DOMAIN gs : f <= k /\ (f # k => f \in DOMAIN fs)
        /\ gs[k].path <= m
        /\ \A f \in DOMAIN fs : gs[k].path < fs[f].path => f \in rd \/ Spent(fs, q, cur, f)
        /\ \A a \in Appender : r[a] = "open" /\ pb[a] < gs[k].path => k \in rf \/ Spent(gs, s, new, k)

\* Tasks take up the current file or a new one, and names are made of the clock.
Turns(fs, p, r, q, s, pa, pb, cur, new, n) ==
    /\ new = cur \/ new \notin DOMAIN fs
    /\ \A t \in Task : s[t] \in {q[t], cur} \/ s[t] \notin DOMAIN fs
    /\ \A a \in Appender : r[a] = "open" => (p[a] = "open" /\ pb[a] = pa[a]) \/ pb[a] = n

LEMMA NamedStays ==
    ASSUME NEW fs \in Seq(File), NEW gs \in Seq(File), NEW p, NEW r, NEW q, NEW s,
           NEW pa \in [Appender -> 0 .. MaxTime], NEW pb, NEW cur, NEW new,
           NEW n \in Nat, NEW m \in Nat, n <= m, NEW rd, NEW rf, rd \subseteq rf,
           Named(fs, p, q, pa, cur, n, rd), NoLonger(fs, gs),
           Turns(fs, p, r, q, s, pa, pb, cur, new, n),
           OpensOne(fs, gs, r, q, s, pb, cur, new, m, rd, rf)
    PROVE  Named(gs, r, s, pb, new, m, rf)
<1>0. /\ \A f \in DOMAIN fs : f \in DOMAIN gs /\ gs[f].path = fs[f].path
      /\ \A f \in DOMAIN fs : f \in Nat /\ fs[f].path \in Nat
      /\ \A f \in DOMAIN gs : f \in Nat /\ gs[f].path \in Nat
  <2>1. \A f \in DOMAIN fs : f \in Nat /\ fs[f] \in File
    OBVIOUS
  <2>2. \A f \in DOMAIN gs : f \in Nat /\ gs[f] \in File
    OBVIOUS
  <2>3. \A x \in File : x.path \in Nat
    BY BoundAssumption DEF File
  <2> QED
    BY <2>1, <2>2, <2>3 DEF NoLonger
<1>1. ASSUME NEW f \in DOMAIN fs, f \in rd \/ Spent(fs, q, cur, f)
      PROVE  f \in rf \/ Spent(gs, s, new, f)
  BY <1>1, SpentStays DEF Turns
<1>2. ASSUME NEW f \in DOMAIN gs PROVE gs[f].path <= m
  <2>1. CASE f \in DOMAIN fs
    <3>1. fs[f].path <= n
      BY <2>1 DEF Named
    <3> QED
      BY <1>0, <2>1, <3>1
  <2> QED
    BY <1>2, <2>1 DEF OpensOne
<1>3. ASSUME NEW f \in DOMAIN gs, NEW g \in DOMAIN gs, f < g, gs[g].path < gs[f].path
      PROVE  f \in rf \/ Spent(gs, s, new, f)
  <2>1. f \in DOMAIN fs
    <3>1. CASE f \notin DOMAIN fs
      <4>1. g <= f
        BY <1>3, <3>1 DEF OpensOne
      <4> QED
        BY <1>0, <1>3, <4>1
    <3> QED
      BY <3>1
  <2>2. CASE g \in DOMAIN fs
    <3>1. f \in rd \/ Spent(fs, q, cur, f)
      BY <1>0, <1>3, <2>1, <2>2 DEF Named
    <3> QED
      BY <1>1, <2>1, <3>1
  <2>3. CASE g \notin DOMAIN fs
    <3>1. f \in rd \/ Spent(fs, q, cur, f)
      BY <1>0, <1>3, <2>1, <2>3 DEF OpensOne
    <3> QED
      BY <1>1, <2>1, <3>1
  <2> QED
    BY <2>2, <2>3
<1>4. ASSUME NEW a \in Appender, r[a] = "open"
      PROVE  /\ pb[a] <= m
             /\ \A f \in DOMAIN gs : pb[a] < gs[f].path => f \in rf \/ Spent(gs, s, new, f)
  <2>1. CASE p[a] = "open" /\ pb[a] = pa[a]
    <3>1. pa[a] \in Nat
      BY BoundAssumption
    <3>2. pb[a] <= m
      <4>1. pa[a] <= n
        BY <2>1 DEF Named
      <4> QED
        BY <2>1, <3>1, <4>1
    <3>3. ASSUME NEW f \in DOMAIN gs, pb[a] < gs[f].path PROVE f \in rf \/ Spent(gs, s, new, f)
      <4>1. CASE f \in DOMAIN fs
        <5>1. f \in rd \/ Spent(fs, q, cur, f)
          BY <1>0, <2>1, <3>3, <4>1 DEF Named
        <5> QED
          BY <1>1, <4>1, <5>1
      <4>2. CASE f \notin DOMAIN fs
        BY <1>4, <3>3, <4>2 DEF OpensOne
      <4> QED
        BY <4>1, <4>2
    <3> QED
      BY <3>2, <3>3
  <2>2. CASE pb[a] = n
    <3>1. ASSUME NEW f \in DOMAIN gs, pb[a] < gs[f].path PROVE f \in rf \/ Spent(gs, s, new, f)
      <4>1. CASE f \in DOMAIN fs
        <5>1. fs[f].path <= n /\ gs[f].path = fs[f].path
          BY <1>0, <4>1 DEF Named
        <5> QED
          BY <1>0, <2>2, <3>1, <4>1, <5>1
      <4>2. CASE f \notin DOMAIN fs
        BY <1>4, <3>1, <4>2 DEF OpensOne
      <4> QED
        BY <4>1, <4>2
    <3> QED
      BY <2>2, <3>1
  <2> QED
    BY <1>4, <2>1, <2>2 DEF Turns
<1> QED
  BY <1>2, <1>3, <1>4 DEF Named

\* A step in which no append begins or writes
LEMMA OrderStays ==
    ASSUME TypeOK, OrderInv, files' \in Seq(File), NoLonger(files, files'),
           calls' = calls, earlier' = earlier, now' \in Nat, now <= now', rushed \subseteq rushed',
           \A a \in Appender : pc'[a] # "idle" =>
               pc[a] # "idle" /\ entry'[a] = entry[a] /\ entry[a] \notin returned',
           \A a \in Appender : pc'[a] = "write" =>
               \/ pc[a] = "write" /\ at'[a] = at[a]
               \/ at'[a] = Len(files'),
           \A a \in Appender : pc'[a] = "open" =>
               (pc[a] = "open" /\ path'[a] = path[a]) \/ path'[a] = now,
           \/ current' = current /\ \A t \in Task : at'[t] \in {0, at[t], current}
           \/ current' = 0 /\ \A t \in Task : at'[t] = 0
           \/ /\ current' = Len(files') /\ current' \notin DOMAIN files
              /\ \A t \in Task : at'[t] \in {0, at[t], current'},
           \A k \in DOMAIN files' \ DOMAIN files :
               /\ k = Len(files) + 1 /\ Len(files') = k
               /\ files'[k].path <= now'
               /\ \A f \in DOMAIN files : files'[k].path < files[f].path =>
                      f \in rushed \/ Spent(files, at, current, f)
               /\ \A a \in Appender : pc'[a] = "open" /\ path'[a] < files'[k].path =>
                      k \in rushed' \/ Spent(files', at', current', k)
    PROVE  OrderInv'
<1> DEFINE gs == files'
           r == pc'
           s == at'
           eo == entry'
           pb == path'
           new == current'
           m == now'
           rf == rushed'
           ru == returned'
<1>1. /\ files \in Seq(File) /\ current \in 0 .. Len(files) /\ at \in [Task -> 0 .. Len(files)]
      /\ path \in [Appender -> 0 .. MaxTime] /\ now \in Nat /\ gs \in Seq(File) /\ m \in Nat
      /\ Len(files) \in Nat /\ Len(gs) \in Nat /\ DOMAIN files = 1 .. Len(files) /\ DOMAIN gs = 1 .. Len(gs)
      /\ current \in Nat
  BY BoundAssumption DEF TypeOK
<1>2. DOMAIN files \subseteq DOMAIN gs /\ Len(files) <= Len(gs)
  <2>1. DOMAIN files \subseteq DOMAIN gs
    BY DEF NoLonger
  <2> QED
    BY <1>1, <2>1
<1>3. /\ \A a \in Appender : r[a] # "idle" => pc[a] # "idle" /\ eo[a] = entry[a] /\ entry[a] \notin ru
      /\ \A a \in Appender : r[a] = "write" => (pc[a] = "write" /\ s[a] = at[a]) \/ s[a] = Len(gs)
      /\ \A a \in Appender : r[a] = "open" => (pc[a] = "open" /\ pb[a] = path[a]) \/ pb[a] = now
      /\ \/ new = current /\ \A t \in Task : s[t] \in {0, at[t], current}
         \/ new = 0 /\ \A t \in Task : s[t] = 0
         \/ new = Len(gs) /\ new \notin DOMAIN files /\ \A t \in Task : s[t] \in {0, at[t], new}
      /\ \A k \in DOMAIN gs \ DOMAIN files :
             /\ k = Len(files) + 1 /\ Len(gs) = k
             /\ gs[k].path <= m
             /\ \A f \in DOMAIN files : gs[k].path < files[f].path =>
                    f \in rushed \/ Spent(files, at, current, f)
             /\ \A a \in Appender : r[a] = "open" /\ pb[a] < gs[k].path =>
                    k \in rf \/ Spent(gs, s, new, k)
  BY DEF Spent
<1>9. calls' = calls /\ earlier' = earlier /\ now <= m /\ rushed \subseteq rf /\ NoLonger(files, gs)
  OBVIOUS
<1> HIDE DEF gs, r, s, eo, pb, new, m, rf, ru
<1>4. \A a \in Appender : r[a] = "write" =>
          \/ pc[a] = "write" /\ s[a] = at[a] /\ eo[a] = entry[a]
          \/ \A f \in DOMAIN gs : f <= s[a]
  <2> TAKE a \in Appender
  <2> HAVE r[a] = "write"
  <2>1. CASE pc[a] = "write" /\ s[a] = at[a]
    BY <1>3, <2>1
  <2>2. CASE s[a] = Len(gs)
    BY <1>1, <2>2
  <2> QED
    BY <1>3, <2>1, <2>2
<1>5. \A t \in Task : at[t] \in 0 .. Len(files)
  BY <1>1
<1>6. /\ new = current \/ new \notin DOMAIN files
      /\ \A t \in Task : s[t] \in {at[t], current} \/ s[t] \notin DOMAIN files
  <2>1. 0 \notin DOMAIN files
    BY <1>1
  <2> QED
    BY <1>3, <2>1
<1>7. \/ new = current /\ \A t \in Task : s[t] \in {0, at[t], current}
      \/ new = 0
      \/ (\A f \in DOMAIN gs : f <= new) /\ \A t \in Task : s[t] <= new
  <2>1. CASE new = Len(gs) /\ \A t \in Task : s[t] \in {0, at[t], new}
    <3>1. \A f \in DOMAIN gs : f <= new
      BY <1>1, <2>1
    <3>2. \A t \in Task : s[t] <= new
      <4> TAKE t \in Task
      <4>1. at[t] \in 0 .. Len(files) /\ (s[t] = 0 \/ s[t] = at[t] \/ s[t] = new)
        BY <1>5, <2>1
      <4> QED
        BY <1>1, <1>2, <2>1, <4>1
    <3> QED
      BY <3>1, <3>2
  <2> QED
    BY <1>3, <2>1
<1>8. OpensOne(files, gs, r, at, s, pb, current, new, m, rushed, rf)
  <2> SUFFICES ASSUME NEW k \in DOMAIN gs \ DOMAIN files
               PROVE  /\ \A f \in DOMAIN gs : f <= k /\ (f # k => f \in DOMAIN files)
                      /\ gs[k].path <= m
                      /\ \A f \in DOMAIN files : gs[k].path < files[f].path =>
                             f \in rushed \/ Spent(files, at, current, f)
                      /\ \A a \in Appender : r[a] = "open" /\ pb[a] < gs[k].path =>
                             k \in rf \/ Spent(gs, s, new, k)
    BY DEF OpensOne
  <2>1. k = Len(files) + 1 /\ Len(gs) = k
    BY <1>3
  <2>2. \A f \in DOMAIN gs : f <= k /\ (f # k => f \in DOMAIN files)
    BY <1>1, <2>1, SMTT(20)
  <2> QED
    BY <1>3, <2>2
<1>10. Ordered(gs, earlier)
  BY <1>9, OrderedStays DEF OrderInv
<1>11. Known(gs, r, eo, calls, earlier, ru)
  BY <1>3, <1>9, KnownStays DEF OrderInv
<1>12. OnTime(gs, r, s, eo, earlier)
  BY <1>4, <1>9, OnTimeStays DEF OrderInv
<1>13. Latest(gs, s, new)
  BY <1>1, <1>7, <1>9, LatestStays DEF OrderInv
<1>14. Named(gs, r, s, pb, new, m, rf)
  <2>1. Named(files, pc, at, path, current, now, rushed)
    BY DEF OrderInv
  <2>2. Turns(files, pc, r, at, s, path, pb, current, new, now)
    BY <1>3, <1>6 DEF Turns
  <2> QED
    BY <1>1, <1>8, <1>9, <2>1, <2>2, NamedStays
<1> QED
  BY <1>9, <1>10, <1>11, <1>12, <1>13, <1>14 DEF OrderInv, gs, r, s, eo, pb, new, m, rf, ru
-----------------------------------------------------------------------------
\* What a step that ends in Await does to the lines and the tasks
LEMMA AwaitLines ==
    ASSUME TypeOK, NEW t \in Task, NEW what, NEW fs \in Seq(File), NEW f, NEW cur,
           NoLonger(files, fs), Await(t, what, f, fs, cur)
    PROVE  /\ current' = cur /\ files' \in Seq(File) /\ DOMAIN files' = DOMAIN fs /\ Len(files') = Len(fs)
           /\ NoLonger(fs, files') /\ NoLonger(files, files')
           /\ pc'[t] = what /\ at'[t] = f
           /\ \A u \in Task : u # t => pc'[u] = pc[u] /\ at'[u] = at[u]
<1>1. /\ pc' = [pc EXCEPT ![t] = what] /\ at' = [at EXCEPT ![t] = f]
      /\ current' = cur /\ files' = Reclaim(fs, cur, at')
  BY DEF Await
<1> DEFINE gs == files'
           held == at'
<1>2. gs = Reclaim(fs, cur, held)
  BY <1>1
<1> HIDE DEF gs, held
<1>3. gs \in Seq(File) /\ DOMAIN gs = DOMAIN fs /\ Len(gs) = Len(fs) /\ NoLonger(fs, gs)
  BY <1>2, NoLongerReclaim
<1>4. NoLonger(files, gs)
  BY <1>3, NoLongerTransitive
<1> QED
  BY <1>1, <1>3, <1>4 DEF TypeOK, gs

\* A task moves on over the same files, or lets go; its append may return.
LEMMA MoveKeepsOrder ==
    ASSUME IInv, OrderInv, NEW t \in Task, NEW what, what # "write", NEW f \in {0, at[t], current},
           NEW fs \in Seq(File), DOMAIN fs = DOMAIN files, NoLonger(files, fs),
           Await(t, what, f, fs, current),
           calls' = calls, earlier' = earlier, now' = now, rushed' = rushed,
           t \in Appender => pc[t] # "idle",
           \/ returned' = returned
           \/ t \in Appender /\ what = "idle" /\ returned' = returned \cup {entry[t]},
           \A a \in Appender : entry'[a] = entry[a] \/ (a = t /\ what = "idle"),
           \A a \in Appender : path'[a] = path[a] \/ a = t,
           what = "open" => path'[t] = now
    PROVE  OrderInv'
<1>1. /\ TypeOK /\ files \in Seq(File) /\ now \in Nat
  BY BoundAssumption DEF IInv, TypeOK
<1>2. /\ current' = current /\ files' \in Seq(File) /\ DOMAIN files' = DOMAIN files
      /\ NoLonger(files, files')
      /\ pc'[t] = what /\ at'[t] = f
      /\ \A u \in Task : u # t => pc'[u] = pc[u] /\ at'[u] = at[u]
  BY <1>1, AwaitLines
<1>3. \A a \in Appender : a \in Task
  BY DEF Task
<1>4. ASSUME NEW a \in Appender, pc'[a] # "idle"
      PROVE  pc[a] # "idle" /\ entry'[a] = entry[a] /\ entry[a] \notin returned'
  <2>1. pc[a] # "idle" /\ entry'[a] = entry[a]
    BY <1>2, <1>3, <1>4
  <2>2. entry[a] \notin returned /\ \A b \in Appender : pc[b] # "idle" /\ entry[b] = entry[a] => b = a
    BY <2>1 DEF OrderInv, Known
  <2>3. CASE t \in Appender /\ what = "idle" /\ returned' = returned \cup {entry[t]}
    <3>1. t # a
      BY <1>2, <1>4, <2>3
    <3> QED
      BY <2>1, <2>2, <2>3, <3>1
  <2> QED
    BY <2>1, <2>2, <2>3
<1>5. \A a \in Appender : pc'[a] = "write" => pc[a] = "write" /\ at'[a] = at[a]
  BY <1>2, <1>3
<1>6. \A a \in Appender : pc'[a] = "open" => (pc[a] = "open" /\ path'[a] = path[a]) \/ path'[a] = now
  BY <1>2, <1>3
<1>7. \A u \in Task : at'[u] \in {0, at[u], current}
  BY <1>2
<1>8. now' \in Nat /\ now <= now' /\ rushed \subseteq rushed' /\ DOMAIN files' \ DOMAIN files = {}
  BY <1>1, <1>2
<1> QED
  BY <1>1, <1>2, <1>4, <1>5, <1>6, <1>7, <1>8, OrderStays

\* Flushing or closing the file a task uses
LEMMA WithLine ==
    ASSUME IInv, NEW t \in Task, pc[t] \notin {"idle", "open"},
           NEW g \in {Flushed(files[at[t]]), Closed(files[at[t]])}
    PROVE  /\ With(t, g) \in Seq(File) /\ DOMAIN With(t, g) = DOMAIN files
           /\ NoLonger(files, With(t, g))
<1>1. files \in Seq(File) /\ at[t] \in DOMAIN files /\ files[at[t]] \in File
  BY AtWork
<1>2. g \in File /\ Line(g) = Line(files[at[t]]) /\ g.path = files[at[t]].path
  BY <1>1, FlushedFile, ClosedFile, LineOfFile
<1>3. [files EXCEPT ![at[t]] = g] \in Seq(File) /\ DOMAIN [files EXCEPT ![at[t]] = g] = DOMAIN files
  BY <1>1, <1>2
<1> QED
  BY <1>1, <1>2, <1>3, NoLongerOne DEF With

\* The steps of a rotation and of a failing append, but for the open
LEMMA RotationKeepsOrder ==
    ASSUME IInv, OrderInv, NEW a \in Appender, RotateFlush(a) \/ RotateFlushed(a) \/ RotateClose(a)
    PROVE  OrderInv'
<1>1. /\ a \in Task /\ files \in Seq(File) /\ NoLonger(files, files)
      /\ path \in [Appender -> 0 .. MaxTime]
  BY NoLongerReflexive DEF Task, IInv, TypeOK
<1>2. CASE FlushFile(a, "flushed")
  <2> DEFINE g == Flushed(files[at[a]])
             fs == With(a, g)
  <2>1. /\ pc[a] = "flush" /\ Await(a, "flushed", at[a], fs, current)
        /\ UNCHANGED <<status, size, event, entry, path, now, bounds, ghosts>>
    BY <1>2 DEF FlushFile, With
  <2>2. fs \in Seq(File) /\ DOMAIN fs = DOMAIN files /\ NoLonger(files, fs)
    BY <1>1, <2>1, WithLine
  <2> HIDE DEF fs
  <2>3. /\ calls' = calls /\ earlier' = earlier /\ now' = now /\ rushed' = rushed
        /\ returned' = returned /\ entry' = entry /\ path' = path
    BY <2>1 DEF bounds, ghosts
  <2> QED
    BY <1>1, <2>1, <2>2, <2>3, MoveKeepsOrder
<1>3. CASE pc[a] = "flush" /\ Fail(a)
  <2>1. /\ Await(a, "idle", 0, files, current) /\ entry' = [entry EXCEPT ![a] = 0]
        /\ calls' = calls /\ earlier' = earlier /\ now' = now /\ rushed' = rushed
        /\ returned' = returned /\ path' = path
    BY <1>3 DEF Fail, bounds, ghosts
  <2>2. \A b \in Appender : entry'[b] = entry[b] \/ b = a
    BY <2>1 DEF IInv, TypeOK
  <2> QED
    BY <1>1, <1>3, <2>1, <2>2, MoveKeepsOrder
<1>4. CASE RotateFlushed(a)
  <2>1. /\ pc[a] = "flushed" /\ Await(a, "close", current, files, current)
        /\ calls' = calls /\ earlier' = earlier /\ now' = now /\ rushed' = rushed
        /\ returned' = returned /\ entry' = entry /\ path' = path
    BY <1>4 DEF RotateFlushed, bounds, ghosts
  <2> QED
    BY <1>1, <2>1, MoveKeepsOrder
<1>5. CASE RotateClose(a)
  <2> DEFINE g == Closed(files[at[a]])
             fs == With(a, g)
  <2>1. /\ pc[a] = "close" /\ Await(a, "open", 0, fs, current)
        /\ path' = [path EXCEPT ![a] = now]
        /\ calls' = calls /\ earlier' = earlier /\ now' = now /\ rushed' = rushed
        /\ returned' = returned /\ entry' = entry
    BY <1>5 DEF RotateClose, With, bounds, ghosts
  <2>2. fs \in Seq(File) /\ DOMAIN fs = DOMAIN files /\ NoLonger(files, fs)
    BY <1>1, <2>1, WithLine
  <2> HIDE DEF fs
  <2>3. path'[a] = now /\ \A b \in Appender : path'[b] = path[b] \/ b = a
    BY <1>1, <2>1
  <2> QED
    BY <1>1, <2>1, <2>2, <2>3, MoveKeepsOrder
<1> QED
  BY <1>2, <1>3, <1>4, <1>5 DEF RotateFlush

LEMMA ReturnKeepsOrder ==
    ASSUME IInv, OrderInv, NEW a \in Appender, ReturnFromAppend(a)
    PROVE  OrderInv'
<1>1. /\ a \in Task /\ files \in Seq(File) /\ NoLonger(files, files)
  BY NoLongerReflexive DEF Task, IInv, TypeOK
<1>2. /\ pc[a] = "written" /\ Await(a, "idle", 0, files, current)
      /\ entry' = [entry EXCEPT ![a] = 0] /\ returned' = returned \cup {entry[a]}
      /\ calls' = calls /\ earlier' = earlier /\ now' = now /\ rushed' = rushed /\ path' = path
  BY DEF ReturnFromAppend, bounds
<1>3. \A b \in Appender : entry'[b] = entry[b] \/ b = a
  BY <1>2 DEF IInv, TypeOK
<1> QED
  BY <1>1, <1>2, <1>3, MoveKeepsOrder

LEMMA CommitKeepsOrder ==
    ASSUME IInv, OrderInv, Commit
    PROVE  OrderInv'
<1> DEFINE t == "commit"
<1>1. t \in Task /\ t \notin Appender /\ files \in Seq(File) /\ NoLonger(files, files)
  BY NoLongerReflexive, AppenderAssumption DEF Task, IInv, TypeOK
<1>2. /\ calls' = calls /\ earlier' = earlier /\ now' = now /\ rushed' = rushed
      /\ returned' = returned /\ entry' = entry /\ path' = path
  BY DEF Commit, CommitBegin, CommitFlush, CommitEnd, FlushFile, bounds, ghosts
<1>3. CASE CommitBegin
  <2>1. Await(t, "flush", current, files, current)
    BY <1>3 DEF CommitBegin
  <2> HIDE DEF t
  <2> QED
    BY <1>1, <1>2, <2>1, MoveKeepsOrder
<1>4. CASE FlushFile("commit", "flushed")
  <2> DEFINE g == Flushed(files[at[t]])
             fs == With(t, g)
  <2>1. pc[t] = "flush" /\ Await(t, "flushed", at[t], fs, current)
    BY <1>4 DEF FlushFile, With
  <2> HIDE DEF t
  <2>2. fs \in Seq(File) /\ DOMAIN fs = DOMAIN files /\ NoLonger(files, fs)
    BY <1>1, <2>1, WithLine
  <2> HIDE DEF fs
  <2> QED
    BY <1>1, <1>2, <2>1, <2>2, MoveKeepsOrder
<1>5. CASE Await("commit", "flushed", at["commit"], files, current)
  <2>1. Await(t, "flushed", at[t], files, current)
    BY <1>5
  <2> HIDE DEF t
  <2> QED
    BY <1>1, <1>2, <2>1, MoveKeepsOrder
<1>6. CASE CommitEnd
  <2>1. Await(t, "idle", 0, files, current)
    BY <1>6 DEF CommitEnd
  <2> HIDE DEF t
  <2> QED
    BY <1>1, <1>2, <2>1, MoveKeepsOrder
<1> QED
  BY <1>3, <1>4, <1>5, <1>6 DEF Commit, CommitFlush

LEMMA StopKeepsOrder ==
    ASSUME IInv, OrderInv, Stop
    PROVE  OrderInv'
<1> DEFINE t == "stop"
           fl == With(t, Flushed(files[at[t]]))
           cl == With(t, Closed(files[at[t]]))
<1>1. /\ t \in Task /\ t \notin Appender /\ files \in Seq(File) /\ NoLonger(files, files)
      /\ Task = Appender \cup {"commit", "stop"} /\ "commit" \notin Appender
      /\ pc \in [Task -> Pc] /\ at \in [Task -> 0 .. Len(files)]
      /\ TypeOK /\ now \in Nat
  BY NoLongerReflexive, AppenderAssumption, BoundAssumption DEF Task, IInv, TypeOK, Pc
<1>2. /\ calls' = calls /\ earlier' = earlier /\ now' = now /\ rushed' = rushed
      /\ returned' = returned /\ entry' = entry /\ path' = path
  BY DEF Stop, StopBegin, StopFsync, StopFlush, StopClose, bounds, ghosts
<1>3. pc[t] # "idle" /\ pc[t] # "open" =>
          /\ fl \in Seq(File) /\ DOMAIN fl = DOMAIN files /\ NoLonger(files, fl)
          /\ cl \in Seq(File) /\ DOMAIN cl = DOMAIN files /\ NoLonger(files, cl)
  BY <1>1, WithLine
<1>4. CASE StopBegin
  <2> DEFINE gs == files'
             held == at'
  <2>1. /\ pc' = [pc EXCEPT !["commit"] = "idle", !["stop"] = IF event = "clear" THEN "final" ELSE "flush"]
        /\ at' = [at EXCEPT !["commit"] = 0, !["stop"] = current]
        /\ gs = Reclaim(files, current, held) /\ current' = current
    BY <1>4 DEF StopBegin
  <2>2. /\ \A a \in Appender : pc'[a] = pc[a] /\ at'[a] = at[a]
        /\ \A u \in Task : at'[u] \in {0, at[u], current}
    BY <1>1, <2>1
  <2> HIDE DEF gs, held
  <2>3. gs \in Seq(File) /\ DOMAIN gs = DOMAIN files /\ NoLonger(files, gs)
    BY <1>1, <2>1, NoLongerReclaim
  <2>4. files' \in Seq(File) /\ DOMAIN files' \ DOMAIN files = {} /\ NoLonger(files, files')
    BY <2>3 DEF gs
  <2>5. \A a \in Appender : pc'[a] # "idle" =>
            pc[a] # "idle" /\ entry'[a] = entry[a] /\ entry[a] \notin returned'
    BY <1>2, <2>2 DEF OrderInv, Known
  <2>6. now' \in Nat /\ now <= now' /\ rushed \subseteq rushed'
    BY <1>1, <1>2
  <2> QED
    BY <1>1, <1>2, <2>1, <2>2, <2>4, <2>5, <2>6, OrderStays
<1> HIDE DEF fl, cl
<1>5. CASE StopFsync
  <2>1. pc[t] = "final" /\ \E fs \in {fl, files} : Await(t, "flush", current, fs, current)
    BY <1>5 DEF StopFsync, With, fl
  <2> HIDE DEF t
  <2>2. PICK fs \in {fl, files} : Await(t, "flush", current, fs, current)
    BY <2>1
  <2>3. fs \in Seq(File) /\ DOMAIN fs = DOMAIN files /\ NoLonger(files, fs)
    BY <1>1, <1>3, <2>1
  <2> QED
    BY <1>1, <1>2, <2>2, <2>3, MoveKeepsOrder
<1>6. CASE StopFlush
  <2>1. /\ pc[t] = "flush"
        /\ Await(t, "close", current, fl, current) \/ Await(t, "idle", 0, files, current)
    BY <1>6 DEF StopFlush, With, fl
  <2> HIDE DEF t
  <2>2. CASE Await(t, "close", current, fl, current)
    BY <1>1, <1>2, <1>3, <2>1, <2>2, MoveKeepsOrder
  <2>3. CASE Await(t, "idle", 0, files, current)
    BY <1>1, <1>2, <2>1, <2>3, MoveKeepsOrder
  <2> QED
    BY <2>1, <2>2, <2>3
<1>7. CASE StopClose
  <2>1. pc[t] = "close" /\ Await(t, "idle", 0, cl, current)
    BY <1>7 DEF StopClose, With, cl
  <2> HIDE DEF t
  <2> QED
    BY <1>1, <1>2, <1>3, <2>1, MoveKeepsOrder
<1> QED
  BY <1>4, <1>5, <1>6, <1>7 DEF Stop
-----------------------------------------------------------------------------
\* The files with one more, named p
LEMMA OneMore ==
    ASSUME TypeOK, NEW p \in 0 .. MaxTime, NEW fs, fs = Append(files, Opened(p)),
           NEW k, k = Len(files) + 1
    PROVE  /\ fs \in Seq(File) /\ Len(fs) = k /\ DOMAIN fs \ DOMAIN files = {k} /\ k \in DOMAIN fs
           /\ DOMAIN files \subseteq DOMAIN fs
           /\ fs[k].path = p /\ NoLonger(files, fs) /\ k \notin DOMAIN files /\ k # 0
<1> DEFINE g == Opened(p)
<1>1. files \in Seq(File) /\ g \in File /\ g.path = p /\ NoLonger(files, fs)
  BY OpenedFile, LineOfOpened, NoLongerAppend DEF TypeOK
<1> HIDE DEF g
<1>2. fs = Append(files, g)
  BY DEF g
<1>3. /\ fs \in Seq(File) /\ Len(fs) = k /\ fs[k] = g
      /\ DOMAIN fs = 1 .. k /\ DOMAIN files = 1 .. Len(files) /\ Len(files) \in Nat
  BY <1>1, <1>2
<1> QED
  BY <1>1, <1>3

LEMMA RotateOpenKeepsOrder ==
    ASSUME IInv, OrderInv, NEW a \in Appender, RotateOpen(a)
    PROVE  OrderInv'
<1> DEFINE k == Len(files) + 1
           fs == Append(files, Opened(path[a]))
<1>1. /\ pc[a] = "open" /\ Await(a, "write", k, fs, k)
      /\ path' = [path EXCEPT ![a] = 0]
      /\ rushed' = IF \E b \in Appender \ {a} : Rotating(b) THEN rushed \cup {k} ELSE rushed
      /\ entry' = entry /\ now' = now /\ calls' = calls /\ earlier' = earlier /\ returned' = returned
  BY DEF RotateOpen, bounds
<1>2. /\ TypeOK /\ path \in [Appender -> 0 .. MaxTime] /\ path[a] \in 0 .. MaxTime /\ now \in Nat
      /\ at \in [Task -> 0 .. Len(files)] /\ files \in Seq(File)
  BY BoundAssumption DEF IInv, TypeOK
<1>3. /\ fs \in Seq(File) /\ Len(fs) = k /\ DOMAIN fs \ DOMAIN files = {k} /\ k \in DOMAIN fs
      /\ fs[k].path = path[a] /\ NoLonger(files, fs) /\ k \notin DOMAIN files
  BY <1>2, OneMore
<1> HIDE DEF fs
<1>4. /\ current' = k /\ files' \in Seq(File) /\ DOMAIN files' = DOMAIN fs /\ Len(files') = k
      /\ NoLonger(fs, files') /\ NoLonger(files, files')
      /\ pc'[a] = "write" /\ at'[a] = k
      /\ \A u \in Task : u # a => pc'[u] = pc[u] /\ at'[u] = at[u]
  <2>1. a \in Task
    BY DEF Task
  <2> QED
    BY <1>1, <1>2, <1>3, <2>1, AwaitLines
<1>5. \A b \in Appender : b \in Task /\ (b # a => path'[b] = path[b])
  BY <1>1, <1>2 DEF Task
<1>6. files'[k].path = path[a]
  BY <1>3, <1>4 DEF NoLonger
<1>7. /\ path[a] <= now
      /\ \A f \in DOMAIN files : path[a] < files[f].path => f \in rushed \/ Spent(files, at, current, f)
  BY <1>1 DEF OrderInv, Named
<1>8. \A b \in Appender : pc'[b] = "open" => k \in rushed' /\ pc[b] = "open" /\ path'[b] = path[b]
  BY <1>1, <1>4, <1>5 DEF Rotating
<1>9. \A h \in DOMAIN files' \ DOMAIN files :
          /\ h = Len(files) + 1 /\ Len(files') = h
          /\ files'[h].path <= now'
          /\ \A f \in DOMAIN files : files'[h].path < files[f].path =>
                 f \in rushed \/ Spent(files, at, current, f)
          /\ \A b \in Appender : pc'[b] = "open" /\ path'[b] < files'[h].path =>
                 h \in rushed' \/ Spent(files', at', current', h)
  <2> TAKE h \in DOMAIN files' \ DOMAIN files
  <2>1. h = k
    BY <1>3, <1>4
  <2> QED
    BY <1>1, <1>4, <1>6, <1>7, <1>8, <2>1
<1>10. \A b \in Appender : pc'[b] # "idle" =>
           pc[b] # "idle" /\ entry'[b] = entry[b] /\ entry[b] \notin returned'
  <2> TAKE b \in Appender
  <2> HAVE pc'[b] # "idle"
  <2>1. pc[b] # "idle"
    BY <1>1, <1>4, <1>5
  <2> QED
    BY <1>1, <2>1 DEF OrderInv, Known
<1>11. \A b \in Appender : pc'[b] = "write" => (pc[b] = "write" /\ at'[b] = at[b]) \/ at'[b] = Len(files')
  BY <1>4, <1>5
<1>12. /\ current' = Len(files') /\ current' \notin DOMAIN files
       /\ \A u \in Task : at'[u] \in {0, at[u], current'}
  BY <1>3, <1>4
<1>13. now' \in Nat /\ now <= now' /\ rushed \subseteq rushed'
  BY <1>1, <1>2
<1> HIDE DEF k
<1> QED
  BY <1>1, <1>2, <1>4, <1>8, <1>9, <1>10, <1>11, <1>12, <1>13, OrderStays

LEMMA CancelKeepsOrder ==
    ASSUME IInv, OrderInv, NEW a \in Appender, Cancel(a)
    PROVE  OrderInv'
<1>1. /\ pc[a] # "idle" /\ entry' = [entry EXCEPT ![a] = 0] /\ path' = [path EXCEPT ![a] = 0]
      /\ calls' = calls /\ earlier' = earlier /\ now' = now /\ rushed' = rushed /\ returned' = returned
  BY DEF Cancel
<1>2. /\ a \in Task /\ TypeOK /\ files \in Seq(File) /\ NoLonger(files, files)
      /\ path[a] \in 0 .. MaxTime /\ now \in Nat
      /\ \A b \in Appender : b # a => entry'[b] = entry[b] /\ path'[b] = path[b]
  BY <1>1, NoLongerReflexive, BoundAssumption DEF Task, IInv, TypeOK
<1>3. CASE Await(a, "idle", 0, files, current)
  BY <1>1, <1>2, <1>3, MoveKeepsOrder
<1>4. CASE pc[a] = "close" /\ Await(a, "idle", 0, [files EXCEPT ![at[a]] = Closed(@)], current)
  <2> DEFINE g == Closed(files[at[a]])
             fs == With(a, g)
  <2>1. pc[a] = "close" /\ Await(a, "idle", 0, fs, current)
    BY <1>4 DEF With
  <2>2. fs \in Seq(File) /\ DOMAIN fs = DOMAIN files /\ NoLonger(files, fs)
    BY <1>2, <2>1, WithLine
  <2> HIDE DEF fs
  <2> QED
    BY <1>1, <1>2, <2>1, <2>2, MoveKeepsOrder
<1>5. CASE pc[a] = "open" /\ Await(a, "idle", 0, Append(files, Opened(path[a])), current)
  <2> DEFINE k == Len(files) + 1
             fs == Append(files, Opened(path[a]))
  <2>1. /\ fs \in Seq(File) /\ Len(fs) = k /\ DOMAIN fs \ DOMAIN files = {k} /\ k \in DOMAIN fs
        /\ fs[k].path = path[a] /\ NoLonger(files, fs) /\ k \notin DOMAIN files /\ k # 0
    BY <1>2, OneMore
  <2>2. Await(a, "idle", 0, fs, current)
    BY <1>5
  <2> HIDE DEF fs
  <2>3. /\ current' = current /\ files' \in Seq(File) /\ DOMAIN files' = DOMAIN fs /\ Len(files') = k
        /\ NoLonger(fs, files') /\ NoLonger(files, files')
        /\ pc'[a] = "idle" /\ at'[a] = 0
        /\ \A u \in Task : u # a => pc'[u] = pc[u] /\ at'[u] = at[u]
    BY <1>2, <2>1, <2>2, AwaitLines
  <2>4. files'[k].path = path[a] /\ \A b \in Appender : b \in Task
    BY <2>1, <2>3 DEF NoLonger, Task
  <2>5. /\ path[a] <= now
        /\ \A f \in DOMAIN files : path[a] < files[f].path => f \in rushed \/ Spent(files, at, current, f)
    BY <1>5 DEF OrderInv, Named
  <2>6. Spent(files', at', current', k)
    <3> DEFINE gs == files'
    <3>1. In(Line(gs[k])) = {}
      <4>1. k \in DOMAIN gs /\ k \notin DOMAIN files /\ NoLonger(files, gs)
        BY <2>1, <2>3
      <4> HIDE DEF gs, k
      <4> QED
        BY <4>1, NothingNew
    <3>2. current \in 0 .. Len(files) /\ at \in [Task -> 0 .. Len(files)] /\ Len(files) \in Nat
      BY <1>2 DEF TypeOK
    <3>3. k # current'
      BY <2>3, <3>2
    <3>4. \A u \in Task : at'[u] # k
      BY <1>2, <2>1, <2>3, <3>2
    <3> QED
      BY <3>1, <3>3, <3>4 DEF Spent
  <2>7. \A h \in DOMAIN files' \ DOMAIN files :
            /\ h = Len(files) + 1 /\ Len(files') = h
            /\ files'[h].path <= now'
            /\ \A f \in DOMAIN files : files'[h].path < files[f].path =>
                   f \in rushed \/ Spent(files, at, current, f)
            /\ \A b \in Appender : pc'[b] = "open" /\ path'[b] < files'[h].path =>
                   h \in rushed' \/ Spent(files', at', current', h)
    <3> TAKE h \in DOMAIN files' \ DOMAIN files
    <3>1. h = k
      BY <2>1, <2>3
    <3> QED
      BY <1>1, <2>3, <2>4, <2>5, <2>6, <3>1
  <2>8. \A b \in Appender : pc'[b] # "idle" =>
            /\ b # a /\ pc[b] # "idle" /\ pc'[b] = pc[b] /\ at'[b] = at[b]
            /\ entry'[b] = entry[b] /\ path'[b] = path[b] /\ entry[b] \notin returned'
    BY <1>1, <1>2, <2>3, <2>4 DEF OrderInv, Known
  <2>9. \A u \in Task : at'[u] \in {0, at[u], current}
    BY <2>3
  <2>10. now' \in Nat /\ now <= now' /\ rushed \subseteq rushed'
    BY <1>1, <1>2
  <2> HIDE DEF k
  <2>11. /\ \A b \in Appender : pc'[b] = "write" => pc[b] = "write" /\ at'[b] = at[b]
         /\ \A b \in Appender : pc'[b] = "open" => pc[b] = "open" /\ path'[b] = path[b]
    BY <2>8
  <2> QED
    BY <1>1, <1>2, <2>3, <2>7, <2>8, <2>9, <2>10, <2>11, OrderStays
<1> QED
  BY <1>3, <1>4, <1>5 DEF Cancel

\* What a crash leaves of a line is its beginning.
LEMMA CrashKeepsOrder ==
    ASSUME IInv, OrderInv, Crash
    PROVE  OrderInv'
<1> DEFINE gs == files'
<1>1. /\ gs = [f \in DOMAIN files |-> [path |-> files[f].path, content |-> files[f].content,
                                       buffer |-> <<>>, state |-> "closed"]]
      /\ pc' = [t \in Task |-> "idle"] /\ at' = [t \in Task |-> 0] /\ current' = 0
      /\ now' = now /\ calls' = calls /\ earlier' = earlier /\ rushed' = rushed
  BY DEF Crash
<1>2. gs \in Seq(File)
  BY CrashKeepsIInv DEF IInv, TypeOK
<1>3. TypeOK /\ files \in Seq(File) /\ now \in Nat
  BY BoundAssumption DEF IInv, TypeOK
<1>4. DOMAIN gs = DOMAIN files
  BY <1>1
<1>5. ASSUME NEW f \in DOMAIN files
      PROVE  /\ gs[f].path = files[f].path
             /\ \A i \in DOMAIN Line(gs[f]) : i \in DOMAIN Line(files[f]) /\ Line(files[f])[i] = Line(gs[f])[i]
  <2> DEFINE c == files[f].content
             b == files[f].buffer
  <2>1. gs[f].path = files[f].path /\ gs[f].content = c /\ gs[f].buffer = <<>>
    BY <1>1
  <2>2. files[f] \in File
    BY <1>3
  <2>3. c \in Seq(Entry) /\ b \in Seq(Entry)
    BY <2>2 DEF File
  <2>4. Line(gs[f]) = c \o <<>> /\ Line(files[f]) = c \o b
    BY <2>1 DEF Line
  <2> HIDE DEF c, b
  <2>5. \A i \in DOMAIN (c \o <<>>) : i \in DOMAIN (c \o b) /\ (c \o b)[i] = (c \o <<>>)[i]
    BY <2>3
  <2> QED
    BY <2>1, <2>4, <2>5
<1>6. NoLonger(files, gs)
  BY <1>4, <1>5 DEF NoLonger
<1>7. \A t \in Task : at'[t] = 0
  BY <1>1
<1>8. \A a \in Appender : pc'[a] = "idle"
  BY <1>1 DEF Task
<1>9. files' \in Seq(File) /\ NoLonger(files, files') /\ DOMAIN files' \ DOMAIN files = {}
  BY <1>2, <1>4, <1>6
<1>10. now' \in Nat /\ now <= now' /\ rushed \subseteq rushed'
  BY <1>1, <1>3
<1> HIDE DEF gs
<1> QED
  BY <1>1, <1>3, <1>7, <1>8, <1>9, <1>10, OrderStays

\* A new process opens a file under a later name than all others.
LEMMA StartKeepsOrder ==
    ASSUME IInv, OrderInv, Start
    PROVE  OrderInv'
<1> DEFINE k == Len(files) + 1
           p == now + 1
           fs == Append(files, Opened(p))
<1>1. /\ status = "down" /\ now < MaxTime /\ now' = now + 1 /\ files' = fs /\ current' = k
      /\ pc' = pc /\ at' = at /\ entry' = entry /\ path' = path
      /\ calls' = calls /\ earlier' = earlier /\ rushed' = rushed /\ returned' = returned
  BY DEF Start, tasks, bounds, ghosts
<1>2. /\ TypeOK /\ files \in Seq(File) /\ now \in Nat /\ now + 1 \in 0 .. MaxTime
      /\ \A t \in Task : pc[t] = "idle" /\ at[t] = 0
  BY <1>1, BoundAssumption DEF IInv, TypeOK, Phases
<1>3. /\ fs \in Seq(File) /\ Len(fs) = k /\ DOMAIN fs \ DOMAIN files = {k} /\ k \in DOMAIN fs
      /\ fs[k].path = now + 1 /\ NoLonger(files, fs) /\ k \notin DOMAIN files
  <2>1. TypeOK /\ p \in 0 .. MaxTime
    BY <1>2
  <2> HIDE DEF p
  <2>2. /\ fs \in Seq(File) /\ Len(fs) = k /\ DOMAIN fs \ DOMAIN files = {k} /\ k \in DOMAIN fs
        /\ fs[k].path = p /\ NoLonger(files, fs) /\ k \notin DOMAIN files
    BY <2>1, OneMore
  <2> QED
    BY <2>2 DEF p
<1> HIDE DEF fs
<1>4. \A f \in DOMAIN files : ~(now + 1 < files[f].path)
  <2> TAKE f \in DOMAIN files
  <2>1. files[f] \in File /\ files[f].path <= now
    BY <1>2 DEF OrderInv, Named
  <2>2. files[f].path \in Nat
    BY <2>1, BoundAssumption DEF File
  <2> QED
    BY <1>2, <2>1, <2>2
<1>5. \A a \in Appender : pc'[a] = "idle"
  BY <1>1, <1>2 DEF Task
<1>6. \A h \in DOMAIN files' \ DOMAIN files :
          /\ h = Len(files) + 1 /\ Len(files') = h
          /\ files'[h].path <= now'
          /\ \A f \in DOMAIN files : files'[h].path < files[f].path =>
                 f \in rushed \/ Spent(files, at, current, f)
          /\ \A b \in Appender : pc'[b] = "open" /\ path'[b] < files'[h].path =>
                 h \in rushed' \/ Spent(files', at', current', h)
  <2> TAKE h \in DOMAIN files' \ DOMAIN files
  <2>1. h = k
    BY <1>1, <1>3
  <2> QED
    BY <1>1, <1>2, <1>3, <1>4, <1>5, <2>1
<1>7. /\ current' = Len(files') /\ current' \notin DOMAIN files /\ files' \in Seq(File)
      /\ NoLonger(files, files') /\ \A t \in Task : at'[t] \in {0, at[t], current'}
      /\ now' \in Nat /\ now <= now' /\ rushed \subseteq rushed'
  BY <1>1, <1>2, <1>3
<1> HIDE DEF k
<1> QED
  BY <1>1, <1>2, <1>5, <1>6, <1>7, OrderStays

LEMMA IdleKeepsOrder ==
    ASSUME IInv, OrderInv, Tick \/ UNCHANGED vars
    PROVE  OrderInv'
<1>1. /\ files' = files /\ current' = current /\ pc' = pc /\ at' = at /\ entry' = entry /\ path' = path
      /\ calls' = calls /\ earlier' = earlier /\ rushed' = rushed /\ returned' = returned
      /\ now' \in {now, now + 1}
  BY DEF Tick, vars, tasks, bounds, ghosts
<1>2. TypeOK /\ files \in Seq(File) /\ NoLonger(files, files) /\ now \in Nat
  BY NoLongerReflexive, BoundAssumption DEF IInv, TypeOK
<1>3. \A a \in Appender : pc[a] # "idle" => entry[a] \notin returned
  BY DEF OrderInv, Known
<1>4. now' \in Nat /\ now <= now' /\ NoLonger(files, files') /\ files' \in Seq(File)
  BY <1>1, <1>2
<1> QED
  BY <1>1, <1>2, <1>3, <1>4, OrderStays
-----------------------------------------------------------------------------
\* A new append comes after all that have returned, and nothing knows it yet.
LEMMA CallAppendKeepsOrder ==
    ASSUME IInv, OrderInv, NEW a \in Appender, CallAppend(a)
    PROVE  OrderInv'
<1> DEFINE e == calls + 1
           gs == files'
           r == pc'
           s == at'
           eo == entry'
           er == earlier'
<1>1. /\ status = "up" /\ pc[a] = "idle" /\ calls < MaxCalls
      /\ eo = [entry EXCEPT ![a] = e] /\ er = [earlier EXCEPT ![e] = returned]
      /\ \E w \in {"flush", "write"} : Await(a, w, current, files, current)
      /\ calls' = e /\ path' = path /\ now' = now /\ returned' = returned /\ rushed' = rushed
  BY DEF CallAppend
<1>2. PICK w \in {"flush", "write"} : Await(a, w, current, files, current)
  BY <1>1
<1>3. /\ TypeOK /\ files \in Seq(File) /\ NoLonger(files, files) /\ a \in Task
      /\ current \in Nat /\ current # 0 /\ now \in Nat /\ path \in [Appender -> 0 .. MaxTime]
      /\ calls \in Nat /\ e \in Entry /\ e \in 1 .. e /\ e \notin 1 .. calls /\ 1 .. calls \subseteq 1 .. e
      /\ entry \in [Appender -> Entry \cup {0}] /\ earlier \in [Entry -> SUBSET Entry]
      /\ returned \subseteq 1 .. calls
      /\ \A b \in Appender : b \in Task /\ (pc[b] # "idle" => entry[b] \in 1 .. calls)
  BY <1>1, NoLongerReflexive, BoundAssumption DEF IInv, TypeOK, Phases, Task, Entry
<1>4. /\ current' = current /\ gs \in Seq(File) /\ DOMAIN gs = DOMAIN files
      /\ NoLonger(files, gs)
      /\ r[a] = w /\ s[a] = current
      /\ \A u \in Task : u # a => r[u] = pc[u] /\ s[u] = at[u]
  BY <1>2, <1>3, AwaitLines
<1>5. /\ eo[a] = e /\ er[e] = returned
      /\ \A b \in Appender : b # a => eo[b] = entry[b]
      /\ \A x \in Entry : x # e => er[x] = earlier[x]
  BY <1>1, <1>3
<1>6. \A f \in DOMAIN gs : In(Line(gs[f])) \subseteq In(Line(files[f])) /\ In(Line(files[f])) \subseteq 1 .. calls
  <2> HIDE DEF gs
  <2> QED
    BY <1>4, NothingNew DEF OrderInv, Known
<1> HIDE DEF gs, r, s, eo, er, e
<1>7. Ordered(gs, er)
  <2> SUFFICES ASSUME NEW x \in Entry, NEW d \in er[x], NEW f \in DOMAIN gs, NEW g \in DOMAIN gs,
                      NEW i \in DOMAIN Line(gs[f]), NEW j \in DOMAIN Line(gs[g]),
                      Line(gs[f])[i] = d, Line(gs[g])[j] = x
               PROVE  f < g \/ (f = g /\ i < j)
    BY DEF Ordered
  <2>1. x # e
    <3>1. x \in In(Line(gs[g]))
      BY DEF In
    <3> QED
      BY <1>3, <1>6, <3>1
  <2>2. d \in earlier[x]
    BY <1>5, <2>1
  <2>3. /\ f \in DOMAIN files /\ i \in DOMAIN Line(files[f]) /\ Line(files[f])[i] = d
        /\ g \in DOMAIN files /\ j \in DOMAIN Line(files[g]) /\ Line(files[g])[j] = x
    BY <1>4 DEF NoLonger
  <2> QED
    BY <2>2, <2>3 DEF OrderInv, Ordered
<1>8. Known(gs, r, eo, e, er, returned)
  <2>1. \A f \in DOMAIN gs : In(Line(gs[f])) \subseteq 1 .. e
    BY <1>3, <1>6
  <2>2. \A x \in Entry : er[x] \subseteq 1 .. e
    <3>1. \A x \in Entry : earlier[x] \subseteq 1 .. calls
      BY DEF OrderInv, Known
    <3> QED
      BY <1>3, <1>5, <3>1
  <2>3. ASSUME NEW b \in Appender, r[b] # "idle"
        PROVE  /\ eo[b] \notin returned
               /\ \A x \in Entry : eo[b] \notin er[x]
               /\ \A c \in Appender : r[c] # "idle" /\ eo[c] = eo[b] => c = b
    <3>1. \A c \in Appender : c # a /\ r[c] # "idle" =>
              /\ pc[c] # "idle" /\ eo[c] = entry[c] /\ entry[c] \in 1 .. calls /\ eo[c] # e
      BY <1>3, <1>4, <1>5
    <3>2. CASE b = a
      <4>1. eo[b] = e /\ e \notin returned
        BY <1>3, <1>5, <3>2
      <4>2. \A x \in Entry : e \notin er[x]
        <5>1. \A x \in Entry : earlier[x] \subseteq 1 .. calls
          BY DEF OrderInv, Known
        <5> QED
          BY <1>3, <1>5, <5>1
      <4> QED
        BY <3>1, <3>2, <4>1, <4>2
    <3>3. CASE b # a
      <4>1. /\ entry[b] \notin returned
            /\ \A x \in Entry : entry[b] \notin earlier[x]
            /\ \A c \in Appender : pc[c] # "idle" /\ entry[c] = entry[b] => c = b
        BY <2>3, <3>1, <3>3 DEF OrderInv, Known
      <4>2. pc[b] # "idle" /\ eo[b] = entry[b] /\ eo[b] # e
        BY <2>3, <3>1, <3>3
      <4>3. \A x \in Entry : eo[b] \notin er[x]
        BY <1>5, <4>1, <4>2
      <4>4. ASSUME NEW c \in Appender, r[c] # "idle", eo[c] = eo[b] PROVE c = b
        <5>1. c # a
          BY <1>5, <4>2, <4>4
        <5>2. pc[c] # "idle" /\ eo[c] = entry[c]
          BY <3>1, <4>4, <5>1
        <5> QED
          BY <4>1, <4>2, <4>4, <5>2
      <4> QED
        BY <4>1, <4>2, <4>3, <4>4
    <3> QED
      BY <3>2, <3>3
  <2> QED
    BY <2>1, <2>2, <2>3 DEF Known
<1>9. OnTime(gs, r, s, eo, er)
  <2> SUFFICES ASSUME NEW b \in Appender, r[b] = "write", NEW f \in DOMAIN gs
               PROVE  f <= s[b] \/ er[eo[b]] \cap In(Line(gs[f])) = {}
    BY DEF OnTime
  <2>1. CASE b = a
    <3>1. f <= current \/ In(Line(files[f])) = {}
      BY <1>3, <1>4 DEF OrderInv, Latest
    <3> QED
      BY <1>4, <1>6, <2>1, <3>1
  <2>2. CASE b # a
    <3>1. pc[b] = "write" /\ s[b] = at[b] /\ eo[b] = entry[b] /\ entry[b] \in 1 .. calls
      BY <1>3, <1>4, <1>5, <2>2
    <3>2. entry[b] \in Entry /\ entry[b] # e
      BY <1>3, <3>1
    <3>3. er[eo[b]] = earlier[entry[b]]
      BY <1>5, <3>1, <3>2
    <3>4. f <= at[b] \/ earlier[entry[b]] \cap In(Line(files[f])) = {}
      BY <1>4, <3>1 DEF OrderInv, OnTime
    <3> QED
      BY <1>6, <3>1, <3>3, <3>4
  <2> QED
    BY <2>1, <2>2
<1>10. \A u \in Task : s[u] \in {0, at[u], current} /\ s[u] \in {at[u], current}
  BY <1>4
<1>11. Latest(gs, s, current)
  BY <1>3, <1>4, <1>10, LatestStays DEF OrderInv
<1>12. Named(gs, r, s, path, current, now, rushed)
  <2>1. \A b \in Appender : r[b] = "open" => pc[b] = "open"
    BY <1>3, <1>4
  <2>2. Turns(files, pc, r, at, s, path, path, current, current, now)
    BY <1>10, <2>1 DEF Turns
  <2>3. OpensOne(files, gs, r, at, s, path, current, current, now, rushed, rushed)
    BY <1>4 DEF OpensOne
  <2>4. Named(files, pc, at, path, current, now, rushed)
    BY DEF OrderInv
  <2>5. now <= now /\ rushed \subseteq rushed
    BY <1>3
  <2> QED
    BY <1>3, <1>4, <2>2, <2>3, <2>4, <2>5, NamedStays
<1> QED
  BY <1>1, <1>4, <1>7, <1>8, <1>9, <1>11, <1>12 DEF OrderInv, gs, r, s, eo, er

\* Entry e has been put at the end of the line of file w; nothing else is longer.
OneLonger(fs, gs, w, e) ==
    /\ DOMAIN gs = DOMAIN fs
    /\ \A f \in DOMAIN fs : gs[f].path = fs[f].path
    /\ \A f \in DOMAIN gs : \A i \in DOMAIN Line(gs[f]) :
           \/ i \in DOMAIN Line(fs[f]) /\ Line(fs[f])[i] = Line(gs[f])[i]
           \/ f = w /\ Line(gs[f])[i] = e /\ \A h \in DOMAIN Line(fs[f]) : h < i

LEMMA LineOfWritten ==
    ASSUME NEW f \in File, NEW e \in Entry, NEW kept \in {f.buffer, <<>>}
    PROVE  /\ Written(f, e, kept).path = f.path
           /\ \A i \in DOMAIN Line(Written(f, e, kept)) :
                  \/ i \in DOMAIN Line(f) /\ Line(f)[i] = Line(Written(f, e, kept))[i]
                  \/ Line(Written(f, e, kept))[i] = e /\ \A h \in DOMAIN Line(f) : h < i
<1> DEFINE c == f.content
           b == f.buffer
           g == Written(f, e, kept)
<1>1. c \in Seq(Entry) /\ b \in Seq(Entry)
  BY DEF File
<1>2. g.path = f.path /\ Line(f) = c \o b
  BY DEF Written, Line
<1>3. Line(g) = Append(c \o b, e)
  <2>1. CASE kept = b
    <3>1. g.content = c /\ g.buffer = Append(b, e)
      BY <2>1 DEF Written
    <3>2. Line(g) = c \o Append(b, e)
      BY <3>1 DEF Line
    <3> HIDE DEF c, b, g
    <3>3. c \o Append(b, e) = Append(c \o b, e)
      BY <1>1
    <3> QED
      BY <3>2, <3>3
  <2>2. CASE kept # b
    <3>1. g.content = c \o b /\ g.buffer = Append(<<>>, e)
      BY <2>2 DEF Written
    <3>2. Line(g) = (c \o b) \o Append(<<>>, e)
      BY <3>1 DEF Line
    <3> HIDE DEF c, b, g
    <3>3. (c \o b) \o Append(<<>>, e) = Append(c \o b, e)
      BY <1>1
    <3> QED
      BY <3>2, <3>3
  <2> QED
    BY <2>1, <2>2
<1> HIDE DEF c, b, g
<1> DEFINE l == c \o b
<1>4. l \in Seq(Entry) /\ Line(f) = l /\ Line(g) = Append(l, e)
  BY <1>1, <1>2, <1>3
<1> HIDE DEF l
<1>5. ASSUME NEW i \in DOMAIN Append(l, e)
      PROVE  \/ i \in DOMAIN l /\ l[i] = Append(l, e)[i]
             \/ Append(l, e)[i] = e /\ \A h \in DOMAIN l : h < i
  <2>1. i \in 1 .. Len(l) + 1 /\ Len(l) \in Nat /\ DOMAIN l = 1 .. Len(l)
    BY <1>4
  <2>2. CASE i <= Len(l)
    BY <1>4, <2>1, <2>2
  <2>3. CASE i = Len(l) + 1
    BY <1>4, <2>1, <2>3
  <2> QED
    BY <2>1, <2>2, <2>3
<1>6. \A i \in DOMAIN Line(g) :
          \/ i \in DOMAIN Line(f) /\ Line(f)[i] = Line(g)[i]
          \/ Line(g)[i] = e /\ \A h \in DOMAIN Line(f) : h < i
  BY <1>4, <1>5
<1> QED
  BY <1>2, <1>6 DEF g

\* A file holds what it held, and the file written to the new entry too.
LEMMA OneNew ==
    ASSUME NEW fs, NEW gs, NEW w, NEW e, OneLonger(fs, gs, w, e), NEW f \in DOMAIN gs
    PROVE  /\ f \in DOMAIN fs
           /\ In(Line(gs[f])) \subseteq In(Line(fs[f])) \cup {e}
           /\ f # w => In(Line(gs[f])) \subseteq In(Line(fs[f]))
BY DEF OneLonger, In

LEMMA OneLongerStays ==
    ASSUME NEW fs, NEW gs, NEW hs, NEW w, NEW e, OneLonger(fs, gs, w, e),
           NoLonger(gs, hs), DOMAIN hs = DOMAIN gs
    PROVE  OneLonger(fs, hs, w, e)
<1>1. \A f \in DOMAIN fs : hs[f].path = fs[f].path
  BY DEF OneLonger, NoLonger
<1>2. ASSUME NEW f \in DOMAIN hs, NEW i \in DOMAIN Line(hs[f])
      PROVE  \/ i \in DOMAIN Line(fs[f]) /\ Line(fs[f])[i] = Line(hs[f])[i]
             \/ f = w /\ Line(hs[f])[i] = e /\ \A h \in DOMAIN Line(fs[f]) : h < i
  <2>1. f \in DOMAIN gs /\ i \in DOMAIN Line(gs[f]) /\ Line(gs[f])[i] = Line(hs[f])[i]
    BY DEF NoLonger
  <2> QED
    BY <2>1 DEF OneLonger
<1>3. DOMAIN hs = DOMAIN fs
  BY DEF OneLonger
<1> QED
  BY <1>1, <1>2, <1>3 DEF OneLonger

\* An append writes at the end of its line, behind every entry it has to follow.
LEMMA WriteKeepsOrder ==
    ASSUME IInv, OrderInv, NEW a \in Appender, Write(a)
    PROVE  OrderInv'
<1> DEFINE w == at[a]
           e == entry[a]
<1>1. /\ pc[a] = "write" /\ a \in Task /\ TypeOK /\ files \in Seq(File) /\ NoLonger(files, files)
      /\ w \in DOMAIN files /\ files[w] \in File /\ w \in Nat /\ current \in Nat /\ current # 0
      /\ e \in 1 .. calls /\ e \in Entry
      /\ at \in [Task -> 0 .. Len(files)]
      /\ \A b \in Appender : b \in Task
  <2>1. pc[a] = "write" /\ TypeOK /\ \A b \in Appender : b \in Task
    BY DEF Write, IInv, Task
  <2>2. /\ files \in Seq(File) /\ w \in DOMAIN files /\ files[w] \in File /\ w \in Nat
        /\ current \in Nat /\ current # 0 /\ at \in [Task -> 0 .. Len(files)]
    BY <2>1, AtWork DEF TypeOK
  <2>3. e \in 1 .. calls /\ e \in Entry
    BY <2>1, BoundAssumption DEF IInv, TypeOK, Phases, Entry
  <2> QED
    BY <2>1, <2>2, <2>3, NoLongerReflexive
<1>2. CASE Fail(a)
  <2>1. /\ Await(a, "idle", 0, files, current) /\ entry' = [entry EXCEPT ![a] = 0]
        /\ calls' = calls /\ earlier' = earlier /\ now' = now /\ rushed' = rushed
        /\ returned' = returned /\ path' = path
    BY <1>2 DEF Fail, bounds, ghosts
  <2>2. \A b \in Appender : entry'[b] = entry[b] \/ b = a
    BY <2>1 DEF IInv, TypeOK
  <2> QED
    BY <1>1, <2>1, <2>2, MoveKeepsOrder
<1>3. ASSUME NEW kept \in {files[w].buffer, <<>>},
             Await(a, "written", w, With(a, Written(files[w], e, kept)), current),
             UNCHANGED <<status, size, event, entry, path, now, bounds, ghosts>>
      PROVE  OrderInv'
  <2> DEFINE g == Written(files[w], e, kept)
             fs == With(a, g)
             gs == files'
             r == pc'
             s == at'
  <2>1. /\ g \in File /\ g.path = files[w].path
        /\ \A i \in DOMAIN Line(g) :
               \/ i \in DOMAIN Line(files[w]) /\ Line(files[w])[i] = Line(g)[i]
               \/ Line(g)[i] = e /\ \A h \in DOMAIN Line(files[w]) : h < i
    BY <1>1, WrittenFile, LineOfWritten
  <2>2. Await(a, "written", w, fs, current)
    BY <1>3
  <2> HIDE DEF g
  <2>3. fs \in Seq(File) /\ DOMAIN fs = DOMAIN files /\ \A f \in DOMAIN files : fs[f] = IF f = w THEN g ELSE files[f]
    BY <1>1, <2>1 DEF With
  <2> HIDE DEF fs
  <2>4. OneLonger(files, fs, w, e)
    <3>1. \A f \in DOMAIN files : fs[f].path = files[f].path
      BY <2>1, <2>3
    <3>2. ASSUME NEW f \in DOMAIN fs, NEW i \in DOMAIN Line(fs[f])
          PROVE  \/ i \in DOMAIN Line(files[f]) /\ Line(files[f])[i] = Line(fs[f])[i]
                 \/ f = w /\ Line(fs[f])[i] = e /\ \A h \in DOMAIN Line(files[f]) : h < i
      <4>1. CASE f = w
        <5>1. fs[f] = g
          BY <1>1, <2>3, <4>1
        <5> HIDE DEF w, e
        <5> QED
          BY <2>1, <4>1, <5>1
      <4>2. CASE f # w
        BY <2>3, <4>2
      <4> QED
        BY <4>1, <4>2
    <3> QED
      BY <2>3, <3>1, <3>2 DEF OneLonger
  <2>5. /\ current' = current /\ gs \in Seq(File) /\ DOMAIN gs = DOMAIN fs /\ NoLonger(fs, gs)
        /\ r[a] = "written" /\ s[a] = w
        /\ \A u \in Task : u # a => r[u] = pc[u] /\ s[u] = at[u]
    <3> DEFINE held == at'
    <3>1. /\ pc' = [pc EXCEPT ![a] = "written"] /\ at' = [at EXCEPT ![a] = w]
          /\ current' = current /\ gs = Reclaim(fs, current, held)
      BY <2>2 DEF Await
    <3> HIDE DEF gs, held
    <3>2. gs \in Seq(File) /\ DOMAIN gs = DOMAIN fs /\ NoLonger(fs, gs)
      BY <2>3, <3>1, NoLongerReclaim
    <3> QED
      BY <1>1, <3>1, <3>2 DEF TypeOK
  <2>6. /\ entry' = entry /\ path' = path /\ now' = now /\ calls' = calls /\ earlier' = earlier
        /\ returned' = returned /\ rushed' = rushed
    BY <1>3 DEF bounds, ghosts
  <2> HIDE DEF gs, r, s, w, e
  <2>7. OneLonger(files, gs, w, e) /\ DOMAIN gs = DOMAIN files
    BY <2>3, <2>4, <2>5, OneLongerStays
  <2>8. \A f \in DOMAIN gs : /\ f \in DOMAIN files /\ gs[f].path = files[f].path
                             /\ In(Line(gs[f])) \subseteq In(Line(files[f])) \cup {e}
                             /\ f # w => In(Line(gs[f])) \subseteq In(Line(files[f]))
    <3> TAKE f \in DOMAIN gs
    <3>1. gs[f].path = files[f].path
      BY <2>7 DEF OneLonger
    <3> QED
      BY <2>7, <3>1, OneNew
  <2>9. /\ \A x \in Entry : e \notin earlier[x]
        /\ \A u \in Task : s[u] = at[u]
        /\ \A b \in Appender : r[b] # "idle" => pc[b] # "idle"
        /\ \A b \in Appender : r[b] = "write" => pc[b] = "write"
        /\ \A b \in Appender : r[b] = "open" => pc[b] = "open"
    BY <1>1, <2>5 DEF OrderInv, Known, w, e
  <2>10. Ordered(gs, earlier)
    <3> SUFFICES ASSUME NEW x \in Entry, NEW d \in earlier[x], NEW f \in DOMAIN gs, NEW h \in DOMAIN gs,
                        NEW i \in DOMAIN Line(gs[f]), NEW j \in DOMAIN Line(gs[h]),
                        Line(gs[f])[i] = d, Line(gs[h])[j] = x
                 PROVE  f < h \/ (f = h /\ i < j)
      BY DEF Ordered
    <3>1. i \in DOMAIN Line(files[f]) /\ Line(files[f])[i] = d
      BY <2>7, <2>9 DEF OneLonger
    <3>2. CASE j \in DOMAIN Line(files[h]) /\ Line(files[h])[j] = x
      BY <2>8, <3>1, <3>2 DEF OrderInv, Ordered
    <3>3. CASE h = w /\ x = e /\ \A k \in DOMAIN Line(files[h]) : k < j
      <4>1. f <= w \/ earlier[e] \cap In(Line(files[f])) = {}
        BY <1>1, <2>8 DEF OrderInv, OnTime, w, e
      <4>2. d \in earlier[e] \cap In(Line(files[f]))
        BY <3>1, <3>3 DEF In
      <4>3. f \in Nat
        BY <1>1, <2>8
      <4> QED
        BY <1>1, <3>1, <3>3, <4>1, <4>2, <4>3
    <3> QED
      BY <2>7, <3>2, <3>3 DEF OneLonger
  <2>11. Known(gs, r, entry, calls, earlier, returned)
    <3>1. \A f \in DOMAIN gs : In(Line(gs[f])) \subseteq 1 .. calls
      BY <1>1, <2>8 DEF OrderInv, Known
    <3> QED
      BY <2>9, <3>1 DEF OrderInv, Known
  <2>12. OnTime(gs, r, s, entry, earlier)
    <3> SUFFICES ASSUME NEW b \in Appender, r[b] = "write", NEW f \in DOMAIN gs
                 PROVE  f <= s[b] \/ earlier[entry[b]] \cap In(Line(gs[f])) = {}
      BY DEF OnTime
    <3>1. pc[b] = "write" /\ s[b] = at[b] /\ entry[b] \in Entry
      BY <1>1, <2>9 DEF IInv, Phases, TypeOK, Entry
    <3>2. f <= at[b] \/ earlier[entry[b]] \cap In(Line(files[f])) = {}
      BY <2>8, <3>1 DEF OrderInv, OnTime
    <3> QED
      BY <2>8, <2>9, <3>1, <3>2
  <2>13. Latest(gs, s, current)
    <3>1. /\ \A f \in DOMAIN files : f <= current \/ In(Line(files[f])) = {}
          /\ \A t \in Task : at[t] <= current
      BY <1>1 DEF OrderInv, Latest
    <3>2. w <= current
      BY <1>1, <3>1 DEF w
    <3>3. \A f \in DOMAIN gs : f <= current \/ In(Line(gs[f])) = {}
      BY <2>8, <3>1, <3>2
    <3> QED
      BY <2>9, <3>1, <3>3 DEF Latest
  <2>14. Named(gs, r, s, path, current, now, rushed)
    <3>1. ASSUME NEW f \in DOMAIN files, Spent(files, at, current, f) PROVE Spent(gs, s, current, f)
      <4>1. f # w /\ In(Line(files[f])) = {} /\ f # current /\ \A t \in Task : at[t] # f
        BY <1>1, <3>1 DEF Spent, w
      <4> QED
        BY <2>7, <2>8, <2>9, <4>1 DEF Spent
    <3>2. \A f \in DOMAIN gs : f \in rushed \/ Spent(files, at, current, f) => f \in rushed \/ Spent(gs, s, current, f)
      BY <2>7, <3>1
    <3>3. Named(files, pc, at, path, current, now, rushed)
      BY DEF OrderInv
    <3> QED
      BY <2>8, <2>9, <3>2, <3>3 DEF Named
  <2> QED
    BY <2>5, <2>6, <2>10, <2>11, <2>12, <2>13, <2>14 DEF OrderInv, gs, r, s
<1> QED
  BY <1>2, <1>3 DEF Write, With

LEMMA InitOrder == Init => OrderInv
<1> SUFFICES ASSUME Init PROVE OrderInv
  OBVIOUS
<1>1. /\ files = <<Opened(0)>> /\ current = 1 /\ now = 0 /\ calls = 0
      /\ pc = [t \in Task |-> "idle"] /\ at = [t \in Task |-> 0]
      /\ earlier = [x \in Entry |-> {}]
  BY DEF Init
<1>2. \A f \in DOMAIN files : f = 1 /\ files[f] = Opened(0)
  BY <1>1
<1>3. \A f \in DOMAIN files : DOMAIN Line(files[f]) = {} /\ In(Line(files[f])) = {} /\ files[f].path = 0
  BY <1>2, LineOfOpened
<1>4. (\A a \in Appender : pc[a] = "idle") /\ (\A t \in Task : at[t] = 0) /\ \A x \in Entry : earlier[x] = {}
  BY <1>1 DEF Task
<1>5. Ordered(files, earlier)
  BY <1>4 DEF Ordered
<1>6. Known(files, pc, entry, calls, earlier, returned)
  BY <1>3, <1>4 DEF Known
<1>7. OnTime(files, pc, at, entry, earlier) /\ Latest(files, at, current)
  BY <1>1, <1>3, <1>4 DEF OnTime, Latest
<1>8. Named(files, pc, at, path, current, now, rushed)
  BY <1>1, <1>3, <1>4 DEF Named
<1> QED
  BY <1>5, <1>6, <1>7, <1>8 DEF OrderInv

LEMMA NextKeepsOrder ==
    ASSUME IInv, OrderInv, [Next]_vars
    PROVE  OrderInv'
<1>1. ASSUME NEW a \in Appender, CallAppend(a) PROVE OrderInv'
  BY <1>1, CallAppendKeepsOrder
<1>2. ASSUME NEW a \in Appender, Proceed(a) PROVE OrderInv'
  BY <1>2, RotationKeepsOrder, RotateOpenKeepsOrder, WriteKeepsOrder, ReturnKeepsOrder DEF Proceed
<1>3. ASSUME NEW a \in Appender, Cancel(a) PROVE OrderInv'
  BY <1>3, CancelKeepsOrder
<1>4. CASE Commit \/ Stop
  BY <1>4, CommitKeepsOrder, StopKeepsOrder
<1>5. CASE Crash \/ Start
  BY <1>5, CrashKeepsOrder, StartKeepsOrder
<1>6. CASE Tick \/ UNCHANGED vars
  BY <1>6, IdleKeepsOrder
<1> QED
  BY <1>1, <1>2, <1>3, <1>4, <1>5, <1>6 DEF Next
-----------------------------------------------------------------------------
\* The inductive invariant holds throughout.
THEOREM Invariance == Spec => []IInv
<1>1. Init => IInv
  BY InitIInv
<1>2. IInv /\ [Next]_vars => IInv'
  BY NextKeepsIInv
<1> QED
  BY <1>1, <1>2, PTL DEF Spec

\* The log's state keeps its types: no task uses a file object that is not there.
THEOREM TypeCorrect == Spec => []TypeOK
<1>1. IInv => TypeOK
  BY DEF IInv
<1> QED
  BY <1>1, Invariance, PTL

\* An entry that stays behind in the current buffer with no group commit to come
\* is one that returned while a flush was awaited: WriteAheadLog.fsync,
\* _rotate_file and stop clear the flag after their await, and lose only what was
\* set meanwhile, however many tasks append and wherever they are cancelled.
THEOREM OnlyOvertakenAreMissed == Spec => []MissedOnlyIfOvertaken
<1>1. ASSUME NEW e, Safe(e) PROVE e \in Durable \cup overtaken \cup Replaced
  <2>1. CASE e \in overtaken
    BY <2>1
  <2>2. CASE \E f \in DOMAIN files : e \in In(files[f].content)
    BY <2>2 DEF Durable, In
  <2>3. CASE \E f \in DOMAIN files : f # current /\ e \in In(files[f].buffer)
    BY <2>3 DEF Replaced, In
  <2> QED
    BY <1>1, <2>1, <2>2, <2>3 DEF Safe
<1>2. IInv => MissedOnlyIfOvertaken
  BY <1>1 DEF IInv, Flushes, MissedOnlyIfOvertaken
<1> QED
  BY <1>2, Invariance, PTL

\* WriteAheadLog._rotate_file leaves current_file closed only between its close
\* and its open, or for good if it is cancelled there.
THEOREM NeverLeftClosed == Spec => []ClosedOnlyInRotation
<1>1. IInv => ClosedOnlyInRotation
  BY DEF IInv
<1> QED
  BY <1>1, Invariance, PTL

\* WriteAheadLog.stop brings out every entry that had returned, wherever the group
\* commit task was when it was cancelled, if no append was running.
THEOREM NothingLeftBehind == Spec => []CleanStopKeepsAll
<1>1. IInv => CleanStopKeepsAll
  <2> SUFFICES ASSUME IInv, status = "stopped", ending = "orderly", NEW e \in returned
               PROVE  e \in Durable
    BY DEF CleanStopKeepsAll
  <2>1. /\ \A t \in Task : pc[t] = "idle" /\ at[t] = 0
        /\ files[current].buffer = <<>>
        /\ files \in Seq(File) /\ ClosedEmpty(files) /\ \A f \in DOMAIN files : files[f] \in File
    BY AtWork DEF IInv, OrderlyStop, TypeOK
  <2>2. PICK f \in DOMAIN files : e \in In(files[f].content) \/ e \in In(files[f].buffer)
    BY DEF IInv, ReturnedHeld, Held
  <2>3. files[f].buffer = <<>>
    <3>1. CASE files[f].state = "closed"
      BY <2>1, <3>1 DEF ClosedEmpty
    <3>2. CASE files[f].state = "open"
      <4>1. f = current \/ \E t \in Task : at[t] = f
        BY <3>2 DEF IInv, OpenHeld
      <4>2. f # 0
        BY <2>1
      <4> QED
        BY <2>1, <4>1, <4>2
    <3> QED
      BY <2>1, <3>1, <3>2 DEF File
  <2>4. e \in In(files[f].content)
    BY <2>2, <2>3, InEmpty
  <2> QED
    BY <2>4 DEF Durable, In
<1> QED
  BY <1>1, Invariance, PTL

\* No file outgrows max_file_size by more than one entry of each of the other
\* appenders and one of each cancelled append (append's check of the size, line
\* 166, comes before its awaits).
THEOREM FilesAreBounded == Spec => []FilesStayBounded
<1>1. ASSUME TypeOK, SizeBounded PROVE FilesStayBounded
  <2> SUFFICES ASSUME NEW f \in DOMAIN files
               PROVE  Used(files[f]) < MaxFileSize + Cardinality(Appender) + cancels
    BY DEF FilesStayBounded, Used
  <2> DEFINE c == Cardinality(Users(pc, at, "write", f))
             A == Cardinality(Appender)
  <2>1. Users(pc, at, "write", f) \in SUBSET Appender
    BY DEF Users
  <2>2. c \in Nat /\ A \in Nat
    BY <2>1, UsersCount
  <2>3. Used(files[f]) + c < MaxFileSize + A + cancels
    BY <1>1 DEF SizeBounded, Bounded
  <2>4. Used(files[f]) \in Nat /\ cancels \in Nat
    BY <1>1, UsedCount, BoundAssumption DEF TypeOK
  <2> HIDE DEF c, A
  <2>5. Used(files[f]) < MaxFileSize + A + cancels
    BY <2>2, <2>3, <2>4, FileSizeAssumption
  <2> QED
    BY <2>5 DEF A
<1>2. IInv /\ SizeBounded => FilesStayBounded
  BY <1>1 DEF IInv
<1>3. IInv /\ SizeBounded /\ [Next]_vars => IInv' /\ SizeBounded'
  BY NextKeepsIInv, NextKeepsSize
<1> QED
  BY InitIInv, InitSize, <1>2, <1>3, PTL DEF Spec

\* recover() returns what had returned before an append was called before that
\* append's entry, over any number of rotations, flushes, cancelled appends and
\* crashes, unless two rotations overlapped (_rotate_file names its file, line
\* 206, before it awaits its open): the files opened in an order are read in it.
THEOREM RecoveryKeepsOrder == Spec => []RecoveredInOrder
<1>1. ASSUME TypeOK, OrderInv PROVE RecoveredInOrder
  <2> DEFINE kept == Durable \ Overwritten
  <2> SUFFICES ASSUME NEW e \in kept, NEW d \in earlier[e] \cap kept,
                      \A f \in rushed : d \notin {files[f].content[i] : i \in DOMAIN files[f].content}
               PROVE  RecoveredBefore(d, e)
    BY DEF RecoveredInOrder
  <2>1. \A f \in DOMAIN files :
            /\ files[f].content \in Seq(Entry) /\ files[f].path \in Nat /\ f \in Nat
            /\ \A i \in DOMAIN files[f].content :
                   i \in DOMAIN Line(files[f]) /\ Line(files[f])[i] = files[f].content[i]
    <3> TAKE f \in DOMAIN files
    <3> DEFINE c == files[f].content
               b == files[f].buffer
    <3>1. c \in Seq(Entry) /\ b \in Seq(Entry) /\ files[f].path \in Nat /\ f \in Nat
      <4>1. files[f] \in File /\ f \in Nat
        BY <1>1 DEF TypeOK
      <4> QED
        BY <4>1, BoundAssumption DEF File
    <3>2. Line(files[f]) = c \o b
      BY DEF Line
    <3> HIDE DEF c, b
    <3>3. \A i \in DOMAIN c : i \in DOMAIN (c \o b) /\ (c \o b)[i] = c[i]
      BY <3>1
    <3> QED
      BY <3>1, <3>2, <3>3 DEF c
  <2>2. PICK f \in DOMAIN files : \E i \in DOMAIN files[f].content : files[f].content[i] = d
    BY DEF Durable
  <2>3. PICK i \in DOMAIN files[f].content : files[f].content[i] = d
    BY <2>2
  <2>4. PICK g \in DOMAIN files : \E j \in DOMAIN files[g].content : files[g].content[j] = e
    BY DEF Durable
  <2>5. PICK j \in DOMAIN files[g].content : files[g].content[j] = e
    BY <2>4
  <2>6. f \in Sound /\ g \in Sound
    BY <2>2, <2>4 DEF Overwritten
  <2>7. e \in Entry
    BY <2>1, <2>5
  <2>8. f < g \/ (f = g /\ i < j)
    BY <1>1, <2>1, <2>3, <2>5, <2>7 DEF OrderInv, Ordered
  <2>9. CASE f = g /\ i < j
    BY <2>3, <2>5, <2>6, <2>9 DEF RecoveredBefore
  <2>10. CASE f < g
    <3>1. files[g].path # files[f].path
      BY <2>1, <2>6, <2>10 DEF Sound
    <3>2. ~(files[g].path < files[f].path)
      <4> SUFFICES ASSUME files[g].path < files[f].path PROVE FALSE
        OBVIOUS
      <4>1. f \in rushed \/ Spent(files, at, current, f)
        BY <1>1, <2>10 DEF OrderInv, Named
      <4>2. d \in In(Line(files[f]))
        BY <2>1, <2>3 DEF In
      <4> QED
        BY <2>3, <4>1, <4>2 DEF Spent
    <3>3. files[f].path < files[g].path
      BY <2>1, <3>1, <3>2
    <3> QED
      BY <2>3, <2>5, <2>6, <3>3 DEF RecoveredBefore
  <2> QED
    BY <2>8, <2>9, <2>10
<1>2. IInv /\ OrderInv => RecoveredInOrder
  BY <1>1 DEF IInv
<1>3. IInv /\ OrderInv /\ [Next]_vars => IInv' /\ OrderInv'
  BY NextKeepsIInv, NextKeepsOrder
<1> QED
  BY InitIInv, InitOrder, <1>2, <1>3, PTL DEF Spec
=============================================================================
