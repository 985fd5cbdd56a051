--------------------------- MODULE WriteAheadLog ---------------------------
(***************************************************************************)
(* clotho/storage.py, class WriteAheadLog: concurrent appends, the group   *)
(* commit task, rotation of the files, stop, crashes and restarts.         *)
(*                                                                         *)
(* Every aiofiles call hands its work to a thread and awaits it, so a step *)
(* of a task ends where the work is handed over; the thread's effect is a  *)
(* step of its own, and so is what the task does on resuming, wherever     *)
(* another task could tell the two apart.  A task holds the file object it *)
(* called, whatever self.current_file has become meanwhile.                *)
(*                                                                         *)
(* An entry is identified by the number of its append, in the order of the *)
(* calls, which is what sequence_number counts.  Entries have the same     *)
(* size, 1, and max_file_size counts them.  CPython closes, and so         *)
(* flushes, a file object that nothing refers to any more.  Two objects    *)
(* over one path overwrite each other: what such a file holds is counted   *)
(* as lost.                                                                *)
(***************************************************************************)
EXTENDS Naturals, Sequences, FiniteSets

CONSTANTS Appender,      \* tasks that call append()
          MaxFileSize,   \* max_file_size
          MaxCalls,      \* bound: appends
          MaxTime,       \* bound: milliseconds
          MaxCancels,    \* bound: appends cancelled half-way
          MaxCrashes     \* bound: process exits

ASSUME AppenderAssumption ==
    IsFiniteSet(Appender) /\ "commit" \notin Appender /\ "stop" \notin Appender
ASSUME FileSizeAssumption == MaxFileSize \in Nat \ {0}
ASSUME BoundAssumption ==
    MaxCalls \in Nat /\ MaxTime \in Nat /\ MaxCancels \in Nat /\ MaxCrashes \in Nat

Entry == 1 .. MaxCalls

\* The appends, the group commit task and the call of stop().
Task == Appender \cup {"commit", "stop"}

VARIABLES status,     \* "up", "stopping", "stopped" or "down" (no process)
          files,      \* the files opened, in that order: path, what the OS has of
                      \* it, what is still in the object's buffer
          current,    \* current_file, an index of files; 0 if there is none
          size,       \* current_file_size
          event,      \* _fsync_event, "set" or "clear"; _pending_fsync when it is clear
          pc,         \* what each task awaits
          at,         \* the file object each task uses, 0 for none
          entry,      \* the entry each appender appends, 0 for none
          path,       \* the name each rotation has made for its file
          now,        \* the clock that names the files, in milliseconds
          calls, cancels, crashes,
          earlier,    \* ghost: for each entry, those returned before its call
          returned,   \* ghost: entries whose append returned, less those a crash lost
          overtaken,  \* ghost: of these, those that returned while a flush was awaited
          rushed,     \* ghost: files opened by a rotation that overlapped another
          wounded,    \* ghost: the files that were current when a rotation was cancelled
          ending      \* ghost: "abrupt" if stop() was called while an append was running

tasks == <<pc, at, entry, path>>
bounds == <<calls, cancels, crashes>>
ghosts == <<earlier, returned, overtaken, rushed, wounded, ending>>
vars == <<status, files, current, size, event, tasks, now, bounds, ghosts>>

File == [path : 0 .. MaxTime, content : Seq(Entry), buffer : Seq(Entry), state : {"open", "closed"}]

TypeOK ==
    /\ status \in {"up", "stopping", "stopped", "down"}
    /\ files \in Seq(File)
    /\ current \in 0 .. Len(files)
    /\ size \in Nat
    /\ event \in {"set", "clear"}
    /\ pc \in [Task -> {"idle", "flush", "flushed", "close", "open", "write", "written", "final"}]
    /\ at \in [Task -> 0 .. Len(files)]
    /\ \A t \in Task : at[t] = 0 <=> pc[t] \in {"idle", "open"}
    /\ status # "down" => current # 0
    /\ entry \in [Appender -> Entry \cup {0}]
    /\ path \in [Appender -> 0 .. MaxTime]
    /\ now \in 0 .. MaxTime
    /\ calls \in 0 .. MaxCalls /\ cancels \in 0 .. MaxCancels /\ crashes \in 0 .. MaxCrashes
    /\ earlier \in [Entry -> SUBSET Entry]
    /\ returned \subseteq 1 .. calls
    /\ overtaken \subseteq Entry
    /\ rushed \subseteq DOMAIN files
    /\ wounded \subseteq DOMAIN files
    /\ ending \in {"orderly", "abrupt"}
-----------------------------------------------------------------------------
\* aiofiles.open(path, 'wb')
Opened(p) == [path |-> p, content |-> <<>>, buffer |-> <<>>, state |-> "open"]

\* flush() of an open file
Flushed(f) == [path |-> f.path, content |-> f.content \o f.buffer, buffer |-> <<>>, state |-> f.state]

\* close(), which flushes and may be called twice
Closed(f) == [path |-> f.path, content |-> f.content \o f.buffer, buffer |-> <<>>, state |-> "closed"]

\* write() to an open file: what is in the buffer stays there, or is pushed out if
\* the entry does not fit too.
Written(f, e, kept) ==
    [path    |-> f.path,
     content |-> IF kept = f.buffer THEN f.content ELSE f.content \o f.buffer,
     buffer  |-> Append(kept, e),
     state   |-> f.state]

\* Reference counting: an object that is neither current_file nor in use by a
\* task is closed.
Reclaim(fs, cur, held) ==
    [f \in DOMAIN fs |->
        IF fs[f].state = "open" /\ f # cur /\ \A t \in Task : held[t] # f THEN Closed(fs[f]) ELSE fs[f]]

\* Task t goes on to await what on object f, with files fs and current_file cur.
Await(t, what, f, fs, cur) ==
    /\ pc' = [pc EXCEPT ![t] = what]
    /\ at' = [at EXCEPT ![t] = f]
    /\ current' = cur
    /\ files' = Reclaim(fs, cur, at')

Rotating(t) == pc[t] \in {"flush", "flushed", "close", "open"}

\* The files that share their path with no other
Sound == {f \in DOMAIN files : \A g \in DOMAIN files : files[g].path = files[f].path => g = f}

\* What recover() would find: the entries the OS has, torn tails left out.
Durable == UNION {{files[f].content[i] : i \in DOMAIN files[f].content} : f \in DOMAIN files}

Overwritten ==
    UNION {{files[f].content[i] : i \in DOMAIN files[f].content} : f \in DOMAIN files \ Sound}

\* The entries in the buffer of an object that is no longer current_file
Replaced ==
    UNION {{files[f].buffer[i] : i \in DOMAIN files[f].buffer} : f \in DOMAIN files \ {current}}

\* Mistake: the files are read latest first.
RecoveredLatestFirst(d, e) ==
    \E f, g \in Sound : \E i \in DOMAIN files[f].content, j \in DOMAIN files[g].content :
        /\ files[f].content[i] = d /\ files[g].content[j] = e
        /\ files[f].path > files[g].path \/ (f = g /\ i < j)

\* recover() reads the files in the order of their names, each from its start:
\* it returns d before e.
RecoveredBefore(d, e) ==
    \E f, g \in Sound : \E i \in DOMAIN files[f].content, j \in DOMAIN files[g].content :
        /\ files[f].content[i] = d /\ files[g].content[j] = e
        /\ files[f].path < files[g].path \/ (f = g /\ i < j)

Init ==
    /\ status = "up"
    /\ files = <<Opened(0)>> /\ current = 1 /\ size = 0 /\ event = "set"
    /\ pc = [t \in Task |-> "idle"] /\ at = [t \in Task |-> 0]
    /\ entry = [a \in Appender |-> 0] /\ path = [a \in Appender |-> 0]
    /\ now = 0
    /\ calls = 0 /\ cancels = 0 /\ crashes = 0
    /\ earlier = [e \in Entry |-> {}] /\ returned = {} /\ overtaken = {} /\ rushed = {}
    /\ wounded = {} /\ ending = "orderly"
-----------------------------------------------------------------------------
\* Mistake: the size is compared without the new entry.
CallAppendLate(a) ==
    /\ status = "up" /\ pc[a] = "idle" /\ calls < MaxCalls
    /\ calls' = calls + 1
    /\ entry' = [entry EXCEPT ![a] = calls + 1]
    /\ earlier' = [earlier EXCEPT ![calls + 1] = returned]
    /\ Await(a, IF size > MaxFileSize THEN "flush" ELSE "write", current, files, current)
    /\ UNCHANGED <<status, size, event, path, now, cancels, crashes,
                   returned, overtaken, rushed, wounded, ending>>

\* append up to its first await: the rotation's flush if the file is full, else
\* the write.
CallAppend(a) ==
    /\ status = "up" /\ pc[a] = "idle" /\ calls < MaxCalls
    /\ calls' = calls + 1
    /\ entry' = [entry EXCEPT ![a] = calls + 1]
    /\ earlier' = [earlier EXCEPT ![calls + 1] = returned]
    /\ Await(a, IF size + 1 > MaxFileSize THEN "flush" ELSE "write", current, files, current)
    /\ UNCHANGED <<status, size, event, path, now, cancels, crashes,
                   returned, overtaken, rushed, wounded, ending>>

\* A call on a closed file object raises ValueError, which ends the append.
Fail(a) ==
    /\ Await(a, "idle", 0, files, current)
    /\ entry' = [entry EXCEPT ![a] = 0]
    /\ UNCHANGED <<status, size, event, path, now, bounds, ghosts>>

\* The thread's part of a flush that task t awaits
FlushFile(t, next) ==
    /\ pc[t] = "flush" /\ files[at[t]].state = "open"
    /\ Await(t, next, at[t], [files EXCEPT ![at[t]] = Flushed(@)], current)
    /\ UNCHANGED <<status, size, event, entry, path, now, bounds, ghosts>>

\* _rotate_file: its flush
RotateFlush(a) ==
    \/ FlushFile(a, "flushed")
    \/ pc[a] = "flush" /\ files[at[a]].state = "closed" /\ Fail(a)

\* _rotate_file: after the flush; the close that follows is of what is
\* current_file by now.
RotateFlushed(a) ==
    /\ pc[a] = "flushed"
    /\ event' = "set"
    /\ Await(a, "close", current, files, current)
    /\ UNCHANGED <<status, size, entry, path, now, bounds, ghosts>>

\* Mistake: the closed file stays in hand.
RotateCloseKept(a) ==
    /\ pc[a] = "close"
    /\ Await(a, "open", at[a], [files EXCEPT ![at[a]] = Closed(@)], current)
    /\ path' = [path EXCEPT ![a] = now]
    /\ UNCHANGED <<status, size, event, entry, now, bounds, ghosts>>

\* _rotate_file: the close, and the name of the next file
RotateClose(a) ==
    /\ pc[a] = "close"
    /\ Await(a, "open", 0, [files EXCEPT ![at[a]] = Closed(@)], current)
    /\ path' = [path EXCEPT ![a] = now]
    /\ UNCHANGED <<status, size, event, entry, now, bounds, ghosts>>

\* Mistake: current_file is not replaced.
RotateOpenAside(a) ==
    /\ pc[a] = "open"
    /\ Await(a, "write", Len(files) + 1, Append(files, Opened(path[a])), current)
    /\ path' = [path EXCEPT ![a] = 0]
    /\ size' = 0
    /\ UNCHANGED <<status, event, entry, now, bounds, ghosts>>

\* _rotate_file: the open; append goes on to its write.
RotateOpen(a) ==
    /\ pc[a] = "open"
    /\ Await(a, "write", Len(files) + 1, Append(files, Opened(path[a])), Len(files) + 1)
    /\ path' = [path EXCEPT ![a] = 0]
    /\ size' = 0
    /\ rushed' = IF \E b \in Appender \ {a} : Rotating(b)
                 THEN rushed \cup {Len(files) + 1} ELSE rushed
    /\ UNCHANGED <<status, event, entry, now, bounds,
                   earlier, returned, overtaken, wounded, ending>>

\* append: the thread's part of the write
Write(a) ==
    /\ pc[a] = "write"
    /\ \/ /\ files[at[a]].state = "open"
          /\ \E kept \in {files[at[a]].buffer, <<>>} :
                 Await(a, "written", at[a],
                       [files EXCEPT ![at[a]] = Written(@, entry[a], kept)], current)
          /\ UNCHANGED <<status, size, event, entry, path, now, bounds, ghosts>>
       \/ files[at[a]].state = "closed" /\ Fail(a)

\* Mistake: the entry is marked pending only if nothing is in the file yet.
ReturnUnmarked(a) ==
    /\ pc[a] = "written"
    /\ size' = size + 1
    /\ event' = IF size = 0 THEN "clear" ELSE event
    /\ Await(a, "idle", 0, files, current)
    /\ entry' = [entry EXCEPT ![a] = 0]
    /\ returned' = returned \cup {entry[a]}
    /\ overtaken' = IF \E t \in Task : pc[t] \in {"flush", "flushed", "final"}
                    THEN overtaken \cup {entry[a]} ELSE overtaken
    /\ UNCHANGED <<status, path, now, bounds, earlier, rushed, wounded, ending>>

\* append: after the write
ReturnFromAppend(a) ==
    /\ pc[a] = "written"
    /\ size' = size + 1
    /\ event' = "clear"
    /\ Await(a, "idle", 0, files, current)
    /\ entry' = [entry EXCEPT ![a] = 0]
    /\ returned' = returned \cup {entry[a]}
    /\ overtaken' = IF \E t \in Task : pc[t] \in {"flush", "flushed", "final"}
                    THEN overtaken \cup {entry[a]} ELSE overtaken
    /\ UNCHANGED <<status, path, now, bounds, earlier, rushed, wounded, ending>>

\* The task of an append is cancelled at its await: the thread has done its part
\* by then, or never will.
Cancel(a) ==
    /\ cancels < MaxCancels /\ cancels' = cancels + 1
    /\ pc[a] # "idle"
    /\ \/ Await(a, "idle", 0, files, current)
       \/ /\ pc[a] = "close"
          /\ Await(a, "idle", 0, [files EXCEPT ![at[a]] = Closed(@)], current)
       \/ /\ pc[a] = "open"
          /\ Await(a, "idle", 0, Append(files, Opened(path[a])), current)
    /\ entry' = [entry EXCEPT ![a] = 0] /\ path' = [path EXCEPT ![a] = 0]
    /\ wounded' = IF Rotating(a) THEN wounded \cup {current} ELSE wounded
    /\ UNCHANGED <<status, size, event, now, calls, crashes,
                   earlier, returned, overtaken, rushed, ending>>
-----------------------------------------------------------------------------
\* _group_commit_loop: the sleep is over, and fsync() starts a flush.
CommitBegin ==
    /\ status = "up" /\ pc["commit"] = "idle" /\ event = "clear"
    /\ Await("commit", "flush", current, files, current)
    /\ UNCHANGED <<status, size, event, entry, path, now, bounds, ghosts>>

\* fsync: the thread's part; that the file was closed is ignored.
CommitFlush ==
    \/ FlushFile("commit", "flushed")
    \/ /\ pc["commit"] = "flush" /\ files[at["commit"]].state = "closed"
       /\ Await("commit", "flushed", at["commit"], files, current)
       /\ UNCHANGED <<status, size, event, entry, path, now, bounds, ghosts>>

\* fsync: after the flush
CommitEnd ==
    /\ pc["commit"] = "flushed"
    /\ event' = "set"
    /\ Await("commit", "idle", 0, files, current)
    /\ UNCHANGED <<status, size, entry, path, now, bounds, ghosts>>

\* Mistake: stop only cancels the group commit task.
StopAtOnce ==
    /\ status = "up"
    /\ status' = "stopped"
    /\ pc' = [pc EXCEPT !["commit"] = "idle"]
    /\ at' = [at EXCEPT !["commit"] = 0]
    /\ files' = Reclaim(files, current, at')
    /\ ending' = IF \A a \in Appender : pc[a] = "idle" THEN "orderly" ELSE "abrupt"
    /\ UNCHANGED <<current, size, event, entry, path, now, bounds,
                   earlier, returned, overtaken, rushed, wounded>>

\* stop: the group commit task is cancelled wherever it is, and flushes once more
\* if something is pending.
StopBegin ==
    /\ status = "up"
    /\ status' = "stopping"
    /\ pc' = [pc EXCEPT !["commit"] = "idle", !["stop"] = IF event = "clear" THEN "final" ELSE "flush"]
    /\ at' = [at EXCEPT !["commit"] = 0, !["stop"] = current]
    /\ files' = Reclaim(files, current, at')
    /\ ending' = IF \A a \in Appender : pc[a] = "idle" THEN "orderly" ELSE "abrupt"
    /\ UNCHANGED <<current, size, event, entry, path, now, bounds,
                   earlier, returned, overtaken, rushed, wounded>>

\* _group_commit_loop: the final fsync, then stop's own flush
StopFsync ==
    /\ pc["stop"] = "final"
    /\ event' = "set"
    /\ Await("stop", "flush", current,
             IF files[at["stop"]].state = "open" THEN [files EXCEPT ![at["stop"]] = Flushed(@)] ELSE files,
             current)
    /\ UNCHANGED <<status, size, entry, path, now, bounds, ghosts>>

\* stop: the flush, which raises out of stop() if a rotation has closed the file
StopFlush ==
    /\ pc["stop"] = "flush"
    /\ IF files[at["stop"]].state = "open"
       THEN Await("stop", "close", current, [files EXCEPT ![at["stop"]] = Flushed(@)], current)
            /\ UNCHANGED status
       ELSE Await("stop", "idle", 0, files, current) /\ status' = "stopped"
    /\ UNCHANGED <<size, event, entry, path, now, bounds, ghosts>>

\* stop: the close
StopClose ==
    /\ pc["stop"] = "close"
    /\ Await("stop", "idle", 0, [files EXCEPT ![at["stop"]] = Closed(@)], current)
    /\ status' = "stopped"
    /\ UNCHANGED <<size, event, entry, path, now, bounds, ghosts>>
-----------------------------------------------------------------------------
\* The process is killed: what is in the buffers is gone.
Crash ==
    /\ status # "down" /\ crashes < MaxCrashes
    /\ crashes' = crashes + 1
    /\ status' = "down"
    /\ files' = [f \in DOMAIN files |-> [path |-> files[f].path, content |-> files[f].content,
                                         buffer |-> <<>>, state |-> "closed"]]
    /\ pc' = [t \in Task |-> "idle"] /\ at' = [t \in Task |-> 0]
    /\ entry' = [a \in Appender |-> 0] /\ path' = [a \in Appender |-> 0]
    /\ returned' = returned \cap Durable
    /\ current' = 0 /\ size' = 0 /\ event' = "set"
    /\ wounded' = {} /\ ending' = "orderly"
    /\ UNCHANGED <<now, calls, cancels,
                   earlier, overtaken, rushed>>

\* A new process: start() opens a file, more than a millisecond after the last.
Start ==
    /\ status = "down" /\ now < MaxTime
    /\ now' = now + 1
    /\ status' = "up"
    /\ files' = Append(files, Opened(now + 1))
    /\ current' = Len(files) + 1
    /\ UNCHANGED <<size, event, tasks, bounds, ghosts>>

Tick ==
    /\ now < MaxTime /\ now' = now + 1
    /\ UNCHANGED <<status, files, current, size, event, tasks, bounds, ghosts>>

\* What an append does once it is called
Proceed(a) ==
    \/ RotateFlush(a) \/ RotateFlushed(a) \/ RotateClose(a) \/ RotateOpen(a)
    \/ Write(a) \/ ReturnFromAppend(a)

Commit == CommitBegin \/ CommitFlush \/ CommitEnd

Stop == StopBegin \/ StopFsync \/ StopFlush \/ StopClose

Next ==
    \/ \E a \in Appender : CallAppend(a) \/ Proceed(a) \/ Cancel(a)
    \/ Commit \/ Stop \/ Crash \/ Start \/ Tick

Spec == Init /\ [][Next]_vars
-----------------------------------------------------------------------------
\* Once nothing is marked pending, and so no group commit will come, every entry
\* whose append has returned is out of the process, except those that returned
\* while some flush was awaited, which cleared the flag they set, and those of a
\* file that was replaced and is closed as soon as the task using it lets go.
MissedOnlyIfOvertaken ==
    event = "set" => returned \subseteq Durable \cup overtaken \cup Replaced

\* An entry whose append had returned before another one's was called is
\* recovered before it, whatever rotations, flushes and restarts came between.
\* Two rotations at once are the exception: the one named first may open last.
RecoveredInOrder ==
    LET kept == Durable \ Overwritten
    IN  \A e \in kept : \A d \in earlier[e] \cap kept :
            \/ RecoveredBefore(d, e)
            \/ \E f \in rushed : d \in {files[f].content[i] : i \in DOMAIN files[f].content}

\* Each append checks the size before it awaits its write, so a file can outgrow
\* max_file_size by one entry of each of the other appenders, and by those of
\* cancelled appends, whose size is never added; never by more.
FilesStayBounded ==
    \A f \in DOMAIN files :
        Len(files[f].content) + Len(files[f].buffer) < MaxFileSize + Cardinality(Appender) + cancels

\* The current file is closed only while some rotation is on its way to open the
\* next, unless a cancelled rotation left it so: then every later append fails.
ClosedOnlyInRotation ==
    status = "up" /\ files[current].state = "closed" =>
        \/ \E a \in Appender : pc[a] = "open"
        \/ current \in wounded

\* stop() leaves nothing behind in a buffer if no append was running.
CleanStopKeepsAll ==
    status = "stopped" /\ ending = "orderly" => returned \subseteq Durable
=============================================================================
