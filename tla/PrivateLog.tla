----------------------------- MODULE PrivateLog -----------------------------
(***************************************************************************)
(* The private log of one replica: mutation_log.cpp, mutation_log_replay   *)
(* .cpp and log_file.cpp, with what the replica does to it: append and     *)
(* commit, checkpoints and garbage collection (replica_chkpt.cpp), a       *)
(* learner asking for its content, the reset of a learner's log, and a     *)
(* crash of the process followed by open.                                  *)
(*                                                                         *)
(* Offsets count one for a file header and one for a mutation.             *)
(***************************************************************************)
EXTENDS Integers, Sequences, FiniteSets, FiniteSetsExt, SequencesExt, TLC

CONSTANTS Null,
          MaxFileSize,  \* log_private_file_size_mb
          MinFileSize,  \* a tenth of it, the least size a hint switches at
          Budgets       \* bounds of one behaviour: the largest decree and ballot, how
                        \* many crashes, resets, learns, gcs, hints and faults, and
                        \* dup: is the table duplicated, slow: may a write to the
                        \* log, or a collection, take longer than a learning

VARIABLES log,       \* mutation_log_private and its files
          status,    \* "OPEN", "ERROR" after a failed write, "LOST" when open failed
          role,      \* "MEMBER" of the group, "EMPTY" when its state was discarded,
                     \* "LEARNER" with prepares, "OUT" of the group
          ballot,    \* the ballot of the group
          next,      \* the decree to append next
          app,       \* committed and durable decree of the app, init_durable_decree
          confirmed, \* min_confirmed_decree of the duplications, -1 when unknown
          gc,        \* the garbage collection under way
          learn,     \* get_learn_state under way
          acked,     \* mutations whose append was answered (history)
          appended,  \* mutations appended since the last reset (history)
          committed, \* the largest decree ever committed (history)
          budget

vars == <<log, status, role, ballot, next, app, confirmed, gc, learn, acked, appended, committed, budget>>
replica == <<role, ballot, next, app, confirmed, committed>>

Indices(l) == DOMAIN l.files
Decrees(ms) == {m.decree : m \in ms}

\* log_file::end_offset: what is issued counts.
end_offset(l, k) ==
    l.files[k].start + 1 + Len(l.files[k].muts)
      + IF l.issued # Null /\ l.issued.file = k THEN Len(l.issued.muts) ELSE 0

Spend(what) == budget[what] > 0 /\ budget' = [budget EXCEPT ![what] = @ - 1]

----------------------------------------------------------------------------
(* Appending.                                                              *)

\* The header, written on its own, says what the files before may hold.
create_new_log_file(l) ==
    [l EXCEPT !.last = @ + 1, !.cur = l.last + 1, !.end = @ + 1,
              !.demand = FALSE, !.hint = FALSE,
              !.files = @ @@ ((l.last + 1) :> [start |-> l.end, prev |-> l.max,
                                               header |-> FALSE, muts |-> <<>>])]

NeedsNewFile(l) ==
    IF l.cur = 0 THEN TRUE
    ELSE LET size == l.end - l.files[l.cur].start
         IN  l.demand \/ size >= MaxFileSize \/ (l.hint /\ size >= MinFileSize)

write_pending_mutations(l) ==
    [l EXCEPT !.end = @ + Len(l.pending),
              !.issued = [file |-> l.cur, muts |-> l.pending],
              !.max = Max({@} \cup Decrees(ToSet(l.pending))),
              !.pending = <<>>]

\* A file is switched only where a new pending buffer begins.
Append1(l, d) ==
    LET a == IF l.pending = <<>> /\ NeedsNewFile(l) THEN create_new_log_file(l) ELSE l
        b == [a EXCEPT !.pending = Append(@, [decree |-> d, ballot |-> ballot,
                                              off |-> a.end + Len(@), live |-> TRUE])]
    IN  IF b.issued = Null THEN write_pending_mutations(b) ELSE b

\* The replica's thread is not in the middle of get_learn_state.
Idle == status = "OPEN" /\ (learn # Null => learn.files # Null)

append ==
    /\ Idle /\ role \in {"MEMBER", "LEARNER"} /\ next <= budget.decree
    /\ log' = Append1(log, next)
    /\ appended' = appended \cup {[decree |-> next, ballot |-> ballot]}
    /\ next' = next + 1
    /\ UNCHANGED <<status, role, ballot, app, confirmed, gc, learn, acked, committed, budget>>

\* The write of a file header ends; headers of two files are written by different tasks.
HeaderWritten(k) ==
    /\ status = "OPEN" /\ ~log.files[k].header
    /\ log' = [log EXCEPT !.files[k].header = TRUE]
    /\ UNCHANGED <<status, gc, learn, acked, appended, budget>> /\ UNCHANGED replica

Id(m) == [decree |-> m.decree, ballot |-> m.ballot]

\* The writes of one file are done in order, its header first.  A collection may
\* have closed and removed the file meanwhile; what the write then does is not
\* defined: it ends, fails (WriteFailed), or crashes the process (Crash).
commit_pending_mutations ==
    LET f == log.issued.file
        l == [log EXCEPT !.issued = Null,
                         !.files = [k \in DOMAIN @ |-> IF k # f THEN @[k] ELSE
                                       [@[k] EXCEPT !.muts = @ \o log.issued.muts]]]
    IN  /\ status = "OPEN" /\ log.issued # Null
        /\ f \in Indices(log) => log.files[f].header
        /\ log' = IF l.pending # <<>> THEN write_pending_mutations(l) ELSE l
        /\ acked' = acked \cup {Id(m) : m \in {x \in ToSet(log.issued.muts) : x.live}}
        /\ UNCHANGED <<status, gc, learn, appended, budget>> /\ UNCHANGED replica

\* _io_error_callback takes the replica to PS_ERROR.
WriteFailed ==
    /\ status = "OPEN" /\ (log.issued = Null => \E k \in Indices(log) : ~log.files[k].header)
    /\ Spend("faults")
    /\ status' = "ERROR"
    /\ UNCHANGED <<log, gc, learn, acked, appended>> /\ UNCHANGED replica

----------------------------------------------------------------------------
(* The replica around the log.                                             *)

\* Two-phase commit: the newest mutation of the decree is logged, and it was
\* prepared in this ballot or is committed again after a restart.
Commit ==
    LET d == app.committed + 1
        ms == {m \in appended : m.decree = d}
    IN  /\ Idle /\ ms # {}
        /\ \E m \in ms : /\ m \in acked /\ \A o \in ms : o.ballot <= m.ballot
                         /\ m.ballot = ballot \/ d <= committed
        /\ app' = [app EXCEPT !.committed = d]
        /\ committed' = Max({committed, d})
        /\ UNCHANGED <<log, status, role, ballot, next, confirmed, gc, learn, acked, appended, budget>>

background_async_checkpoint ==
    /\ status = "OPEN" /\ app.durable < app.committed
    /\ app' = [app EXCEPT !.durable = app.committed]
    /\ UNCHANGED <<log, status, role, ballot, next, confirmed, gc, learn, acked, appended, committed, budget>>

\* A new primary prepares again what is not known to be committed.
NewBallot ==
    /\ Idle /\ ballot < budget.ballot
    /\ ballot' = ballot + 1
    /\ next' = app.committed + 1
    /\ UNCHANGED <<log, status, role, app, confirmed, gc, learn, acked, appended, committed, budget>>

\* The other cluster confirms that it has the mutations up to d.
Confirm(d) ==
    /\ budget.dup /\ status = "OPEN" /\ d > confirmed
    /\ confirmed' = d
    /\ UNCHANGED <<log, status, role, ballot, next, app, gc, learn, acked, appended, committed, budget>>

\* on_learn hints at a new file when it sends the checkpoint.
hint_switch_file ==
    /\ Idle /\ ~log.hint /\ Spend("hints")
    /\ log' = [log EXCEPT !.hint = TRUE]
    /\ UNCHANGED <<status, gc, learn, acked, appended>> /\ UNCHANGED replica

\* Mutant: the buffer being written is left out.
PendingOnly == ToSet(log.pending)

InMemory == ToSet(log.pending) \cup (IF log.issued = Null THEN {} ELSE ToSet(log.issued.muts))

\* live: the mutation was appended after the last reset.
Voided(muts) == [i \in DOMAIN muts |-> [muts[i] EXCEPT !.live = FALSE]]

\* What the log holds is void from now on, and what was acknowledged before no longer counts.
on_partition_reset(d, switch) ==
    /\ log' = [log EXCEPT !.max = d, !.valid = log.end, !.demand = @ \/ switch,
                          !.pending = Voided(@),
                          !.issued = IF @ = Null THEN Null ELSE [@ EXCEPT !.muts = Voided(@)]]
    /\ acked' = {} /\ appended' = {}
    /\ next' = d + 1

\* The replica is a learner and ahead of the primary: its app is made anew.
ResetNewer ==
    /\ Idle /\ ~budget.dup /\ app.committed > 0 /\ Spend("resets")
    /\ on_partition_reset(0, FALSE)
    /\ app' = [committed |-> 0, durable |-> 0, init |-> 0]
    /\ role' = "EMPTY"
    /\ UNCHANGED <<status, ballot, confirmed, gc, learn, committed>>

\* A learner whose app was made anew gets a checkpoint of the primary.
CheckpointLearnt(d) ==
    /\ Idle /\ role = "EMPTY" /\ app.committed = 0
    /\ app' = [app EXCEPT !.committed = d, !.durable = d]
    /\ UNCHANGED <<log, status, role, ballot, next, confirmed, gc, learn, acked, appended, committed, budget>>

\* The replica, a learner now, gets what it lacks from the cache of the primary; with
\* demand_switch_file.  slow: a collection for a checkpoint that was discarded may still
\* be under way.
ResetForCache ==
    /\ Idle /\ ~budget.dup
    /\ budget.slow \/ (gc # Null => gc.cleanable <= app.durable)
    /\ IF role = "EMPTY" THEN UNCHANGED budget ELSE Spend("resets")
    /\ on_partition_reset(app.committed, TRUE)
    /\ app' = [app EXCEPT !.init = app.committed]
    /\ role' = "LEARNER"
    /\ UNCHANGED <<status, ballot, confirmed, gc, learn, committed>>

\* The learner becomes a member once what it learnt is in its checkpoint.  slow:
\* writes that were under way at the reset, or of a header, may still be.
Upgrade ==
    /\ Idle /\ role = "LEARNER" /\ app.durable >= app.init
    /\ budget.slow \/ /\ \A m \in InMemory : m.live
                      /\ \A k \in Indices(log) : log.files[k].header
    /\ role' = "MEMBER"
    /\ UNCHANGED <<log, status, ballot, next, app, confirmed, gc, learn, acked, appended, committed, budget>>

----------------------------------------------------------------------------
(* Garbage collection.                                                     *)

\* Mutant: the progress of the duplications is not looked at.
CleanableByDurable == app.durable

cleanable_decree == IF confirmed >= 0 THEN Min({app.durable, confirmed}) ELSE app.durable

on_checkpoint_timer ==
    /\ Idle /\ gc = Null /\ Spend("gcs")
    /\ ~(budget.dup /\ confirmed < 0)
    /\ gc' = [cleanable |-> cleanable_decree,
              valid |-> IF confirmed >= 0 THEN 0 ELSE log.valid, victims |-> Null]
    /\ UNCHANGED <<log, status, learn, acked, appended>> /\ UNCHANGED replica

\* The largest decree in the files up to k, as garbage_collection knows it.
MaxDecreeUpTo(l, k) ==
    LET above == {j \in Indices(l) : j > k}
    IN  IF above = {} THEN l.max ELSE l.files[Min(above)].prev

\* Mutant: the header of the file itself is read, not that of the next one.
DeletableByOwnHeader(l, k, g) ==
    k # l.cur /\ (g.valid >= end_offset(l, k) \/ g.cleanable >= l.files[k].prev)

Deletable(l, k, g) ==
    k # l.cur /\ (g.valid >= end_offset(l, k) \/ g.cleanable >= MaxDecreeUpTo(l, k))

\* It runs on another thread, with the decrees the timer has read.  A file that
\* may go can be reserved for its size and age, hence any of them may be the last.
garbage_collection ==
    /\ status = "OPEN" /\ gc # Null /\ gc.victims = Null
    /\ LET marks == {k \in Indices(log) : Deletable(log, k, gc)}
       IN  \/ gc' = Null
           \/ /\ Cardinality(Indices(log)) > 1
              /\ \E mark \in marks : gc' = [gc EXCEPT !.victims = {k \in Indices(log) : k <= mark}]
    /\ UNCHANGED <<log, status, learn, acked, appended, budget>> /\ UNCHANGED replica

\* In increasing order of the index, to avoid making a hole.
NextVictim == Min(gc.victims)

RemoveFile ==
    LET rest == gc.victims \ {NextVictim}
    IN  /\ status = "OPEN" /\ gc # Null /\ gc.victims # Null
        /\ log' = [log EXCEPT !.files = [k \in Indices(log) \ {NextVictim} |-> @[k]]]
        /\ gc' = IF rest = {} THEN Null ELSE [gc EXCEPT !.victims = rest]
        /\ UNCHANGED <<status, learn, acked, appended, budget>> /\ UNCHANGED replica

RemoveFailed ==
    /\ status = "OPEN" /\ gc # Null /\ gc.victims # Null
    /\ Spend("faults")
    /\ gc' = Null
    /\ UNCHANGED <<log, status, learn, acked, appended>> /\ UNCHANGED replica

----------------------------------------------------------------------------
(* get_learn_state.  Writes may end and files be removed between its two   *)
(* halves.                                                                 *)

\* The newest mutations from decree d on.
Newest(d) ==
    {m \in appended : m.decree >= d /\ \A o \in appended : o.decree = m.decree => o.ballot <= m.ballot}

get_learn_state_in_memory(start) ==
    /\ Idle /\ learn = Null /\ Spend("learns")
    /\ learn' = [start |-> start, files |-> Null,
                 mem |-> {Id(m) : m \in {x \in InMemory : x.decree >= start}},
                 expected |-> Newest(start)]
    /\ UNCHANGED <<log, status, gc, acked, appended>> /\ UNCHANGED replica

\* The files are walked from the newest to the one before which only smaller
\* decrees can be.
LearnFiles(l, start) ==
    {k \in Indices(l) : /\ end_offset(l, k) > l.valid
                        /\ \A j \in Indices(l) : j > k => /\ end_offset(l, j) > l.valid
                                                          /\ l.files[j].prev >= start}

get_learn_state ==
    /\ status = "OPEN" /\ learn # Null /\ learn.files = Null
    /\ LET fs == LearnFiles(log, learn.start)
           ok == /\ learn.mem # {} \/ learn.start <= log.max
                 /\ fs # {}
                 /\ LET head == log.files[Min(fs)]
                    IN  head.start >= log.valid /\ head.prev > 0 /\ head.prev < learn.start
       IN  learn' = IF ok THEN [learn EXCEPT !.files = fs] ELSE Null
    /\ UNCHANGED <<log, status, gc, acked, appended, budget>> /\ UNCHANGED replica

\* The learner has copied the files, or could not.
LearnCopied ==
    /\ learn # Null /\ learn.files # Null
    /\ learn' = Null
    /\ UNCHANGED <<log, status, gc, acked, appended, budget>> /\ UNCHANGED replica

----------------------------------------------------------------------------
(* A crash, and open.                                                      *)

\* What the files are after a crash: some of the writes under way have ended.
CrashImage(l, headers, written) ==
    [k \in {j \in Indices(l) : l.files[j].header \/ j \in headers} |->
        IF written /\ k = l.issued.file
        THEN [l.files[k] EXCEPT !.header = TRUE, !.muts = @ \o l.issued.muts]
        ELSE [l.files[k] EXCEPT !.header = TRUE]]

\* The files whose header says that all before them is in the checkpoint are the
\* ones replay may begin with.
ReplayFiles(files, durable) ==
    {k \in DOMAIN files : k >= Max({Min(DOMAIN files)} \cup
        {j \in DOMAIN files : \A i \in DOMAIN files : i <= j => files[i].prev <= durable})}

FileEnd(f) == f.start + 1 + Len(f.muts)

\* No file is missing, and each begins where the one before it ends.
Continuous(files, ks) ==
    \A k \in ks : k = Min(ks) \/ (k - 1 \in ks /\ files[k].start = FileEnd(files[k - 1]))

Replayed(files, ks, valid) ==
    {m \in UNION {ToSet(files[k].muts) : k \in ks} : m.off >= valid}

\* Mutant: the global offset is that after the first file.
EndOfFirst(files, ks) == FileEnd(files[Min(ks)])

global_end_offset(files, ks) == FileEnd(files[Max(ks)])

\* open: what the log and the replica are after it.
Opened(files, ks) ==
    LET ms == Replayed(files, ks, log.valid)
        kept == {Id(m) : m \in {x \in ms : x.decree > app.durable}}
    IN  /\ log' = [files |-> files, cur |-> 0,
                   last |-> IF files = << >> THEN 0 ELSE Max(DOMAIN files),
                   end |-> IF files = << >> THEN 0 ELSE global_end_offset(files, ks),
                   demand |-> FALSE, hint |-> FALSE, pending |-> <<>>, issued |-> Null,
                   max |-> Max({0} \cup Decrees(ms)), valid |-> log.valid]
        /\ appended' = kept /\ acked' = kept
        /\ next' = Max({app.durable} \cup Decrees(kept)) + 1
        /\ app' = [app EXCEPT !.committed = app.durable]
        /\ status' = status

\* The file headers and the write under way that end before the process does.
CrashChoices ==
    {c \in [headers : SUBSET {k \in Indices(log) : ~log.files[k].header}, written : BOOLEAN] :
        c.written => /\ log.issued # Null
                     /\ log.issued.file \in c.headers \cup {k \in Indices(log) : log.files[k].header}}

StartedFiles(files) == IF files = << >> THEN {} ELSE ReplayFiles(files, app.durable)

Crash ==
    /\ status = "OPEN" /\ Spend("crashes")
    /\ gc' = Null /\ learn' = Null
    /\ \E c \in CrashChoices :
       \E files \in {CrashImage(log, c.headers, c.written)} :
           IF app.durable >= app.init /\ Continuous(files, StartedFiles(files))
           THEN Opened(files, StartedFiles(files))
           ELSE status' = "LOST" /\ UNCHANGED <<log, appended, acked, next, app>>
    \* A learner that restarts has to learn again.
    /\ role' = IF role = "MEMBER" THEN role ELSE "OUT"
    /\ UNCHANGED <<ballot, confirmed, committed>>

----------------------------------------------------------------------------
Init ==
    /\ log = [files |-> << >>, cur |-> 0, last |-> 0, end |-> 0, demand |-> FALSE, hint |-> FALSE,
              pending |-> <<>>, issued |-> Null, max |-> 0, valid |-> 0]
    /\ status = "OPEN" /\ role = "MEMBER" /\ ballot = 1 /\ next = 1
    /\ app = [committed |-> 0, durable |-> 0, init |-> 0]
    /\ confirmed = -1 /\ committed = 0
    /\ gc = Null /\ learn = Null /\ acked = {} /\ appended = {}
    /\ budget \in Budgets

Next ==
    \/ append \/ commit_pending_mutations \/ WriteFailed
    \/ \E k \in Indices(log) : HeaderWritten(k)
    \/ Commit \/ background_async_checkpoint \/ NewBallot \/ hint_switch_file
    \/ \E d \in 0..app.committed : Confirm(d)
    \/ ResetNewer \/ ResetForCache \/ Upgrade
    \/ \E d \in 1..committed : CheckpointLearnt(d)
    \/ on_checkpoint_timer \/ garbage_collection \/ RemoveFile \/ RemoveFailed
    \/ \E d \in 1..app.committed + 1 : get_learn_state_in_memory(d)
    \/ get_learn_state \/ LearnCopied
    \/ Crash

Spec == Init /\ [][Next]_vars

----------------------------------------------------------------------------
\* The counters of the replica and of mutation_log keep their order, and the current
\* file is the last one.
TypeOK ==
    /\ status \in {"OPEN", "ERROR", "LOST"}
    /\ app.durable <= app.committed /\ app.committed <= committed /\ confirmed <= committed
    /\ log.cur = 0 \/ (log.cur = log.last /\ log.cur \in Indices(log))
    /\ \A k \in Indices(log) : k <= log.last /\ log.files[k].start < log.end

Open == status = "OPEN"

\* A file is there although a write to one before it has not ended.
Overtaken(files, written) ==
    \E k \in DOMAIN files : \E j \in Indices(log) :
        j < k /\ (j \notin DOMAIN files \/ (~written /\ log.issued # Null /\ log.issued.file = j))

\* Whatever writes under way have ended when the process of a member crashes: if open
\* succeeds, every mutation that the log acknowledged is in the checkpoint or found again
\* by replay, whatever files were switched and collected since (append,
\* garbage_collection); and open fails only where the header of a new file has overtaken
\* a write to one before it.
AckedRecoverable ==
    Open /\ role = "MEMBER" =>
        \A c \in CrashChoices :
            LET files == CrashImage(log, c.headers, c.written)
                ks == StartedFiles(files)
            IN  IF Continuous(files, ks)
                THEN {m \in acked : m.decree > app.durable} \subseteq
                         {Id(m) : m \in Replayed(files, ks, log.valid)}
                ELSE Overtaken(files, c.written)

\* What get_learn_state hands out holds every mutation from the decree asked for,
\* in the buffers it read first or in the files it listed later.
LearnStateComplete ==
    Open /\ learn # Null /\ learn.files # Null /\ learn.files \subseteq Indices(log) =>
        learn.expected \subseteq
            learn.mem \cup {Id(m) : m \in UNION {ToSet(log.files[k].muts) : k \in learn.files}}

\* No file is collected that holds a mutation the other cluster has yet to confirm
\* (on_checkpoint_timer, garbage_collection).
UnconfirmedKept ==
    Open /\ budget.dup => \A d \in Max({confirmed, 0}) + 1 .. committed :
        d \in Decrees(InMemory \cup UNION {ToSet(log.files[k].muts) : k \in Indices(log)})

\* A log that a crash has left can be opened (open, replay).
Reopens == status # "LOST" \/ app.durable < app.init
============================================================================
