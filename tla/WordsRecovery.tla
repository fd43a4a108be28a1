--------------------------- MODULE WordsRecovery ---------------------------
(***************************************************************************)
(* What SimpleWords (simplewords.c) keeps of a document outside the        *)
(* editor: the file, its autosave, the draft preserved at a load, the      *)
(* backups, and the session file that brings the buffers back.  Windows    *)
(* are processes of the editor; each may have a buffer for a document.     *)
(* A document is a path or an untitled draft.  A text is the set of the    *)
(* edits it contains, a stored text a set of at most one text.             *)
(*                                                                         *)
(* A process may be killed between any two of the steps below.  Documents, *)
(* autosaves and the session file are replaced by rename, so the old one   *)
(* or the new one is there; backups and preserved drafts are plain copies, *)
(* each complete before the step that relies on it.  What was written but  *)
(* not flushed survives a process; a machine that stops is not modelled.   *)
(***************************************************************************)
EXTENDS Naturals, FiniteSets, Functions

CONSTANTS
  Windows,      \* processes
  Paths,        \* files the user visits
  Drafts,       \* names of untitled drafts
  EditLimit,    \* bound: edits, those of other programs included
  Budgets       \* bounds a behaviour may start with: the windows and documents it may use,
                \*         changes of a file by another program, processes that quit or are killed

None == "none"
Docs == Paths \union Drafts
Edits == 1..EditLimit

ASSUME NamesAssumption == None \notin Windows \union Docs /\ Paths \intersect Drafts = {}
ASSUME BoundsAssumption ==
  /\ EditLimit \in Nat
  /\ Budgets \subseteq [windows : SUBSET Windows, docs : SUBSET Docs, writes : Nat, ends : Nat]

VARIABLES
  file,        \* the documents on the disk
  auto, newer, \* their autosaves, and whether the autosave is newer than the file
  kept,        \* the preserved drafts (.recovery)
  backups,
  session,     \* the documents the workspace file lists
  owner,       \* the process with the workspace lock
  running,
  buf,         \* EditorBuffer of each window and document it has open
  at,          \* the handler a window is in
  edits,       \* the edits made so far
  budget,      \* what is left of the bounds
  saved,       \* history: the edits that have reached the disk
  dropped,     \* history: those a user or another program did away with
  missed,      \* history: those the program itself no longer offers
  shared       \* history: two buffers have had one document open at once

disk == <<file, auto, newer, kept, backups, session>>
counters == <<edits, budget>>
history == <<saved, dropped, missed, shared>>
vars == <<disk, owner, running, buf, at, counters, history>>

Texts == SUBSET Edits
Buffer == [text : Texts, dirty : BOOLEAN, needs : BOOLEAN,
           seen : {"unknown", "current", "stale"},   \* disk_revision_changed
           base : Texts,      \* history: what it last read from, or wrote to, the file
           raced : BOOLEAN,   \* history: the file changed between a read or write and its stat
           typed : BOOLEAN,   \* history: it has edits typed since it was last saved
           offer : {"none", "pending", "opened"},    \* the preserved draft
           lock : BOOLEAN]
Idle == [op |-> "idle", doc |-> None, to |-> None, over |-> FALSE]
Open(w) == DOMAIN buf[w]
Content(stored) == UNION stored

Free(w) == w \in running /\ at[w] = Idle
Enter(w, op, d, t, over) ==
  at' = [at EXCEPT ![w] = [op |-> op, doc |-> d, to |-> t, over |-> over]]
SetBuffer(w, d, b) == buf' = [buf EXCEPT ![w] = [e \in Open(w) \union {d} |-> IF e = d THEN b ELSE @[e]]]

Blank == [text |-> {}, dirty |-> FALSE, needs |-> FALSE, seen |-> "unknown",
          base |-> {}, raced |-> FALSE, typed |-> FALSE, offer |-> "none", lock |-> FALSE]

\* ensure_document_edit_lock; a draft has no lock.
CanLock(w, d) == \A v \in Windows \ {w} : d \in Open(v) => ~buf[v][d].lock

Elsewhere(w, ds) == \E v \in Windows \ {w} : Open(v) \intersect ds # {}
Share(w, ds) == shared' = (shared \/ Elsewhere(w, ds))

\* The session file is written by the owner of the workspace only.
SaveSession(w, docs) == session' = IF owner = w THEN docs ELSE session

Init ==
  /\ file \in [Paths -> {{}, {{}}}]
  /\ edits = 0 /\ budget \in Budgets /\ \A d \in Paths \ budget.docs : file[d] = {}
  /\ auto = [d \in Docs |-> {}] /\ newer = [d \in Docs |-> FALSE]
  /\ kept = [d \in Paths |-> {}] /\ backups = [d \in Paths |-> {}]
  /\ session = {} /\ owner = None /\ running = {}
  /\ buf = [w \in Windows |-> [d \in {} |-> Blank]]
  /\ at = [w \in Windows |-> Idle]
  /\ saved = {} /\ dropped = {} /\ missed = {} /\ shared = FALSE

(* Loading a document *)

\* load_autosave_if_newer: what becomes of an autosave of a document.
Recovers(d) == auto[d] # {} /\ file[d] = {}
Preserves(d) == auto[d] # {} /\ file[d] # {} /\ newer[d]
PassesOver(d) == auto[d] # {} /\ file[d] # {} /\ ~newer[d]

\* The buffer load_file_at_position leaves, for the text it has read before.
Loaded(d, read) ==
  [text |-> IF Recovers(d) THEN Content(auto[d]) ELSE read,
   dirty |-> Recovers(d), needs |-> FALSE,
   seen |-> IF file[d] = {} THEN "unknown" ELSE "current",
   base |-> read, raced |-> read # Content(file[d]), typed |-> FALSE,
   offer |-> IF Preserves(d) THEN "pending" ELSE "none", lock |-> FALSE]

\* load_untitled_autosave_at_position; a draft without an autosave comes back blank.
LoadedDraft(d) == [Blank EXCEPT !.text = Content(auto[d]), !.dirty = auto[d] # {}]

\* preserve_recovery_autosave, for the documents ds.
Preserve(ds) ==
  /\ kept' = [d \in Paths |-> IF d \in ds /\ Preserves(d) THEN auto[d] ELSE kept[d]]
  /\ auto' = [d \in Docs |-> IF d \in ds \intersect Paths /\ Preserves(d) THEN {} ELSE auto[d]]
  /\ missed' = missed \union UNION {Content(auto[d]) : d \in {e \in ds \intersect Paths : PassesOver(e)}}

\* main: a window starts, takes the workspace lock if it can, and restores the
\* buffers of the session file.  Without one it has a new draft.
Start(w) ==
  /\ w \in budget.windows \ running
  /\ running' = running \union {w}
  /\ owner' = IF owner = None THEN w ELSE owner
  /\ \E new \in SUBSET {d \in Drafts \intersect budget.docs : auto[d] = {} /\ \A v \in Windows : d \notin Open(v)} :
       /\ Cardinality(new) <= IF session = {} THEN 1 ELSE 0
       /\ buf' = [buf EXCEPT ![w] = [d \in session \union new |->
                     IF d \in Paths THEN Loaded(d, Content(file[d])) ELSE LoadedDraft(d)]]
  /\ Preserve(session)
  /\ Share(w, DOMAIN buf'[w])
  /\ UNCHANGED <<file, newer, backups, session, at, counters, saved, dropped>>

\* visit_file_in_buffer, up to the file's last read.  Opening a file from
\* another process comes here through poll_workspace_requests.
Visit(w, d) ==
  /\ Free(w) /\ d \in (Paths \intersect budget.docs) \ Open(w)
  /\ SetBuffer(w, d, [Blank EXCEPT !.text = Content(file[d])])
  /\ Share(w, {d})
  /\ Enter(w, "loading", d, d, FALSE)
  /\ UNCHANGED <<disk, owner, running, counters, saved, dropped, missed>>

\* The rest of it: remember_disk_revision, the autosave, the session file.
FinishLoad(w) ==
  LET d == at[w].doc IN
  /\ at[w].op = "loading"
  /\ SetBuffer(w, d, Loaded(d, buf[w][d].text))
  /\ Preserve({d})
  /\ SaveSession(w, Open(w))
  /\ at' = [at EXCEPT ![w] = Idle]
  /\ UNCHANGED <<file, newer, backups, owner, running, counters, saved, dropped, shared>>

\* create_blank_buffer
NewDraft(w, d) ==
  /\ Free(w) /\ d \in Drafts \intersect budget.docs
  /\ auto[d] = {} /\ \A v \in Windows : d \notin Open(v)
  /\ SetBuffer(w, d, Blank)
  /\ SaveSession(w, Open(w) \union {d})
  /\ UNCHANGED <<file, auto, newer, kept, backups, owner, running, at, counters, history>>

(* Editing *)

\* A key that changes the text: the draft on offer comes first, then the lock.
Type(w, d) ==
  LET b == buf[w][d] IN
  /\ Free(w) /\ d \in Open(w) /\ edits < EditLimit
  /\ b.offer # "pending"
  /\ d \in Paths => CanLock(w, d)
  /\ edits' = edits + 1
  /\ SetBuffer(w, d, [b EXCEPT !.text = @ \union {edits'}, !.dirty = TRUE, !.needs = TRUE,
                               !.typed = TRUE, !.lock = d \in Paths])
  /\ UNCHANGED <<disk, owner, running, at, budget, history>>

\* open_pending_recovery
OpenRecovery(w, d) ==
  LET b == buf[w][d] IN
  /\ Free(w) /\ d \in Open(w) /\ b.offer = "pending" /\ kept[d] # {}
  /\ SetBuffer(w, d, [b EXCEPT !.text = Content(kept[d]), !.dirty = TRUE, !.needs = FALSE,
                               !.offer = "opened"])
  /\ UNCHANGED <<disk, owner, running, at, counters, history>>

\* discard_pending_recovery
DiscardRecovery(w, d) ==
  /\ Free(w) /\ d \in Open(w) /\ buf[w][d].offer = "pending"
  /\ SetBuffer(w, d, [buf[w][d] EXCEPT !.offer = "none"])
  /\ kept' = [kept EXCEPT ![d] = {}]
  /\ auto' = [auto EXCEPT ![d] = {}]
  /\ dropped' = dropped \union Content(kept[d]) \union Content(auto[d])
  /\ UNCHANGED <<file, newer, backups, session, owner, running, at, counters, saved, missed, shared>>

(* Autosave *)

\* The autosaves of the buffers ds of a window that need one.
WriteAutosaves(w, ds) ==
  LET new == {d \in ds : buf[w][d].needs} IN
  /\ auto' = [d \in Docs |-> IF d \in new THEN {buf[w][d].text} ELSE auto[d]]
  /\ newer' = [d \in Docs |-> d \in new \/ newer[d]]
  /\ saved' = saved \union UNION {buf[w][d].text : d \in new}

\* autosave_file, once a buffer has rested; the session file is saved after it.
\* A write that fails changes nothing and is tried again at the next tick.
Autosave(w, d) ==
  /\ Free(w) /\ d \in Open(w) /\ buf[w][d].needs
  /\ WriteAutosaves(w, {d})
  /\ SetBuffer(w, d, [buf[w][d] EXCEPT !.needs = FALSE])
  /\ Enter(w, "noting", d, d, FALSE)
  /\ UNCHANGED <<file, kept, backups, session, owner, running, counters, dropped, missed, shared>>

NoteSession(w) ==
  /\ at[w].op = "noting"
  /\ SaveSession(w, Open(w))
  /\ at' = [at EXCEPT ![w] = Idle]
  /\ UNCHANGED <<file, auto, newer, kept, backups, owner, running, buf, counters, history>>

(* Saving *)

\* A key asks for the buffer to be saved to t: save_file, or save_file_as, which
\* sets allow_stale_document_write (over).  In the Buffer List the prompt for a
\* draft on offer does not come first, nor does anything ask what else is open.
Asks(w, d, t, over) ==
  /\ Free(w) /\ d \in Open(w) /\ t \in Paths \intersect budget.docs
  /\ over \/ d \in Drafts \/ (t = d /\ buf[w][d].dirty)

MaySaveStale(w, d, t, over) == t = d /\ buf[w][d].dirty => CanLock(w, d)

\* The lock, and the file being what the buffer has seen of it.
MaySave(w, d, t, over) ==
  /\ t = d /\ buf[w][d].dirty => CanLock(w, d)
  /\ ~over /\ t = d /\ buf[w][d].dirty => buf[w][d].seen # "stale"

\* save_document_to_path, up to the backup.
BeginSave(w, d, t, over) ==
  LET b == buf[w][d] IN
  /\ Asks(w, d, t, over) /\ MaySave(w, d, t, over)
  /\ backups' = [backups EXCEPT ![t] = @ \union file[t]]
  /\ SetBuffer(w, d, [b EXCEPT !.lock = @ \/ (t = d /\ b.dirty)])
  /\ Enter(w, "backed", d, t, over)
  /\ UNCHANGED <<file, auto, newer, kept, session, owner, running, counters, history>>

\* The disk revision every buffer of a file remembers goes stale.
GoStale(t) ==
  [v \in Windows |-> [e \in Open(v) |->
     IF e = t /\ buf[v][e].seen = "current" THEN [buf[v][e] EXCEPT !.seen = "stale"]
     ELSE buf[v][e]]]

\* A save of t is between the backup and the replacement of the file: what is
\* written to it now will be in neither.
Slips(t, ws) == \E v \in ws : at[v].op = "backed" /\ at[v].to = t

\* write_document
WriteFile(w) ==
  LET t == at[w].to IN
  /\ at[w].op = "backed"
  /\ file' = [file EXCEPT ![t] = {buf[w][at[w].doc].text}]
  /\ newer' = [newer EXCEPT ![t] = FALSE]
  /\ saved' = saved \union buf[w][at[w].doc].text
  /\ buf' = GoStale(t)
  /\ at' = [at EXCEPT ![w].op = "written"]
  /\ missed' = IF Slips(t, Windows \ {w}) THEN missed \union buf[w][at[w].doc].text ELSE missed
  /\ UNCHANGED <<auto, kept, backups, session, owner, running, counters, dropped, shared>>

WriteFileFailsClean(w) ==
  /\ at[w].op = "backed"
  /\ at' = [at EXCEPT ![w] = Idle]
  /\ auto' = [auto EXCEPT ![at[w].doc] = {}]
  /\ UNCHANGED <<file, newer, kept, backups, session, owner, running, buf, counters, history>>

WriteFileFailsUnlocked(w) ==
  /\ at[w].op = "backed"
  /\ at' = [at EXCEPT ![w] = Idle]
  /\ buf' = [buf EXCEPT ![w][at[w].doc].lock = FALSE]
  /\ UNCHANGED <<disk, owner, running, counters, history>>

\* The write fails; the buffer, its lock and the autosave stay.
WriteFileFails(w) ==
  /\ at[w].op = "backed"
  /\ at' = [at EXCEPT ![w] = Idle]
  /\ UNCHANGED <<disk, owner, running, buf, counters, history>>

\* The buffer takes the path, gives up the lock, and its other copies go.  A
\* draft on offer is kept by a save to its own path and forgotten by one to
\* another.  Where the window has a second buffer for the path, that one keeps
\* its text in memory only and is not followed from here on.
FinishSave(w) ==
  LET d == at[w].doc
      t == at[w].to
      b == buf[w][d]
      open == (Open(w) \ {d}) \union {t}
      keeps == t = d /\ b.offer = "pending"
  IN
  /\ at[w].op = "written"
  /\ buf' = [buf EXCEPT ![w] = [e \in open |->
       IF e = t THEN [b EXCEPT !.dirty = FALSE, !.needs = FALSE, !.lock = FALSE,
                               !.typed = FALSE,
                               !.seen = IF file[t] = {} THEN "unknown" ELSE "current",
                               !.base = b.text, !.raced = file[t] # {b.text},
                               !.offer = IF keeps THEN "pending" ELSE "none"]
       ELSE @[e]]]
  /\ auto' = [e \in Docs |-> IF (e = t /\ ~keeps) \/ (e = d /\ d \in Drafts) THEN {} ELSE auto[e]]
  /\ kept' = [e \in Paths |-> IF e = t /\ t = d /\ b.offer = "opened" THEN {} ELSE kept[e]]
  /\ missed' = missed \union (IF t = d THEN {} ELSE Content(auto[t]))
                      \union (IF t # d /\ b.offer = "pending" THEN Content(kept[d]) ELSE {})
  /\ shared' = (shared \/ Elsewhere(w, {t}) \/ t \in Open(w) \ {d})
  /\ SaveSession(w, open)
  /\ at' = [at EXCEPT ![w] = Idle]
  /\ UNCHANGED <<file, newer, backups, owner, running, counters, saved, dropped>>

(* Buffers and windows that end *)

\* What nobody offers any more once the buffers ds of a window are gone: the
\* preserved drafts of files, and the autosaves of drafts the session file
\* does not list.
Unoffered(w, ds, listed) ==
  (UNION {Content(kept[d]) : d \in {e \in ds \intersect Paths : buf[w][e].offer # "none"}})
    \union (UNION {Content(auto[d]) \union buf[w][d].text : d \in (ds \intersect Drafts) \ listed})

\* kill_buffer_index; the user has agreed to what is unsaved being a recovery
\* copy only, and for a draft that is a file nobody opens again.  Where that cannot be written the buffer stays.
Kill(w, d) ==
  /\ Free(w) /\ d \in Open(w)
  /\ WriteAutosaves(w, {d})
  /\ buf' = [buf EXCEPT ![w] = Restrict(@, Open(w) \ {d})]
  /\ SaveSession(w, Open(w) \ {d})
  /\ missed' = missed \union Unoffered(w, {d}, session')
  /\ UNCHANGED <<file, kept, backups, owner, running, at, counters, dropped, shared>>

LeaveHolding(w) ==
  /\ budget.ends > 0 /\ budget' = [budget EXCEPT !.ends = @ - 1]
  /\ running' = running \ {w}
  /\ buf' = [buf EXCEPT ![w] = Restrict(@, {})]
  /\ at' = [at EXCEPT ![w] = Idle]
  /\ UNCHANGED owner

\* The process is gone, and its locks with it.
Leave(w) ==
  /\ budget.ends > 0 /\ budget' = [budget EXCEPT !.ends = @ - 1]
  /\ running' = running \ {w}
  /\ owner' = IF owner = w THEN None ELSE owner
  /\ buf' = [buf EXCEPT ![w] = Restrict(@, {})]
  /\ at' = [at EXCEPT ![w] = Idle]

\* confirm_quit_workspace and the end of main, or a signal or a terminal that
\* has gone: flush_recovery_state, and the locks are given up.
Quit(w) ==
  /\ Free(w)
  /\ WriteAutosaves(w, Open(w))
  /\ SaveSession(w, Open(w))
  /\ Leave(w)
  /\ missed' = missed \union Unoffered(w, Open(w), session')
  /\ UNCHANGED <<file, kept, backups, edits, dropped, shared>>

\* The process is killed; the kernel gives up its locks.
Crash(w) ==
  /\ w \in running
  /\ Leave(w)
  /\ missed' = missed \union Unoffered(w, Open(w), session)
  /\ UNCHANGED <<disk, edits, saved, dropped, shared>>

\* claim_workspace_if_available: the new owner lists its own buffers only.
Claim(w) ==
  /\ Free(w) /\ owner = None
  /\ owner' = w
  /\ session' = Open(w)
  /\ missed' = missed \union UNION {Content(auto[d]) : d \in (session \intersect Drafts) \ Open(w)}
  /\ UNCHANGED <<file, auto, newer, kept, backups, running, buf, at, counters, saved, dropped, shared>>

(* Other programs *)

OtherWrites(t) ==
  /\ t \in budget.docs
  /\ edits < EditLimit /\ edits' = edits + 1
  /\ budget.writes > 0 /\ budget' = [budget EXCEPT !.writes = @ - 1]
  /\ file' = [file EXCEPT ![t] = {Content(@) \union {edits'}}]
  /\ newer' = [newer EXCEPT ![t] = FALSE]
  /\ buf' = GoStale(t)
  /\ saved' = saved \union {edits'}
  /\ missed' = IF Slips(t, Windows) THEN missed \union {edits'} ELSE missed
  /\ UNCHANGED <<auto, kept, backups, session, owner, running, at, dropped, shared>>

OtherDeletes(t) ==
  /\ file[t] # {}
  /\ budget.writes > 0 /\ budget' = [budget EXCEPT !.writes = @ - 1]
  /\ file' = [file EXCEPT ![t] = {}]
  /\ buf' = GoStale(t)
  /\ dropped' = dropped \union Content(file[t])
  /\ UNCHANGED <<auto, newer, kept, backups, session, owner, running, at, edits, saved, missed, shared>>

Next ==
  \/ \E w \in Windows :
       \/ Start(w) \/ FinishLoad(w) \/ NoteSession(w)
       \/ WriteFile(w) \/ WriteFileFails(w) \/ FinishSave(w)
       \/ Quit(w) \/ Crash(w) \/ Claim(w)
       \/ \E d \in Docs :
            \/ Visit(w, d) \/ NewDraft(w, d) \/ Type(w, d)
            \/ OpenRecovery(w, d) \/ DiscardRecovery(w, d)
            \/ Autosave(w, d) \/ Kill(w, d)
            \/ \E t \in Paths, over \in BOOLEAN : BeginSave(w, d, t, over)
  \/ \E t \in Paths : OtherWrites(t) \/ OtherDeletes(t)

Spec == Init /\ [][Next]_vars

(* Properties *)

TypeOK ==
  /\ file \in [Paths -> SUBSET Texts] /\ \A d \in Paths : Cardinality(file[d]) <= 1
  /\ auto \in [Docs -> SUBSET Texts] /\ \A d \in Docs : Cardinality(auto[d]) <= 1
  /\ newer \in [Docs -> BOOLEAN]
  /\ kept \in [Paths -> SUBSET Texts] /\ \A d \in Paths : Cardinality(kept[d]) <= 1
  /\ backups \in [Paths -> SUBSET Texts]
  /\ session \subseteq Docs
  /\ owner \in running \union {None} /\ running \subseteq Windows
  /\ DOMAIN buf = Windows
  /\ \A w \in Windows : Open(w) \subseteq Docs /\ buf[w] \in [Open(w) -> Buffer]
  /\ at \in [Windows -> [op : {"idle", "loading", "noting", "backed", "written"},
                         doc : Docs \union {None}, to : Docs \union {None}, over : BOOLEAN]]
  /\ edits \in 0..EditLimit
  /\ {saved, dropped, missed} \subseteq SUBSET (1..edits)

\* The texts a user can still come to: files, backups, the autosaves that a
\* window or a visit takes up, and the preserved drafts a buffer offers.
OnOffer(d) == \E w \in Windows : d \in Open(w) /\ buf[w][d].offer # "none"
Listed(d) == d \in Paths \/ d \in session \/ \E w \in Windows : d \in Open(w)
Reachable ==
  (UNION {Content(file[d]) \union Content(backups[d]) : d \in Paths})
    \union (UNION {Content(auto[d]) : d \in {e \in Docs : Listed(e)}})
    \union (UNION {Content(kept[d]) : d \in {e \in Paths : OnOffer(e)}})

\* An edit that has once been written, to the file or as an autosave, can be
\* come to whatever kills, quits, failed and half done saves follow.  Left out
\* is what a user or another program did away with, what the program is known
\* to lose (missed; a draft on offer that a Save As to another path forgets is
\* part of it), and files that two buffers have had open at once.
NoEditLost == shared \/ saved \subseteq Reachable \union dropped \union missed

\* The same without what the program is known to lose.
DraftsAreOffered == shared \/ saved \subseteq Reachable \union dropped

\* Two windows never both have edits of one file that were typed since it was
\* last saved.  A recovered draft that is only opened is in its buffer without
\* a lock and does not count.
OneEditor ==
  \A v, w \in Windows : v # w =>
    \A d \in Paths \intersect Open(v) \intersect Open(w) : ~(buf[v][d].typed /\ buf[w][d].typed)

\* A save over a file that is not what its buffer last read or wrote is
\* refused, but for Save As, a file that was not there when it was visited,
\* and a change between the read, or write, and the stat that follows it.  It
\* is refused at the check: what is written between the check and the rename
\* is replaced all the same (Slips).
NoBlindSave ==
  [][\A w \in Windows :
       at[w] = Idle /\ at'[w].op = "backed" /\ ~at'[w].over /\ at'[w].doc = at'[w].to =>
         LET d == at'[w].doc IN
         buf[w][d].raced \/ buf[w][d].seen = "unknown" \/ file[d] = {buf[w][d].base}]_vars
=============================================================================
