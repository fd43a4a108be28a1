------------------------ MODULE WordsRecoveryProofs ------------------------
(***************************************************************************)
(* For any windows, files, drafts and number of edits: types (TypeOK), no  *)
(* edit lost (NoEditLost), one editor (OneEditor) and no blind save        *)
(* (NoBlindSave).  The argument follows a text from one place it is kept   *)
(* in to the next: an autosave has nothing its buffer lacks (AutoInv), a   *)
(* draft on offer is out of the way of the autosave (OfferInv), the backup *)
(* has the file a save replaces (BackedInv), and the text just written     *)
(* stays where it can be found until the autosave goes (WrittenInv).  Each *)
(* of them is about one window and its document: that no other window has  *)
(* it open is SharedInv.                                                   *)
(***************************************************************************)
EXTENDS WordsRecovery, FiniteSetTheorems, TLAPS

-----------------------------------------------------------------------------
(* The inductive invariant, in parts that actions disturb separately.       *)

\* A file, an autosave or a preserved draft: nothing, or one text of the edits so far.
Written == SUBSET (1..edits)
Stored == {{}} \union {{t} : t \in Written}
BufferSoFar == [text : Written, dirty : BOOLEAN, needs : BOOLEAN,
                seen : {"unknown", "current", "stale"}, base : Written, raced : BOOLEAN,
                typed : BOOLEAN, offer : {"none", "pending", "opened"}, lock : BOOLEAN]
Handlers == [op : {"idle", "loading", "noting", "backed", "written"},
             doc : Docs \union {None}, to : Docs \union {None}, over : BOOLEAN]

FileOK == file \in [Paths -> Stored]
AutoOK == auto \in [Docs -> Stored] /\ newer \in [Docs -> BOOLEAN]
KeptOK == kept \in [Paths -> Stored]
BackupsOK == backups \in [Paths -> SUBSET Written]
SessionOK == session \subseteq Docs
RunningOK == owner \in running \union {None} /\ running \subseteq Windows
BufferOK ==
  /\ DOMAIN buf = Windows
  /\ \A w \in Windows : buf[w] \in [Open(w) -> BufferSoFar] /\ Open(w) \subseteq Docs
AtOK == at \in [Windows -> Handlers]
CountersOK == edits \in 0..EditLimit /\ budget \in [windows : SUBSET Windows,
                                                    docs : SUBSET Docs,
                                                    writes : Nat, ends : Nat]
HistoryOK == saved \in Written /\ dropped \in Written /\ missed \in Written /\ shared \in BOOLEAN

\* A process that is not there has no buffers; the session file of an owner
\* lists documents it has open.
IdleInv == \A w \in Windows \ running : Open(w) = {} /\ at[w] = Idle
OwnerInv == owner # None => session \subseteq Open(owner)

\* What a handler works on stays open, and a save goes to a path.
AtInv ==
  \A w \in Windows : at[w].op # "idle" =>
    /\ at[w].doc \in Open(w)
    /\ at[w].op = "loading" => at[w].doc \in Paths /\ buf[w][at[w].doc].offer = "none"
    /\ at[w].op \in {"backed", "written"} => at[w].to \in Paths
Loading(w, d) == at[w].op = "loading" /\ at[w].doc = d

\* Two windows have one document open only where that is remembered.
SharedInv == ~shared => \A v, w \in Windows : v # w => Open(v) \intersect Open(w) = {}

\* What an autosave has, the buffer it is for has too.
AutoInv == ~shared =>
  \A w \in Windows : \A d \in Open(w) : Loading(w, d) \/ Content(auto[d])
    \subseteq buf[w][d].text \union missed

\* A draft on offer has taken the place of the autosave, and nothing replaces it until the
\* draft is opened; then it is in the buffer.
OfferInv ==
  \A w \in Windows : \A d \in Open(w) : buf[w][d].offer # "none" =>
    /\ d \in Paths
    /\ buf[w][d].offer = "pending" => ~buf[w][d].needs
    /\ ~shared /\ buf[w][d].offer = "pending" => auto[d] = {}
    /\ ~shared /\ buf[w][d].offer = "opened" => Content(kept[d]) \subseteq buf[w][d].text

\* Between the backup and the write the backup has what the file has, but for
\* what slipped in; after the write nothing of the text is lost.
BackedInv ==
  \A w \in Windows : at[w].op = "backed" =>
    Content(file[at[w].to]) \subseteq Content(backups[at[w].to]) \union missed
WrittenInv ==
  \A w \in Windows : at[w].op = "written" =>
    buf[w][at[w].doc].text \subseteq
      Content(file[at[w].to]) \union Content(backups[at[w].to]) \union dropped \union missed

\* Edits are typed under the lock, and one window has it.
LockInv ==
  /\ \A w \in Windows : \A d \in Open(w) \intersect Paths : buf[w][d].typed => buf[w][d].lock
  /\ \A v, w \in Windows : v # w =>
       \A d \in Open(v) \intersect Open(w) : ~(buf[v][d].lock /\ buf[w][d].lock)

\* A revision that is current is that of the file read or written last.
SeenInv ==
  \A w \in Windows : \A d \in Open(w) : buf[w][d].seen # "unknown" =>
    d \in Paths /\ (buf[w][d].seen = "current" => buf[w][d].raced \/ file[d] = {buf[w][d].base})

\* NoEditLost, edit by edit.
Found(x) ==
  \/ \E d \in Paths : x \in Content(file[d]) \union Content(backups[d])
  \/ \E d \in Docs : Listed(d) /\ x \in Content(auto[d])
  \/ \E d \in Paths : OnOffer(d) /\ x \in Content(kept[d])
  \/ x \in dropped \union missed
FoundInv == shared \/ \A x \in saved : Found(x)

Types == /\ FileOK /\ AutoOK /\ KeptOK /\ BackupsOK /\ SessionOK /\ RunningOK
         /\ BufferOK /\ AtOK /\ CountersOK /\ HistoryOK
IInv == /\ Types /\ IdleInv /\ OwnerInv /\ AtInv /\ SharedInv /\ AutoInv /\ OfferInv
        /\ BackedInv /\ WrittenInv /\ LockInv /\ SeenInv /\ FoundInv

-----------------------------------------------------------------------------
(* What the operators of the model give.                                    *)

LEMMA ContentOf == /\ Content({}) = {}
                   /\ \A t : Content({t}) = t
                   /\ \A s, t : Content(s \union t) = Content(s) \union Content(t)
BY DEF Content

LEMMA StoredContent ==
  ASSUME NEW s \in Stored
  PROVE  Content(s) \in Written /\ (s = {} \/ s = {Content(s)})
BY ContentOf DEF Stored, Written

(* Edits are only added.                                                    *)
LEMMA Grows ==
  ASSUME CountersOK, edits' \in Nat, edits' >= edits
  PROVE  Written \subseteq Written' /\ Stored \subseteq Stored' /\ BufferSoFar
           \subseteq BufferSoFar'
<1>1. 1..edits \subseteq 1..edits'
  BY DEF CountersOK
<1>2. Written \subseteq Written'
  BY <1>1 DEF Written
<1>3. Stored \subseteq Stored'
  BY <1>2 DEF Stored
<1>4. BufferSoFar \subseteq BufferSoFar'
  BY <1>2 DEF BufferSoFar
<1> QED
  BY <1>2, <1>3, <1>4

(* Windows other than w keep their buffers.                                 *)
Only(w) == DOMAIN buf' = Windows /\ \A v \in Windows \ {w} : buf'[v] = buf[v]

LEMMA SetBufferEffect ==
  ASSUME BufferOK, NEW w \in Windows, NEW d, NEW b, SetBuffer(w, d, b)
  PROVE  /\ Only(w)
         /\ DOMAIN buf'[w] = Open(w) \union {d}
         /\ buf'[w] = [e \in Open(w) \union {d} |-> buf'[w][e]]
         /\ buf'[w][d] = b
         /\ \A e \in Open(w) \ {d} : buf'[w][e] = buf[w][e]
BY DEF BufferOK, SetBuffer, Only

LEMMA OneWindow ==
  ASSUME BufferOK, NEW w \in Windows, Only(w), BufferSoFar \subseteq BufferSoFar',
         DOMAIN buf'[w] \subseteq Docs, buf'[w] \in [DOMAIN buf'[w] -> BufferSoFar']
  PROVE  BufferOK'
BY DEF BufferOK, Only, Open

LEMMA OneBuffer ==
  ASSUME BufferOK, NEW w \in Windows, NEW d \in Docs, NEW b \in BufferSoFar', SetBuffer(w, d, b),
         BufferSoFar \subseteq BufferSoFar'
  PROVE  BufferOK'
<1>1. /\ Only(w) /\ DOMAIN buf'[w] = Open(w) \union {d}
      /\ buf'[w] = [e \in Open(w) \union {d} |-> buf'[w][e]]
      /\ buf'[w][d] = b /\ \A e \in Open(w) \ {d} : buf'[w][e] = buf[w][e]
  BY SetBufferEffect
<1>2. Open(w) \subseteq Docs /\ \A e \in Open(w) : buf[w][e] \in BufferSoFar
  BY DEF BufferOK
<1>3. \A e \in Open(w) \union {d} : buf'[w][e] \in BufferSoFar'
  BY <1>1, <1>2
<1> QED
  BY <1>1, <1>2, <1>3, OneWindow

LEMMA TypesGiveTypeOK == Types => TypeOK
<1> SUFFICES ASSUME Types PROVE TypeOK
  OBVIOUS
<1>1. 1..edits \subseteq Edits
  BY BoundsAssumption DEF Types, CountersOK, Edits
<1>2. Written \subseteq Texts
  BY <1>1 DEF Written, Texts
<1>3. \A s \in Stored : s \in SUBSET Texts /\ Cardinality(s) <= 1
  BY <1>2, FS_EmptySet, FS_Singleton DEF Stored
<1>4. BufferSoFar \subseteq Buffer
  BY <1>2 DEF BufferSoFar, Buffer
<1>5. file \in [Paths -> SUBSET Texts] /\ \A d \in Paths : Cardinality(file[d]) <= 1
  BY <1>3 DEF Types, FileOK
<1>6. auto \in [Docs -> SUBSET Texts] /\ \A d \in Docs : Cardinality(auto[d]) <= 1
  BY <1>3 DEF Types, AutoOK
<1>7. kept \in [Paths -> SUBSET Texts] /\ \A d \in Paths : Cardinality(kept[d]) <= 1
  BY <1>3 DEF Types, KeptOK
<1>8. backups \in [Paths -> SUBSET Texts]
  BY <1>2 DEF Types, BackupsOK
<1>9. \A w \in Windows : Open(w) \subseteq Docs /\ buf[w] \in [Open(w) -> Buffer]
  BY <1>4 DEF Types, BufferOK
<1>10. {saved, dropped, missed} \subseteq SUBSET (1..edits)
  BY DEF Types, HistoryOK, Written
<1>11. newer \in [Docs -> BOOLEAN] /\ session \subseteq Docs /\ edits \in 0..EditLimit
       /\ owner \in running \union {None} /\ running \subseteq Windows /\ DOMAIN buf = Windows
  BY DEF Types, AutoOK, SessionOK, CountersOK, RunningOK, BufferOK
<1>12. at \in [Windows -> [op : {"idle", "loading", "noting", "backed", "written"},
                           doc : Docs \union {None}, to : Docs \union {None}, over : BOOLEAN]]
  BY DEF Types, AtOK, Handlers
<1> QED
  BY <1>5, <1>6, <1>7, <1>8, <1>9, <1>10, <1>11, <1>12 DEF TypeOK

(* A part of the invariant stands while the variables it is about do.       *)
LEMMA Unchanged ==
  ASSUME IInv
  PROVE
         /\ UNCHANGED <<file, edits>> => FileOK'
         /\ UNCHANGED <<auto, newer, edits>> => AutoOK'
         /\ UNCHANGED <<kept, edits>> => KeptOK'
         /\ UNCHANGED <<backups, edits>> => BackupsOK'
         /\ UNCHANGED <<session>> => SessionOK'
         /\ UNCHANGED <<owner, running>> => RunningOK'
         /\ UNCHANGED <<buf, edits>> => BufferOK'
         /\ UNCHANGED <<at>> => AtOK'
         /\ UNCHANGED <<edits, budget>> => CountersOK'
         /\ UNCHANGED <<saved, dropped, missed, shared, edits>> => HistoryOK'
         /\ UNCHANGED <<buf, running, at>> => IdleInv'
         /\ UNCHANGED <<owner, session, buf>> => OwnerInv'
         /\ UNCHANGED <<at, buf>> => AtInv'
         /\ UNCHANGED <<shared, buf>> => SharedInv'
         /\ UNCHANGED <<shared, at, buf, auto, missed>> => AutoInv'
         /\ UNCHANGED <<buf, shared, auto, kept>> => OfferInv'
         /\ UNCHANGED <<at, file, backups, missed>> => BackedInv'
         /\ UNCHANGED <<at, buf, file, backups, dropped, missed>> => WrittenInv'
         /\ UNCHANGED <<buf>> => LockInv'
         /\ UNCHANGED <<buf, file>> => SeenInv'
         /\ UNCHANGED <<file, backups, auto, kept, session, buf, saved, dropped, missed,
              shared>> => FoundInv'
<1>1. UNCHANGED <<file, edits>> => FileOK'
  BY DEF IInv, Types, FileOK, Stored, Written
<1>2. UNCHANGED <<auto, newer, edits>> => AutoOK'
  BY DEF IInv, Types, AutoOK, Stored, Written
<1>3. UNCHANGED <<kept, edits>> => KeptOK'
  BY DEF IInv, Types, KeptOK, Stored, Written
<1>4. UNCHANGED <<backups, edits>> => BackupsOK'
  BY DEF IInv, Types, BackupsOK, Written
<1>5. UNCHANGED <<session>> => SessionOK'
  BY DEF IInv, Types, SessionOK
<1>6. UNCHANGED <<owner, running>> => RunningOK'
  BY DEF IInv, Types, RunningOK
<1>7. UNCHANGED <<buf, edits>> => BufferOK'
  BY DEF IInv, Types, BufferOK, BufferSoFar, Written, Open
<1>8. UNCHANGED <<at>> => AtOK'
  BY DEF IInv, Types, AtOK
<1>9. UNCHANGED <<edits, budget>> => CountersOK'
  BY DEF IInv, Types, CountersOK
<1>10. UNCHANGED <<saved, dropped, missed, shared, edits>> => HistoryOK'
  BY DEF IInv, Types, HistoryOK, Written
<1>11. UNCHANGED <<buf, running, at>> => IdleInv'
  BY DEF IInv, IdleInv, Open
<1>12. UNCHANGED <<owner, session, buf>> => OwnerInv'
  BY DEF IInv, OwnerInv, Open
<1>13. UNCHANGED <<at, buf>> => AtInv'
  BY DEF IInv, AtInv, Open
<1>14. UNCHANGED <<shared, buf>> => SharedInv'
  BY DEF IInv, SharedInv, Open
<1>15. UNCHANGED <<shared, at, buf, auto, missed>> => AutoInv'
  BY DEF IInv, AutoInv, Open, Loading
<1>16. UNCHANGED <<buf, shared, auto, kept>> => OfferInv'
  BY DEF IInv, OfferInv, Open
<1>17. UNCHANGED <<at, file, backups, missed>> => BackedInv'
  BY DEF IInv, BackedInv
<1>18. UNCHANGED <<at, buf, file, backups, dropped, missed>> => WrittenInv'
  BY DEF IInv, WrittenInv
<1>19. UNCHANGED <<buf>> => LockInv'
  BY DEF IInv, LockInv, Open
<1>20. UNCHANGED <<buf, file>> => SeenInv'
  BY DEF IInv, SeenInv, Open
<1>21. UNCHANGED <<file, backups, auto, kept, session, buf, saved, dropped, missed, shared>>
         => FoundInv'
  BY DEF IInv, FoundInv, Open, Found, Listed, OnOffer
<1> QED
  BY <1>1, <1>2, <1>3, <1>4, <1>5, <1>6, <1>7, <1>8, <1>9, <1>10, <1>11, <1>12, <1>13, <1>14,
     <1>15, <1>16, <1>17, <1>18, <1>19, <1>20, <1>21

LEMMA FoundAll == FoundInv => NoEditLost
<1> DEFINE Files == UNION {Content(file[d]) \union Content(backups[d]) : d \in Paths}
           Autos == UNION {Content(auto[d]) : d \in {e \in Docs : Listed(e)}}
           Kepts == UNION {Content(kept[d]) : d \in {e \in Paths : OnOffer(e)}}
<1>1. Reachable = (Files \union Autos) \union Kepts
  BY DEF Reachable
<1>2. ASSUME NEW d \in Paths, NEW x \in Content(file[d]) \union Content(backups[d])
      PROVE  x \in Files
  OBVIOUS
<1>3. ASSUME NEW d \in Docs, Listed(d), NEW x \in Content(auto[d])
      PROVE  x \in Autos
  BY <1>3
<1>4. ASSUME NEW d \in Paths, OnOffer(d), NEW x \in Content(kept[d])
      PROVE  x \in Kepts
  BY <1>4
<1> HIDE DEF Files, Autos, Kepts
<1> QED
  BY <1>1, <1>2, <1>3, <1>4 DEF Found, FoundInv, NoEditLost

(* FoundInv holds on when what could be found can still be.                 *)
FilesStay == \A d \in Paths : \A x \in Content(file[d]) \union Content(backups[d]) : Found(x)'
AutosStay == \A d \in Docs : Listed(d) => \A x \in Content(auto[d]) : Found(x)'
DraftsStay == \A d \in Paths : OnOffer(d) => \A x \in Content(kept[d]) : Found(x)'

LEMMA FoundFollows ==
  ASSUME FoundInv, shared => shared', dropped \subseteq dropped', missed \subseteq missed',
         ~shared' => /\ FilesStay /\ AutosStay /\ DraftsStay
                     /\ \A x \in saved' \ saved : Found(x)'
  PROVE  FoundInv'
<1> SUFFICES ASSUME ~shared', NEW x \in saved' PROVE Found(x)'
  BY DEF FoundInv
<1>1. CASE x \notin saved
  BY <1>1
<1>2. CASE x \in dropped \union missed
  BY <1>2 DEF Found
<1>3. CASE Found(x) /\ x \notin dropped \union missed
  BY <1>3 DEF Found, FilesStay, AutosStay, DraftsStay
<1> QED
  BY <1>1, <1>2, <1>3 DEF FoundInv

LEMMA SameFiles ==
  ASSUME UNCHANGED <<file, backups>>
  PROVE  FilesStay
BY DEF FilesStay, Found

LEMMA SameAutos ==
  ASSUME UNCHANGED auto, \A d \in Docs : Listed(d) => Listed(d)'
  PROVE  AutosStay
BY DEF AutosStay, Found

LEMMA SameDrafts ==
  ASSUME UNCHANGED kept, \A d \in Paths : OnOffer(d) => OnOffer(d)'
  PROVE  DraftsStay
BY DEF DraftsStay, Found

(* A document that stays open stays listed, and a draft on offer, offered.  *)
LEMMA ListedStays ==
  ASSUME NEW d \in Docs, Listed(d), session \subseteq session',
         \A v \in Windows : Open(v) \subseteq Open(v)'
  PROVE  Listed(d)'
BY DEF Listed

(* An open buffer changes.                                                  *)
LEMMA BufferChanges ==
  ASSUME BufferOK, NEW w \in Windows, NEW d, NEW b, SetBuffer(w, d, b), d \in Open(w)
  PROVE  /\ \A v \in Windows : Open(v)' = Open(v)
         /\ buf'[w][d] = b
         /\ \A e \in Open(w) \ {d} : buf'[w][e] = buf[w][e]
         /\ \A v \in Windows \ {w} : buf'[v] = buf[v]
<1>1. /\ Only(w) /\ DOMAIN buf'[w] = Open(w) \union {d}
      /\ buf'[w][d] = b /\ \A e \in Open(w) \ {d} : buf'[w][e] = buf[w][e]
  BY SetBufferEffect
<1> QED
  BY <1>1 DEF Only, Open

LEMMA OfferStays ==
  ASSUME BufferOK, NEW w \in Windows, NEW d, NEW b, SetBuffer(w, d, b), d \in Open(w),
         buf[w][d].offer # "none" => b.offer # "none", NEW e, OnOffer(e)
  PROVE  OnOffer(e)'
<1>1. /\ \A v \in Windows : Open(v)' = Open(v)
      /\ buf'[w][d] = b
      /\ \A f \in Open(w) \ {d} : buf'[w][f] = buf[w][f]
      /\ \A v \in Windows \ {w} : buf'[v] = buf[v]
  BY BufferChanges
<1> QED
  BY <1>1 DEF OnOffer

(* The documents that are open stay the same ones.                          *)
LEMMA SameOpen ==
  ASSUME IInv, \A v \in Windows : Open(v)' = Open(v)
  PROVE  /\ UNCHANGED <<running, at>> => IdleInv'
         /\ UNCHANGED <<owner, session>> => OwnerInv'
         /\ UNCHANGED shared => SharedInv'
<1>1. UNCHANGED <<running, at>> => IdleInv'
  BY DEF IInv, IdleInv
<1>2. UNCHANGED <<owner, session>> => OwnerInv'
  BY DEF IInv, Types, RunningOK, OwnerInv
<1>3. UNCHANGED shared => SharedInv'
  BY DEF IInv, SharedInv
<1> QED
  BY <1>1, <1>2, <1>3

(* The session file of an owner that stays lists its buffers.               *)
LEMMA SessionSaved ==
  ASSUME IInv, NEW w \in Windows, NEW docs \in SUBSET Docs, SaveSession(w, docs),
         docs \subseteq Open(w)', \A v \in Windows \ {w} : Open(v)' = Open(v), UNCHANGED owner
  PROVE  /\ SessionOK' /\ OwnerInv'
         /\ Open(w) \subseteq docs => session \subseteq session'
<1>1. CASE owner = w
  <2>1. session' = docs
    BY <1>1 DEF SaveSession
  <2>2. OwnerInv'
    BY <2>1, <1>1 DEF OwnerInv, Open
  <2>3. owner # None => session \subseteq Open(w)
    BY <1>1 DEF IInv, OwnerInv
  <2>4. owner # None
    BY <1>1, NamesAssumption
  <2> QED
    BY <2>1, <2>2, <2>3, <2>4 DEF SessionOK
<1>2. CASE owner # w
  <2>1. session' = session
    BY <1>2 DEF SaveSession
  <2>2. owner # None => owner \in Windows \ {w}
    BY <1>2 DEF IInv, Types, RunningOK
  <2> QED
    BY <2>1, <2>2 DEF IInv, Types, SessionOK, OwnerInv
<1> QED
  BY <1>1, <1>2

(* What a load leaves.                                                      *)
LEMMA LoadedFields ==
  ASSUME FileOK, AutoOK, NEW d \in Paths, NEW read \in Written
  PROVE  /\ Loaded(d, read) \in BufferSoFar
         /\ Loaded(d, read).text = IF Recovers(d) THEN Content(auto[d]) ELSE read
         /\ Loaded(d, read).offer = IF Preserves(d) THEN "pending" ELSE "none"
         /\ ~Loaded(d, read).needs /\ ~Loaded(d, read).typed /\ ~Loaded(d, read).lock
         /\ Loaded(d, read).seen = "current" =>
              Loaded(d, read).raced \/ file[d] = {Loaded(d, read).base}
<1>1. auto[d] \in Stored /\ file[d] \in Stored
  BY DEF AutoOK, FileOK, Docs
<1>2. Content(auto[d]) \in Written /\ (file[d] = {} \/ file[d] = {Content(file[d])})
  BY <1>1, StoredContent
<1>3. PICK r, p, q \in BOOLEAN : r = Recovers(d) /\ p = Preserves(d)
             /\ q = (read # Content(file[d]))
  BY Zenon DEF Recovers, Preserves
<1>4. Loaded(d, read) =
        [text |-> IF r THEN Content(auto[d]) ELSE read, dirty |-> r, needs |-> FALSE,
         seen |-> IF file[d] = {} THEN "unknown" ELSE "current",
         base |-> read, raced |-> q, typed |-> FALSE,
         offer |-> IF p THEN "pending" ELSE "none", lock |-> FALSE]
  BY <1>3 DEF Loaded
<1>5. Loaded(d, read) \in BufferSoFar
  BY <1>2, <1>4 DEF BufferSoFar
<1>6. /\ Loaded(d, read).text = IF Recovers(d) THEN Content(auto[d]) ELSE read
      /\ Loaded(d, read).offer = IF Preserves(d) THEN "pending" ELSE "none"
      /\ ~Loaded(d, read).needs /\ ~Loaded(d, read).typed /\ ~Loaded(d, read).lock
  BY <1>3, <1>4
<1>7. Loaded(d, read).base = read /\ Loaded(d, read).raced = q
  BY <1>4
<1>8. Loaded(d, read).seen = "current" => file[d] # {}
  BY <1>4
<1> QED
  BY <1>2, <1>3, <1>5, <1>6, <1>7, <1>8

LEMMA PreserveEffect ==
  ASSUME Types, NEW ds \in SUBSET Docs, Preserve(ds), UNCHANGED <<edits, newer>>
  PROVE  /\ AutoOK' /\ KeptOK' /\ missed' \in Written' /\ missed \subseteq missed'
         /\ \A d \in Docs : auto'[d] = IF d \in ds \intersect Paths /\ Preserves(d) THEN {}
              ELSE auto[d]
         /\ \A d \in Paths : kept'[d] = IF d \in ds /\ Preserves(d) THEN auto[d] ELSE kept[d]
         /\ \A d \in ds \intersect Paths : PassesOver(d) => Content(auto[d]) \subseteq missed'
<1>1. Stored' = Stored /\ Written' = Written
  BY DEF Stored, Written
<1>2. /\ kept' = [d \in Paths |-> IF d \in ds /\ Preserves(d) THEN auto[d] ELSE kept[d]]
      /\ auto' = [d \in Docs |-> IF d \in ds \intersect Paths /\ Preserves(d) THEN {} ELSE auto[d]]
      /\ missed' = missed \union UNION {Content(auto[d]) : d \in {e \in ds \intersect Paths :
           PassesOver(e)}}
  BY DEF Preserve
<1>3. AutoOK'
  BY <1>1, <1>2 DEF Types, AutoOK, Stored
<1>4. KeptOK'
  BY <1>1, <1>2 DEF Types, AutoOK, KeptOK, Docs
<1>5. \A d \in Docs : Content(auto[d]) \in Written
  BY StoredContent DEF Types, AutoOK
<1>6. missed' \in Written
  <2> DEFINE over == {e \in ds \intersect Paths : PassesOver(e)}
  <2>1. over \subseteq Docs
    BY DEF Docs
  <2> HIDE DEF over
  <2>2. \A d \in over : Content(auto[d]) \subseteq 1..edits
    BY <2>1, <1>5 DEF Written
  <2>3. missed' = missed \union UNION {Content(auto[d]) : d \in over}
    BY <1>2 DEF over
  <2>4. UNION {Content(auto[d]) : d \in over} \subseteq 1..edits
    BY <2>2
  <2> QED
    BY <2>3, <2>4 DEF Types, HistoryOK, Written
<1>7. ASSUME NEW d \in ds \intersect Paths, PassesOver(d) PROVE Content(auto[d]) \subseteq missed'
  <2> DEFINE over == {e \in ds \intersect Paths : PassesOver(e)}
  <2>1. d \in over
    BY <1>7
  <2>2. missed' = missed \union UNION {Content(auto[e]) : e \in over}
    BY <1>2
  <2> HIDE DEF over
  <2> QED
    BY <2>1, <2>2
<1> QED
  BY <1>1, <1>2, <1>3, <1>4, <1>6, <1>7

(* What a flush of the recovery state writes, and what nobody offers then.  *)
LEMMA WriteAutosavesEffect ==
  ASSUME Types, NEW w \in Windows, NEW ds \in SUBSET Open(w), WriteAutosaves(w, ds), UNCHANGED edits
  PROVE  /\ AutoOK' /\ saved' \in Written' /\ saved \subseteq saved'
         /\ \A d \in Docs : auto'[d] = IF d \in ds /\ buf[w][d].needs THEN {buf[w][d].text}
              ELSE auto[d]
         /\ \A x \in saved' \ saved : \E d \in ds : buf[w][d].needs /\ x \in buf[w][d].text
<1> DEFINE new == {d \in ds : buf[w][d].needs}
<1>1. /\ auto' = [d \in Docs |-> IF d \in new THEN {buf[w][d].text} ELSE auto[d]]
      /\ newer' = [d \in Docs |-> d \in new \/ newer[d]]
      /\ saved' = saved \union UNION {buf[w][d].text : d \in new}
  BY DEF WriteAutosaves
<1>2. \A d \in new : d \in ds /\ buf[w][d].needs /\ buf[w][d].text \in Written /\ d \in Docs
  BY DEF Types, BufferOK, BufferSoFar
<1>3. \A d \in ds : buf[w][d].needs => d \in new
  OBVIOUS
<1> HIDE DEF new
<1>4. Stored' = Stored /\ Written' = Written
  BY DEF Stored, Written
<1>5. \A d \in Docs : newer'[d] \in BOOLEAN
  BY <1>1, Zenon DEF Types, AutoOK
<1>6. \A d \in new : {buf[w][d].text} \in Stored
  BY <1>2 DEF Stored
<1>7. AutoOK'
  BY <1>1, <1>4, <1>5, <1>6 DEF Types, AutoOK
<1>8. \A x \in saved' \ saved : \E d \in new : x \in buf[w][d].text
  BY <1>1
<1>9. saved' \in Written'
  BY <1>2, <1>4, <1>8 DEF Types, HistoryOK, Written
<1> QED
  BY <1>1, <1>2, <1>3, <1>7, <1>8, <1>9

LEMMA UnofferedHas ==
  ASSUME Types, NEW w \in Windows, NEW ds \in SUBSET Open(w), NEW listed
  PROVE  /\ Unoffered(w, ds, listed) \in Written
         /\ \A d \in ds \intersect Paths : buf[w][d].offer # "none" =>
              Content(kept[d]) \subseteq Unoffered(w, ds, listed)
         /\ \A d \in (ds \intersect Drafts) \ listed :
              Content(auto[d]) \union buf[w][d].text \subseteq Unoffered(w, ds, listed)
<1> DEFINE offered == {e \in ds \intersect Paths : buf[w][e].offer # "none"}
           lost == (ds \intersect Drafts) \ listed
           A == UNION {Content(kept[d]) : d \in offered}
           B == UNION {Content(auto[d]) \union buf[w][d].text : d \in lost}
<1>1. Unoffered(w, ds, listed) = A \union B
  BY DEF Unoffered
<1>2. \A d \in offered : Content(kept[d]) \in Written
  BY StoredContent DEF Types, KeptOK
<1>3. \A d \in lost : Content(auto[d]) \in Written /\ buf[w][d].text \in Written
  BY StoredContent DEF Types, AutoOK, BufferOK, BufferSoFar, Docs
<1>4. \A d \in ds \intersect Paths : buf[w][d].offer # "none" => d \in offered
  OBVIOUS
<1> HIDE DEF offered, lost
<1>5. A \in Written
  BY <1>2 DEF Written
<1>6. B \in Written
  BY <1>3 DEF Written
<1>7. \A d \in offered : Content(kept[d]) \subseteq A
  OBVIOUS
<1>8. \A d \in lost : Content(auto[d]) \union buf[w][d].text \subseteq B
  OBVIOUS
<1> HIDE DEF A, B
<1> QED
  BY <1>1, <1>4, <1>5, <1>6, <1>7, <1>8 DEF Written, lost

(* A window closes the documents ds, or ends and closes them all.           *)
LEMMA Closes ==
  ASSUME IInv, NEW w \in Windows, NEW ds \in SUBSET Open(w), at[w] = Idle \/ ds = Open(w),
         at' = [at EXCEPT ![w] = Idle],
         buf' = [buf EXCEPT ![w] = Restrict(buf[w], Open(w) \ ds)],
         (at[w] = Idle /\ WriteAutosaves(w, ds)) \/ UNCHANGED <<auto, newer, saved>>,
         missed' = missed \union Unoffered(w, ds, session'), session \ ds \subseteq session',
         UNCHANGED <<file, kept, backups, edits, dropped, shared>>
  PROVE  /\ AutoOK' /\ BufferOK' /\ AtOK' /\ HistoryOK' /\ AtInv' /\ SharedInv'
         /\ AutoInv' /\ OfferInv' /\ BackedInv' /\ WrittenInv' /\ LockInv' /\ SeenInv' /\ FoundInv'
         /\ Open(w)' = Open(w) \ ds /\ \A v \in Windows \ {w} : Open(v)' = Open(v) /\ at'[v] = at[v]
         /\ at'[w] = Idle
<1>1. /\ Only(w) /\ DOMAIN buf'[w] = Open(w) \ ds
      /\ buf'[w] = [e \in Open(w) \ ds |-> buf'[w][e]]
      /\ \A e \in Open(w) \ ds : buf'[w][e] = buf[w][e]
  BY DEF IInv, Types, BufferOK, Only, Restrict
<1>2. /\ Open(w)' = Open(w) \ ds
      /\ \A v \in Windows : Open(v)' \subseteq Open(v)
      /\ \A v \in Windows : \A e \in Open(v)' : buf'[v][e] = buf[v][e]
      /\ \A v \in Windows \ {w} : buf'[v] = buf[v] /\ Open(v)' = Open(v)
  BY <1>1 DEF Only, Open
<1>3. at'[w] = Idle /\ \A v \in Windows \ {w} : at'[v] = at[v]
  BY DEF IInv, Types, AtOK
<1>4. BufferSoFar' = BufferSoFar /\ Written' = Written /\ Stored' = Stored
  BY DEF BufferSoFar, Written, Stored
<1>5. BufferOK'
  <2>1. buf'[w] \in [DOMAIN buf'[w] -> BufferSoFar] /\ DOMAIN buf'[w] \subseteq Docs
    BY <1>1 DEF IInv, Types, BufferOK
  <2> QED
    BY <2>1, <1>1, <1>4, OneWindow DEF IInv, Types
<1>6. /\ AutoOK' /\ saved' \in Written' /\ saved \subseteq saved'
      /\ \A d \in Docs : auto'[d] = auto[d] \/ (d \in ds /\ at[w] = Idle
           /\ auto'[d] = {buf[w][d].text})
      /\ \A x \in saved' \ saved : \E d \in ds : x \in buf[w][d].text /\ auto'[d] = {buf[w][d].text}
  <2>1. CASE UNCHANGED <<auto, newer, saved>>
    <3>1. AutoOK'
      BY <2>1, <1>4 DEF IInv, Types, AutoOK
    <3> QED
      BY <2>1, <3>1, <1>4 DEF IInv, Types, HistoryOK
  <2>2. CASE at[w] = Idle /\ WriteAutosaves(w, ds)
    <3>1. /\ AutoOK' /\ saved' \in Written' /\ saved \subseteq saved'
          /\ \A d \in Docs : auto'[d] = IF d \in ds /\ buf[w][d].needs THEN {buf[w][d].text} ELSE
               auto[d]
          /\ \A x \in saved' \ saved : \E d \in ds : buf[w][d].needs /\ x \in buf[w][d].text
      BY <2>2, WriteAutosavesEffect DEF IInv
    <3>2. ds \subseteq Docs
      BY DEF IInv, Types, BufferOK
    <3> QED
      BY <2>2, <3>1, <3>2
  <2> QED
    BY <2>1, <2>2
<1>7. /\ missed \subseteq missed' /\ missed' \in Written'
      /\ \A d \in ds \intersect Paths : buf[w][d].offer # "none" => Content(kept[d])
           \subseteq missed'
      /\ \A d \in ds \ session' : d \in Paths \/ Content(auto[d])
           \union buf[w][d].text \subseteq missed'
  <2>1. /\ Unoffered(w, ds, session') \in Written
        /\ \A d \in ds \intersect Paths : buf[w][d].offer # "none" =>
             Content(kept[d]) \subseteq Unoffered(w, ds, session')
        /\ \A d \in (ds \intersect Drafts) \ session' :
             Content(auto[d]) \union buf[w][d].text \subseteq Unoffered(w, ds, session')
    BY UnofferedHas DEF IInv
  <2>2. ds \subseteq Paths \union Drafts
    BY DEF IInv, Types, BufferOK, Docs
  <2>3. missed' \in Written'
    BY <2>1, <1>4 DEF IInv, Types, HistoryOK, Written
  <2> QED
    BY <2>1, <2>2, <2>3
<1>8. AtOK' /\ HistoryOK'
  <2>1. AtOK'
    BY DEF IInv, Types, AtOK, Handlers, Idle
  <2> QED
    BY <2>1, <1>4, <1>6, <1>7 DEF IInv, Types, HistoryOK
<1>9. AtInv'
  BY <1>2, <1>3 DEF IInv, AtInv, Idle
<1>10. SharedInv'
  BY <1>2 DEF IInv, SharedInv
<1>11. AutoInv'
  <2> SUFFICES ASSUME ~shared, NEW v \in Windows, NEW e \in Open(v)', ~Loading(v, e)'
               PROVE  Content(auto'[e]) \subseteq buf'[v][e].text \union missed'
    BY DEF AutoInv
  <2>1. e \in Open(v) /\ e \notin ds /\ e \in Docs /\ buf'[v][e] = buf[v][e]
    BY <1>2 DEF IInv, SharedInv, Types, BufferOK
  <2>2. ~Loading(v, e)
    BY <1>2, <1>3, <2>1 DEF Loading, Idle
  <2> QED
    BY <2>1, <2>2, <1>6, <1>7 DEF IInv, AutoInv
<1>12. OfferInv'
  <2> SUFFICES ASSUME NEW v \in Windows, NEW e \in Open(v)', buf'[v][e].offer # "none"
               PROVE  /\ e \in Paths
                      /\ buf'[v][e].offer = "pending" => ~buf'[v][e].needs
                      /\ ~shared /\ buf'[v][e].offer = "pending" => auto'[e] = {}
                      /\ ~shared /\ buf'[v][e].offer = "opened" => Content(kept[e])
                           \subseteq buf'[v][e].text
    BY DEF OfferInv
  <2>1. e \in Open(v) /\ (~shared => e \notin ds) /\ e \in Docs /\ buf'[v][e] = buf[v][e]
    BY <1>2 DEF IInv, SharedInv, Types, BufferOK
  <2> QED
    BY <2>1, <1>6 DEF IInv, OfferInv
<1>13. BackedInv' /\ WrittenInv'
  <2>1. BackedInv'
    BY <1>3, <1>7 DEF IInv, BackedInv, Idle
  <2>2. WrittenInv'
    BY <1>2, <1>3, <1>7 DEF IInv, WrittenInv, Idle
  <2> QED
    BY <2>1, <2>2
<1>14. LockInv' /\ SeenInv'
  <2>1. \A v \in Windows : \A e \in Open(v)' : e \in Open(v) /\ buf'[v][e] = buf[v][e]
    BY <1>2
  <2>2. LockInv'
    <3>1. ASSUME NEW v \in Windows, NEW e \in Open(v)' \intersect Paths, buf'[v][e].typed
          PROVE  buf'[v][e].lock
      <4>1. e \in Open(v) \intersect Paths /\ buf'[v][e] = buf[v][e]
        BY <2>1
      <4> QED
        BY <3>1, <4>1 DEF IInv, LockInv
    <3>2. ASSUME NEW u \in Windows, NEW v \in Windows, u # v, NEW e \in Open(u)' \intersect Open(v)'
          PROVE  ~(buf'[u][e].lock /\ buf'[v][e].lock)
      <4>1. e \in Open(u) \intersect Open(v) /\ buf'[u][e] = buf[u][e] /\ buf'[v][e] = buf[v][e]
        BY <2>1
      <4> QED
        BY <3>2, <4>1 DEF IInv, LockInv
    <3> QED
      BY <3>1, <3>2 DEF LockInv
  <2>3. SeenInv'
    <3> SUFFICES ASSUME NEW v \in Windows, NEW e \in Open(v)', buf'[v][e].seen # "unknown"
                 PROVE  /\ e \in Paths
                        /\ buf'[v][e].seen = "current" => buf'[v][e].raced
                             \/ file[e] = {buf'[v][e].base}
      BY DEF SeenInv
    <3>1. e \in Open(v) /\ buf'[v][e] = buf[v][e]
      BY <2>1
    <3> QED
      BY <3>1 DEF IInv, SeenInv
  <2> QED
    BY <2>2, <2>3
<1>15. \A d \in ds : Listed(d)' \/ Content(auto[d]) \union buf[w][d].text \subseteq missed'
  BY <1>7 DEF Listed
<1>16. \A d \in Docs \ ds : Listed(d) => Listed(d)'
  BY <1>2 DEF Listed
<1>17. ~shared => AutosStay
  <2> SUFFICES ASSUME ~shared, NEW d \in Docs, Listed(d), NEW x \in Content(auto[d]) PROVE Found(x)'
    BY DEF AutosStay
  <2>1. CASE auto'[d] = auto[d]
    BY <2>1, <1>15, <1>16 DEF Found
  <2>2. CASE d \in ds /\ at[w] = Idle /\ auto'[d] = {buf[w][d].text}
    <3>1. x \in buf[w][d].text \union missed
      BY <2>2 DEF IInv, AutoInv, Loading, Idle
    <3>2. Content(auto'[d]) = buf[w][d].text
      BY <2>2, ContentOf
    <3> QED
      BY <2>2, <3>1, <3>2, <1>7, <1>15 DEF Found
  <2> QED
    BY <2>1, <2>2, <1>6
<1>18. \A x \in saved' \ saved : Found(x)'
  <2> SUFFICES ASSUME NEW x \in saved' \ saved PROVE Found(x)'
    OBVIOUS
  <2>1. PICK d \in ds : x \in buf[w][d].text /\ auto'[d] = {buf[w][d].text}
    BY <1>6
  <2>2. Content(auto'[d]) = buf[w][d].text /\ d \in Docs
    BY <2>1, ContentOf DEF IInv, Types, BufferOK
  <2> QED
    BY <2>1, <2>2, <1>15 DEF Found
<1>19. DraftsStay
  <2> SUFFICES ASSUME NEW d \in Paths, OnOffer(d), NEW x \in Content(kept[d]) PROVE Found(x)'
    BY DEF DraftsStay
  <2>1. PICK v \in Windows : d \in Open(v) /\ buf[v][d].offer # "none"
    BY DEF OnOffer
  <2>2. CASE v = w /\ d \in ds
    BY <2>1, <2>2, <1>7 DEF Found
  <2>3. CASE v # w \/ d \notin ds
    <3>1. d \in Open(v)' /\ buf'[v][d].offer # "none"
      BY <2>1, <2>3, <1>2
    <3>2. OnOffer(d)'
      BY <3>1 DEF OnOffer
    <3> QED
      BY <3>2 DEF Found
  <2> QED
    BY <2>2, <2>3
<1>20. FoundInv'
  BY <1>7, <1>17, <1>18, <1>19, SameFiles, FoundFollows DEF IInv
<1> QED
  BY <1>2, <1>3, <1>5, <1>6, <1>8, <1>9, <1>10, <1>11, <1>12, <1>13, <1>14, <1>20

(* The buffers of a file another version of which is written.               *)
LEMMA GoStaleEffect ==
  ASSUME BufferOK, NEW t, buf' = GoStale(t), BufferSoFar \subseteq BufferSoFar'
  PROVE  /\ BufferOK' /\ \A v \in Windows : Open(v)' = Open(v)
         /\ \A v \in Windows : \A e \in Open(v) :
              LET b == buf[v][e]
                  c == buf'[v][e]
              IN  /\ c.text = b.text /\ c.needs = b.needs /\ c.offer = b.offer /\ c.typed = b.typed
                  /\ c.lock = b.lock /\ c.base = b.base /\ c.raced = b.raced
                  /\ c.seen = b.seen \/ (b.seen = "current" /\ c.seen = "stale")
                  /\ c.seen = "current" => e # t
<1>1. /\ DOMAIN buf' = Windows
      /\ \A v \in Windows : /\ DOMAIN buf'[v] = Open(v)
                            /\ buf'[v] = [e \in Open(v) |-> buf'[v][e]]
  BY DEF GoStale
<1>2. \A v \in Windows : \A e \in Open(v) :
        buf'[v][e] = IF e = t /\ buf[v][e].seen = "current" THEN [buf[v][e] EXCEPT !.seen = "stale"]
                     ELSE buf[v][e]
  BY DEF GoStale
<1>3. ASSUME NEW v \in Windows, NEW e \in Open(v)
      PROVE  LET b == buf[v][e]
                 c == buf'[v][e]
             IN  /\ c \in BufferSoFar
                 /\ c.text = b.text /\ c.needs = b.needs /\ c.offer = b.offer /\ c.typed = b.typed
                 /\ c.lock = b.lock /\ c.base = b.base /\ c.raced = b.raced
                 /\ c.seen = b.seen \/ (b.seen = "current" /\ c.seen = "stale")
                 /\ c.seen = "current" => e # t
  <2>1. buf[v][e] \in BufferSoFar
    BY DEF BufferOK
  <2>2. CASE e = t /\ buf[v][e].seen = "current"
    <3>1. buf'[v][e] = [buf[v][e] EXCEPT !.seen = "stale"]
      BY <1>2, <2>2
    <3> QED
      BY <2>1, <2>2, <3>1 DEF BufferSoFar
  <2>3. CASE ~(e = t /\ buf[v][e].seen = "current")
    BY <1>2, <2>1, <2>3
  <2> QED
    BY <2>2, <2>3
<1>4. \A v \in Windows : Open(v)' = Open(v)
  BY <1>1 DEF Open
<1>5. \A v \in Windows : buf'[v] \in [Open(v) -> BufferSoFar'] /\ Open(v) \subseteq Docs
  BY <1>1, <1>3 DEF BufferOK
<1>6. BufferOK'
  BY <1>1, <1>4, <1>5 DEF BufferOK
<1> QED
  BY <1>3, <1>4, <1>6

(* A step that changes no text, no draft on offer and no lock of a buffer,  *)
(* nor which documents are open.                                            *)
SameBuffers ==
  \A v \in Windows :
    /\ Open(v)' = Open(v)
    /\ \A e \in Open(v) :
         LET b == buf[v][e]
             c == buf'[v][e]
         IN  /\ c.text = b.text /\ c.needs = b.needs /\ c.offer = b.offer
             /\ c.typed = b.typed /\ c.lock = b.lock

LEMMA SameBuffersKeep ==
  ASSUME IInv, SameBuffers
  PROVE  /\ LockInv'
         /\ UNCHANGED <<shared, auto, kept>> => OfferInv'
         /\ \A d \in Docs : OnOffer(d) => OnOffer(d)'
         /\ session \subseteq session' => \A d \in Docs : Listed(d) => Listed(d)'
<1>1. LockInv'
  <2>1. ASSUME NEW v \in Windows, NEW e \in Open(v)' \intersect Paths, buf'[v][e].typed
        PROVE  buf'[v][e].lock
    BY <2>1 DEF IInv, LockInv, SameBuffers
  <2>2. ASSUME NEW u \in Windows, NEW v \in Windows, u # v, NEW e \in Open(u)' \intersect Open(v)'
        PROVE  ~(buf'[u][e].lock /\ buf'[v][e].lock)
    BY <2>2 DEF IInv, LockInv, SameBuffers
  <2> QED
    BY <2>1, <2>2 DEF LockInv
<1>2. UNCHANGED <<shared, auto, kept>> => OfferInv'
  BY DEF IInv, OfferInv, SameBuffers
<1>3. \A d \in Docs : OnOffer(d) => OnOffer(d)'
  BY DEF OnOffer, SameBuffers
<1>4. session \subseteq session' => \A d \in Docs : Listed(d) => Listed(d)'
  BY DEF Listed, SameBuffers
<1> QED
  BY <1>1, <1>2, <1>3, <1>4

-----------------------------------------------------------------------------
(* The actions.                                                             *)

(* The edit is new: no stored text has it yet.                              *)
LEMMA TypeStep ==
  ASSUME IInv, NEW w \in Windows, NEW d \in Docs, Type(w, d)
  PROVE  IInv'
<1>1. UNCHANGED <<file, auto, newer, kept, backups, session, owner, running, at, budget, saved,
   dropped, missed, shared>>
  BY DEF Type, disk, counters, history
<1>2. /\ SessionOK' /\ RunningOK' /\ AtOK' /\ BackedInv'
  BY <1>1, Unchanged
<1>3. w \in running /\ at[w] = Idle /\ d \in Open(w) /\ buf[w][d] \in BufferSoFar
  BY DEF Type, Free, IInv, Types, BufferOK
<1>4. edits' = edits + 1 /\ edits' \in 0..EditLimit /\ edits' \in 1..edits'
  BY BoundsAssumption DEF Type, IInv, Types, CountersOK
<1>5. Written \subseteq Written' /\ Stored \subseteq Stored' /\ BufferSoFar \subseteq
   BufferSoFar'
  BY <1>4, Grows DEF IInv, Types, CountersOK
<1>6. PICK b \in BufferSoFar' :
      /\ SetBuffer(w, d, b)
      /\ b.text = buf[w][d].text \union {edits'}
      /\ b.seen = buf[w][d].seen /\ b.base = buf[w][d].base /\ b.raced = buf[w][d].raced
      /\ b.offer = buf[w][d].offer /\ b.typed
      /\ (b.lock => d \in Paths) /\ (d \in Paths => b.lock)
  <2> DEFINE l == d \in Paths
  <2> DEFINE b == [buf[w][d] EXCEPT !.text = @ \union {edits'}, !.dirty = TRUE, !.needs = TRUE,
                                   !.typed = TRUE, !.lock = l]
  <2>1. buf[w][d].text \union {edits'} \in Written'
    BY <1>3, <1>4, <1>5 DEF BufferSoFar, Written
  <2>2. SetBuffer(w, d, b)
    BY DEF Type
  <2>3. l \in BOOLEAN /\ l = (d \in Paths)
    OBVIOUS
  <2> HIDE DEF l
  <2>4. b \in BufferSoFar'
    BY <2>1, <2>3, <1>3, <1>5 DEF BufferSoFar
  <2> QED
    BY <2>2, <2>3, <2>4, <1>3 DEF BufferSoFar
<1>7. /\ \A v \in Windows : Open(v)' = Open(v)
      /\ buf'[w][d] = b
      /\ \A e \in Open(w) \ {d} : buf'[w][e] = buf[w][e]
      /\ \A v \in Windows \ {w} : buf'[v] = buf[v]
  BY <1>6, <1>3, BufferChanges DEF IInv, Types
<1>8. BufferOK' /\ CountersOK'
  BY <1>6, <1>3, <1>4, <1>1, <1>5, OneBuffer DEF IInv, Types, CountersOK
<1>9. FileOK' /\ AutoOK' /\ KeptOK' /\ BackupsOK' /\ HistoryOK'
  BY <1>1, <1>5 DEF IInv, Types, FileOK, AutoOK, KeptOK, BackupsOK, HistoryOK
<1>10. IdleInv' /\ OwnerInv' /\ SharedInv'
  BY <1>7, <1>1, SameOpen
<1>11. AtInv'
  BY <1>7, <1>1, <1>3 DEF IInv, AtInv, Idle
<1>12. AutoInv'
  BY <1>7, <1>1, <1>3, <1>6 DEF IInv, AutoInv, Loading
<1>13. OfferInv'
  <2>1. buf[w][d].offer # "pending"
    BY DEF Type
  <2> QED
    BY <2>1, <1>7, <1>1, <1>3, <1>6 DEF IInv, OfferInv
<1>14. WrittenInv'
  BY <1>7, <1>1, <1>3, <1>6 DEF IInv, WrittenInv, Idle
<1>15. LockInv'
  <2>1. \A v \in Windows \ {w} : d \in Paths /\ d \in Open(v) => ~buf[v][d].lock
    BY DEF Type, CanLock
  <2>2. \A v \in Windows : \A e \in Open(v)' \intersect Paths : buf'[v][e].typed => buf'[v][e].lock
    BY <1>7, <1>3, <1>6 DEF IInv, LockInv
  <2>3. \A v \in Windows \ {w} : \A e \in Open(v)' \intersect Open(w)' : ~(buf'[v][e].lock
          /\ buf'[w][e].lock)
    BY <2>1, <1>7, <1>3, <1>6 DEF IInv, LockInv
  <2> QED
    BY <2>2, <2>3, <1>7, <1>3 DEF IInv, LockInv
<1>16. SeenInv'
  BY <1>7, <1>1, <1>3, <1>6 DEF IInv, SeenInv
<1>17. \A e \in Docs : (Listed(e) => Listed(e)') /\ (OnOffer(e) => OnOffer(e)')
  BY <1>7, <1>1, <1>6, <1>3, ListedStays, OfferStays DEF IInv, Types
<1>18. FoundInv'
  BY <1>1, <1>17, SameFiles, SameAutos, SameDrafts, FoundFollows DEF IInv, Docs
<1> QED
  BY <1>2, <1>8, <1>9, <1>10, <1>11, <1>12, <1>13, <1>14, <1>15, <1>16, <1>18 DEF IInv, Types

(* The draft moves into the buffer; its autosave is gone already (OfferInv). *)
LEMMA OpenRecoveryStep ==
  ASSUME IInv, NEW w \in Windows, NEW d \in Docs, OpenRecovery(w, d)
  PROVE  IInv'
<1>1. UNCHANGED <<file, auto, newer, kept, backups, session, owner, running, at, edits, budget,
   saved, dropped, missed, shared>>
  BY DEF OpenRecovery, disk, counters, history
<1>2. /\ FileOK' /\ AutoOK' /\ KeptOK' /\ BackupsOK' /\ SessionOK' /\ RunningOK'
      /\ AtOK' /\ CountersOK' /\ HistoryOK' /\ BackedInv'
  BY <1>1, Unchanged
<1>3. w \in running /\ at[w] = Idle /\ d \in Open(w) /\ buf[w][d] \in BufferSoFar
  BY DEF OpenRecovery, Free, IInv, Types, BufferOK
<1>4. BufferSoFar' = BufferSoFar
  BY <1>1 DEF BufferSoFar, Written
<1>5. d \in Paths /\ kept[d] \in Stored /\ (~shared => auto[d] = {})
  BY <1>3 DEF OpenRecovery, IInv, Types, KeptOK, OfferInv
<1>6. PICK b \in BufferSoFar' :
      /\ SetBuffer(w, d, b)
      /\ b.text = Content(kept[d]) /\ b.offer = "opened"
      /\ b.seen = buf[w][d].seen /\ b.base = buf[w][d].base /\ b.raced = buf[w][d].raced
      /\ b.typed = buf[w][d].typed /\ b.lock = buf[w][d].lock
  <2> DEFINE b == [buf[w][d] EXCEPT !.text = Content(kept[d]), !.dirty = TRUE, !.needs = FALSE,
                                   !.offer = "opened"]
  <2>1. SetBuffer(w, d, b)
    BY DEF OpenRecovery
  <2>2. Content(kept[d]) \in Written
    BY <1>5, StoredContent
  <2>3. b \in BufferSoFar
    BY <1>3, <2>2 DEF BufferSoFar
  <2> QED
    BY <2>1, <2>3, <1>3, <1>4 DEF BufferSoFar
<1>7. /\ \A v \in Windows : Open(v)' = Open(v)
      /\ buf'[w][d] = b
      /\ \A e \in Open(w) \ {d} : buf'[w][e] = buf[w][e]
      /\ \A v \in Windows \ {w} : buf'[v] = buf[v]
  BY <1>6, <1>3, BufferChanges DEF IInv, Types
<1>8. BufferOK'
  BY <1>6, <1>3, <1>1, <1>4, OneBuffer DEF IInv, Types
<1>9. IdleInv' /\ OwnerInv' /\ SharedInv'
  BY <1>7, <1>1, SameOpen
<1>10. AtInv'
  BY <1>7, <1>1, <1>3 DEF IInv, AtInv, Idle
<1>11. AutoInv'
  BY <1>7, <1>1, <1>3, <1>5, ContentOf DEF IInv, AutoInv, Loading
<1>12. OfferInv'
  BY <1>7, <1>1, <1>3, <1>6, <1>5 DEF IInv, OfferInv
<1>13. WrittenInv'
  BY <1>7, <1>1, <1>3, <1>6 DEF IInv, WrittenInv, Idle
<1>14. LockInv'
  BY <1>7, <1>1, <1>3, <1>6 DEF IInv, LockInv
<1>15. SeenInv'
  BY <1>7, <1>1, <1>3, <1>6 DEF IInv, SeenInv
<1>16. \A e \in Docs : (Listed(e) => Listed(e)') /\ (OnOffer(e) => OnOffer(e)')
  BY <1>7, <1>1, <1>6, <1>3, ListedStays, OfferStays DEF IInv, Types
<1>17. FoundInv'
  BY <1>1, <1>16, SameFiles, SameAutos, SameDrafts, FoundFollows DEF IInv, Docs
<1> QED
  BY <1>2, <1>8, <1>9, <1>10, <1>11, <1>12, <1>13, <1>14, <1>15, <1>17 DEF IInv, Types

(* What the user discards is in dropped.                                    *)
LEMMA DiscardRecoveryStep ==
  ASSUME IInv, NEW w \in Windows, NEW d \in Docs, DiscardRecovery(w, d)
  PROVE  IInv'
<1>1. UNCHANGED <<file, newer, backups, session, owner, running, at, edits, budget, saved,
   missed, shared>>
  BY DEF DiscardRecovery, disk, counters, history
<1>2. /\ FileOK' /\ BackupsOK' /\ SessionOK' /\ RunningOK' /\ AtOK' /\ CountersOK'
      /\ BackedInv'
  BY <1>1, Unchanged
<1>3. w \in running /\ at[w] = Idle /\ d \in Open(w) /\ buf[w][d] \in BufferSoFar
  BY DEF DiscardRecovery, Free, IInv, Types, BufferOK
<1>4. BufferSoFar' = BufferSoFar
  BY <1>1 DEF BufferSoFar, Written
<1>5. d \in Paths /\ kept[d] \in Stored /\ auto[d] \in Stored
  BY <1>3 DEF DiscardRecovery, IInv, Types, KeptOK, AutoOK, OfferInv, Docs
<1>6. /\ kept' = [kept EXCEPT ![d] = {}] /\ auto' = [auto EXCEPT ![d] = {}]
      /\ dropped' = dropped \union Content(kept[d]) \union Content(auto[d])
      /\ kept'[d] = {} /\ auto'[d] = {}
      /\ \A e \in Paths \ {d} : kept'[e] = kept[e]
      /\ \A e \in Docs \ {d} : auto'[e] = auto[e]
  BY <1>5 DEF DiscardRecovery, IInv, Types, KeptOK, AutoOK, Docs
<1>7. PICK b \in BufferSoFar' :
      /\ SetBuffer(w, d, b)
      /\ b.text = buf[w][d].text /\ b.offer = "none"
      /\ b.seen = buf[w][d].seen /\ b.base = buf[w][d].base /\ b.raced = buf[w][d].raced
      /\ b.typed = buf[w][d].typed /\ b.lock = buf[w][d].lock
  <2> DEFINE b == [buf[w][d] EXCEPT !.offer = "none"]
  <2>1. SetBuffer(w, d, b)
    BY DEF DiscardRecovery
  <2>2. b \in BufferSoFar'
    BY <1>3, <1>4 DEF BufferSoFar
  <2> QED
    BY <2>1, <2>2, <1>3 DEF BufferSoFar
<1>8. /\ \A v \in Windows : Open(v)' = Open(v)
      /\ buf'[w][d] = b
      /\ \A e \in Open(w) \ {d} : buf'[w][e] = buf[w][e]
      /\ \A v \in Windows \ {w} : buf'[v] = buf[v]
  BY <1>7, <1>3, BufferChanges DEF IInv, Types
<1>9. BufferOK'
  BY <1>7, <1>3, <1>1, <1>4, OneBuffer DEF IInv, Types
<1>10. KeptOK' /\ AutoOK' /\ HistoryOK'
  <2>1. {} \in Stored' /\ Stored' = Stored /\ Written' = Written
    BY <1>1 DEF Stored, Written
  <2>2. KeptOK' /\ AutoOK'
    BY <2>1, <1>6, <1>1 DEF IInv, Types, KeptOK, AutoOK
  <2>3. dropped' \in Written'
    BY <2>1, <1>6, <1>5, StoredContent DEF IInv, Types, HistoryOK, Written
  <2> QED
    BY <2>1, <2>2, <2>3, <1>1 DEF IInv, Types, HistoryOK
<1>11. IdleInv' /\ OwnerInv' /\ SharedInv'
  BY <1>8, <1>1, SameOpen
<1>12. AtInv'
  BY <1>8, <1>1, <1>3 DEF IInv, AtInv, Idle
<1>13. AutoInv'
  BY <1>8, <1>1, <1>3, <1>7, <1>6, ContentOf DEF IInv, AutoInv, Loading, Types, BufferOK
<1>14. OfferInv'
  BY <1>8, <1>1, <1>3, <1>7, <1>6, ContentOf DEF IInv, OfferInv, Types, BufferOK, Docs
<1>15. WrittenInv'
  BY <1>8, <1>1, <1>3, <1>7, <1>6 DEF IInv, WrittenInv, Idle
<1>16. LockInv'
  BY <1>8, <1>1, <1>3, <1>7 DEF IInv, LockInv
<1>17. SeenInv'
  BY <1>8, <1>1, <1>3, <1>7 DEF IInv, SeenInv
<1>18. \A e \in Docs : (Listed(e) => Listed(e)') /\ (e # d /\ OnOffer(e) => OnOffer(e)')
  BY <1>8, <1>1, <1>7, <1>3 DEF Listed, OnOffer
<1>19. AutosStay
  BY <1>18, <1>6 DEF AutosStay, Found
<1>20. DraftsStay
  BY <1>18, <1>6 DEF DraftsStay, Found, Docs
<1>21. FoundInv'
  BY <1>1, <1>6, <1>19, <1>20, SameFiles, FoundFollows DEF IInv
<1> QED
  BY <1>2, <1>9, <1>10, <1>11, <1>12, <1>13, <1>14, <1>15, <1>16, <1>17, <1>21 DEF IInv, Types

(* The autosave that is replaced had nothing the buffer lacks (AutoInv).    *)
LEMMA AutosaveStep ==
  ASSUME IInv, NEW w \in Windows, NEW d \in Docs, Autosave(w, d)
  PROVE  IInv'
<1>1. UNCHANGED <<file, kept, backups, session, owner, running, edits, budget, dropped, missed,
   shared>>
  BY DEF Autosave, disk, counters, history
<1>2. /\ FileOK' /\ KeptOK' /\ BackupsOK' /\ SessionOK' /\ RunningOK' /\ CountersOK'
  BY <1>1, Unchanged
<1>3. w \in running /\ at[w] = Idle /\ d \in Open(w) /\ buf[w][d] \in BufferSoFar
  BY DEF Autosave, Free, IInv, Types, BufferOK
<1>4. BufferSoFar' = BufferSoFar
  BY <1>1 DEF BufferSoFar, Written
<1>5. /\ auto' = [auto EXCEPT ![d] = {buf[w][d].text}] /\ newer' = [newer EXCEPT ![d] = TRUE]
      /\ saved' = saved \union buf[w][d].text
  <2>1. {e \in {d} : buf[w][e].needs} = {d}
    BY DEF Autosave
  <2>2. /\ auto' = [e \in Docs |-> IF e \in {d} THEN {buf[w][e].text} ELSE auto[e]]
        /\ newer' = [e \in Docs |-> e \in {d} \/ newer[e]]
        /\ saved' = saved \union UNION {buf[w][e].text : e \in {d}}
    BY <2>1 DEF Autosave, WriteAutosaves
  <2>3. auto' = [auto EXCEPT ![d] = {buf[w][d].text}]
    BY <2>2 DEF IInv, Types, AutoOK
  <2>4. newer' = [newer EXCEPT ![d] = TRUE]
    BY <2>2, Zenon DEF IInv, Types, AutoOK
  <2>5. UNION {buf[w][e].text : e \in {d}} = buf[w][d].text
    OBVIOUS
  <2> QED
    BY <2>2, <2>3, <2>4, <2>5
<1>6. /\ auto'[d] = {buf[w][d].text} /\ Content(auto'[d]) = buf[w][d].text
      /\ \A e \in Docs \ {d} : auto'[e] = auto[e]
  BY <1>5, ContentOf DEF IInv, Types, AutoOK
<1>7. buf[w][d].needs /\ buf[w][d].offer # "pending"
  BY <1>3 DEF Autosave, IInv, OfferInv
<1>8. PICK b \in BufferSoFar' :
      /\ SetBuffer(w, d, b)
      /\ b.text = buf[w][d].text /\ b.offer = buf[w][d].offer /\ ~b.needs
      /\ b.seen = buf[w][d].seen /\ b.base = buf[w][d].base /\ b.raced = buf[w][d].raced
      /\ b.typed = buf[w][d].typed /\ b.lock = buf[w][d].lock
  <2> DEFINE b == [buf[w][d] EXCEPT !.needs = FALSE]
  <2>1. SetBuffer(w, d, b)
    BY DEF Autosave
  <2>2. b \in BufferSoFar'
    BY <1>3, <1>4 DEF BufferSoFar
  <2> QED
    BY <2>1, <2>2, <1>3 DEF BufferSoFar
<1>9. /\ \A v \in Windows : Open(v)' = Open(v)
      /\ buf'[w][d] = b
      /\ \A e \in Open(w) \ {d} : buf'[w][e] = buf[w][e]
      /\ \A v \in Windows \ {w} : buf'[v] = buf[v]
  BY <1>8, <1>3, BufferChanges DEF IInv, Types
<1>10. BufferOK'
  BY <1>8, <1>3, <1>1, <1>4, OneBuffer DEF IInv, Types
<1>11. /\ at' = [at EXCEPT ![w] = [op |-> "noting", doc |-> d, to |-> d, over |-> FALSE]]
       /\ at'[w].op = "noting" /\ at'[w].doc = d /\ \A v \in Windows \ {w} : at'[v] = at[v]
  BY DEF Autosave, Enter, IInv, Types, AtOK
<1>12. AutoOK' /\ HistoryOK' /\ AtOK'
  <2>1. Stored' = Stored /\ Written' = Written
    BY <1>1 DEF Stored, Written
  <2>2. buf[w][d].text \in Written
    BY <1>3 DEF BufferSoFar
  <2>3. {buf[w][d].text} \in Stored
    BY <2>2 DEF Stored
  <2>4. AutoOK'
    BY <2>1, <2>3, <1>5 DEF IInv, Types, AutoOK
  <2>5. HistoryOK'
    BY <2>1, <2>2, <1>5, <1>1 DEF IInv, Types, HistoryOK, Written
  <2>6. AtOK'
    BY <1>11 DEF IInv, Types, AtOK, Handlers
  <2> QED
    BY <2>4, <2>5, <2>6
<1>13. IdleInv'
  BY <1>9, <1>1, <1>3, <1>11 DEF IInv, IdleInv
<1>14. OwnerInv' /\ SharedInv'
  BY <1>9, <1>1, SameOpen
<1>15. AtInv'
  BY <1>9, <1>1, <1>3, <1>11 DEF IInv, AtInv, Idle
<1>16. AutoInv'
  <2> SUFFICES ASSUME ~shared, NEW v \in Windows, NEW e \in Open(v), ~Loading(v, e)'
               PROVE  Content(auto'[e]) \subseteq buf'[v][e].text \union missed
    BY <1>9, <1>1 DEF AutoInv
  <2>1. CASE v = w /\ e = d
    BY <2>1, <1>9, <1>8, <1>6
  <2>2. CASE v = w /\ e # d
    BY <2>2, <1>9, <1>6, <1>3 DEF IInv, AutoInv, Loading, Idle, Types, BufferOK
  <2>3. CASE v # w
    <3>1. e # d
      BY <2>3, <1>3 DEF IInv, SharedInv
    <3> QED
      BY <2>3, <3>1, <1>9, <1>6, <1>11 DEF IInv, AutoInv, Loading, Types, BufferOK
  <2> QED
    BY <2>1, <2>2, <2>3
<1>17. OfferInv'
  BY <1>9, <1>1, <1>3, <1>8, <1>6, <1>7 DEF IInv, OfferInv, Types, BufferOK, Docs, SharedInv
<1>18. BackedInv'
  BY <1>9, <1>1, <1>11 DEF IInv, BackedInv
<1>19. WrittenInv'
  BY <1>9, <1>1, <1>3, <1>8, <1>11 DEF IInv, WrittenInv
<1>20. LockInv'
  BY <1>9, <1>1, <1>3, <1>8 DEF IInv, LockInv
<1>21. SeenInv'
  BY <1>9, <1>1, <1>3, <1>8 DEF IInv, SeenInv
<1>22. \A e \in Docs : (Listed(e) => Listed(e)') /\ (OnOffer(e) => OnOffer(e)')
  BY <1>9, <1>1, <1>8, <1>3, ListedStays, OfferStays DEF IInv, Types
<1>23. Listed(d)' /\ \A x \in buf[w][d].text : Found(x)'
  BY <1>9, <1>3, <1>6 DEF Listed, Found
<1>24. ~shared => AutosStay
  <2>1. ASSUME ~shared PROVE Content(auto[d]) \subseteq buf[w][d].text \union missed
    BY <2>1, <1>3 DEF IInv, AutoInv, Loading, Idle
  <2> QED
    BY <2>1, <1>23, <1>6, <1>22, <1>1 DEF AutosStay, Found
<1>25. FoundInv'
  BY <1>1, <1>5, <1>22, <1>23, <1>24, SameFiles, SameDrafts, FoundFollows DEF IInv, Docs
<1> QED
  BY <1>2, <1>10, <1>12, <1>13, <1>14, <1>15, <1>16, <1>17, <1>18, <1>19, <1>20, <1>21, <1>25 DEF
     IInv, Types

(* The backup takes in the file before the write begins.                    *)
LEMMA BeginSaveStep ==
  ASSUME IInv, NEW w \in Windows, NEW d \in Docs, NEW t \in Paths, NEW over \in BOOLEAN,
           BeginSave(w, d, t, over)
  PROVE  IInv'
<1>1. UNCHANGED <<file, auto, newer, kept, session, owner, running, edits, budget, saved,
   dropped, missed, shared>>
  BY DEF BeginSave, disk, counters, history
<1>2. /\ FileOK' /\ AutoOK' /\ KeptOK' /\ SessionOK' /\ RunningOK' /\ CountersOK'
      /\ HistoryOK'
  BY <1>1, Unchanged
<1>3. w \in running /\ at[w] = Idle /\ d \in Open(w) /\ buf[w][d] \in BufferSoFar
  BY DEF BeginSave, Asks, Free, IInv, Types, BufferOK
<1>4. BufferSoFar' = BufferSoFar
  BY <1>1 DEF BufferSoFar, Written
<1>5. PICK b \in BufferSoFar' :
      /\ SetBuffer(w, d, b)
      /\ b.text = buf[w][d].text /\ b.offer = buf[w][d].offer /\ b.needs = buf[w][d].needs
      /\ b.seen = buf[w][d].seen /\ b.base = buf[w][d].base /\ b.raced = buf[w][d].raced
      /\ b.typed = buf[w][d].typed /\ (buf[w][d].lock => b.lock)
      /\ (b.lock /\ ~buf[w][d].lock => d \in Paths /\ CanLock(w, d))
  <2> DEFINE l == buf[w][d].lock \/ (t = d /\ buf[w][d].dirty)
  <2> DEFINE b == [buf[w][d] EXCEPT !.lock = l]
  <2>1. SetBuffer(w, d, b)
    BY DEF BeginSave
  <2>2. l \in BOOLEAN /\ (buf[w][d].lock => l) /\ (l /\ ~buf[w][d].lock => d \in Paths
          /\ CanLock(w, d))
    BY Zenon DEF BeginSave, MaySave
  <2> HIDE DEF l
  <2>3. b \in BufferSoFar
    BY <2>2, <1>3 DEF BufferSoFar
  <2>4. b.lock = l
    BY <1>3 DEF BufferSoFar
  <2> QED
    BY <2>1, <2>2, <2>3, <2>4, <1>3, <1>4 DEF BufferSoFar
<1>6. /\ \A v \in Windows : Open(v)' = Open(v)
      /\ buf'[w][d] = b
      /\ \A e \in Open(w) \ {d} : buf'[w][e] = buf[w][e]
      /\ \A v \in Windows \ {w} : buf'[v] = buf[v]
  BY <1>5, <1>3, BufferChanges DEF IInv, Types
<1>7. BufferOK'
  BY <1>5, <1>3, <1>1, <1>4, OneBuffer DEF IInv, Types
<1>8. /\ at' = [at EXCEPT ![w] = [op |-> "backed", doc |-> d, to |-> t, over |-> over]]
      /\ at'[w].op = "backed" /\ at'[w].doc = d /\ at'[w].to = t
      /\ \A v \in Windows \ {w} : at'[v] = at[v]
  BY DEF BeginSave, Enter, IInv, Types, AtOK
<1>9. /\ backups' = [backups EXCEPT ![t] = @ \union file[t]]
      /\ backups'[t] = backups[t] \union file[t] /\ \A e \in Paths \ {t} : backups'[e] = backups[e]
      /\ \A e \in Paths : Content(backups[e]) \subseteq Content(backups'[e])
      /\ Content(file[t]) \subseteq Content(backups'[t])
  <2>1. /\ backups' = [backups EXCEPT ![t] = @ \union file[t]]
        /\ backups'[t] = backups[t] \union file[t] /\ \A e \in Paths \ {t} : backups'[e] =
             backups[e]
    BY DEF BeginSave, IInv, Types, BackupsOK
  <2>2. Content(backups'[t]) = Content(backups[t]) \union Content(file[t])
    BY <2>1, ContentOf
  <2> QED
    BY <2>1, <2>2
<1>10. BackupsOK' /\ AtOK'
  <2>1. Stored \subseteq SUBSET Written /\ Written' = Written
    BY <1>1 DEF Stored, Written
  <2>2. BackupsOK'
    BY <2>1, <1>9 DEF IInv, Types, FileOK, BackupsOK
  <2>3. AtOK'
    BY <1>8 DEF IInv, Types, AtOK, Handlers, Docs
  <2> QED
    BY <2>2, <2>3
<1>11. IdleInv'
  BY <1>6, <1>1, <1>3, <1>8 DEF IInv, IdleInv
<1>12. OwnerInv' /\ SharedInv'
  BY <1>6, <1>1, SameOpen
<1>13. AtInv'
  BY <1>6, <1>1, <1>3, <1>5, <1>8 DEF IInv, AtInv
<1>14. AutoInv'
  BY <1>6, <1>1, <1>3, <1>5, <1>8 DEF IInv, AutoInv, Loading, Types, BufferOK, Idle
<1>15. OfferInv'
  BY <1>6, <1>1, <1>3, <1>5 DEF IInv, OfferInv, Types, BufferOK, Docs
<1>16. BackedInv'
  <2> SUFFICES ASSUME NEW v \in Windows, at'[v].op = "backed"
               PROVE  Content(file[at'[v].to]) \subseteq Content(backups'[at'[v].to]) \union missed
    BY <1>1 DEF BackedInv
  <2>1. CASE v = w
    BY <2>1, <1>9, <1>8
  <2>2. CASE v # w
    BY <2>2, <1>9, <1>8 DEF IInv, BackedInv, AtInv
  <2> QED
    BY <2>1, <2>2
<1>17. WrittenInv'
  <2> SUFFICES ASSUME NEW v \in Windows, at'[v].op = "written"
               PROVE  buf'[v][at'[v].doc].text \subseteq Content(file[at'[v].to])
                        \union Content(backups'[at'[v].to]) \union dropped \union missed
    BY <1>1 DEF WrittenInv
  <2>1. v # w /\ at'[v] = at[v] /\ buf'[v] = buf[v] /\ at[v].to \in Paths
    BY <1>6, <1>8 DEF IInv, AtInv
  <2> QED
    BY <2>1, <1>9 DEF IInv, WrittenInv
<1>18. LockInv'
  <2>1. \A v \in Windows \ {w} : d \in Open(v) => ~(b.lock /\ buf[v][d].lock)
    BY <1>5, <1>3 DEF CanLock, IInv, LockInv
  <2>2. \A v \in Windows : \A e \in Open(v)' \intersect Paths : buf'[v][e].typed => buf'[v][e].lock
    BY <1>6, <1>3, <1>5 DEF IInv, LockInv
  <2>3. \A v \in Windows \ {w} : \A e \in Open(v)' \intersect Open(w)' : ~(buf'[v][e].lock
          /\ buf'[w][e].lock)
    BY <2>1, <1>6, <1>3, <1>5 DEF IInv, LockInv
  <2> QED
    BY <2>2, <2>3, <1>6, <1>3 DEF IInv, LockInv
<1>19. SeenInv'
  BY <1>6, <1>1, <1>3, <1>5 DEF IInv, SeenInv
<1>20. \A e \in Docs : (Listed(e) => Listed(e)') /\ (OnOffer(e) => OnOffer(e)')
  BY <1>6, <1>1, <1>5, <1>3, ListedStays, OfferStays DEF IInv, Types
<1>21. FilesStay
  BY <1>1, <1>9 DEF FilesStay, Found
<1>22. FoundInv'
  BY <1>1, <1>20, <1>21, SameAutos, SameDrafts, FoundFollows DEF IInv, Docs
<1> QED
  BY <1>2, <1>7, <1>10, <1>11, <1>12, <1>13, <1>14, <1>15, <1>16, <1>17, <1>18, <1>19, <1>22 DEF
     IInv, Types

(* The owner lists what it has open; nothing it listed before is left out.  *)
LEMMA NoteSessionStep ==
  ASSUME IInv, NEW w \in Windows, NoteSession(w)
  PROVE  IInv'
<1>1. UNCHANGED <<file, auto, newer, kept, backups, owner, running, buf, edits, budget, saved,
   dropped, missed, shared>>
  BY DEF NoteSession, disk, counters, history
<1>2. /\ FileOK' /\ AutoOK' /\ KeptOK' /\ BackupsOK' /\ RunningOK' /\ BufferOK'
      /\ CountersOK' /\ HistoryOK' /\ SharedInv' /\ OfferInv' /\ LockInv' /\ SeenInv'
  BY <1>1, Unchanged
<1>3. at[w].op = "noting" /\ w \in running
  BY DEF NoteSession, IInv, IdleInv, Idle, Types, RunningOK
<1>4. at' = [at EXCEPT ![w] = Idle] /\ at'[w] = Idle /\ \A v \in Windows \ {w} : at'[v] = at[v]
  BY DEF NoteSession, IInv, Types, AtOK
<1>5. \A v \in Windows : Open(v)' = Open(v)
  BY <1>1 DEF Open
<1>6. SessionOK' /\ OwnerInv' /\ session \subseteq session'
  <2>1. SaveSession(w, Open(w)) /\ Open(w) \in SUBSET Docs
    BY DEF NoteSession, IInv, Types, BufferOK
  <2> QED
    BY <2>1, <1>5, <1>1, SessionSaved
<1>7. AtOK'
  BY <1>4 DEF IInv, Types, AtOK, Handlers, Idle
<1>8. IdleInv'
  BY <1>5, <1>1, <1>3, <1>4 DEF IInv, IdleInv
<1>9. AtInv'
  BY <1>5, <1>1, <1>3, <1>4 DEF IInv, AtInv, Idle
<1>10. AutoInv'
  BY <1>5, <1>1, <1>3, <1>4 DEF IInv, AutoInv, Loading, Idle
<1>11. BackedInv'
  BY <1>1, <1>4 DEF IInv, BackedInv, Idle
<1>12. WrittenInv'
  BY <1>1, <1>4 DEF IInv, WrittenInv, Idle
<1>13. \A e \in Docs : (Listed(e) => Listed(e)') /\ (OnOffer(e) => OnOffer(e)')
  BY <1>5, <1>1, <1>6, ListedStays DEF OnOffer
<1>14. FoundInv'
  BY <1>1, <1>13, SameFiles, SameAutos, SameDrafts, FoundFollows DEF IInv, Docs
<1> QED
  BY <1>2, <1>6, <1>7, <1>8, <1>9, <1>10, <1>11, <1>12, <1>14 DEF IInv, Types

(* Only the handler ends.                                                   *)
LEMMA WriteFileFailsStep ==
  ASSUME IInv, NEW w \in Windows, WriteFileFails(w)
  PROVE  IInv'
<1>1. UNCHANGED <<file, auto, newer, kept, backups, session, owner, running, buf, edits, budget,
   saved, dropped, missed, shared>>
  BY DEF WriteFileFails, disk, counters, history
<1>2. /\ FileOK' /\ AutoOK' /\ KeptOK' /\ BackupsOK' /\ SessionOK' /\ RunningOK'
      /\ BufferOK' /\ CountersOK' /\ HistoryOK' /\ OwnerInv' /\ SharedInv' /\ OfferInv'
      /\ LockInv' /\ SeenInv' /\ FoundInv'
  BY <1>1, Unchanged
<1>3. at[w].op = "backed"
  BY DEF WriteFileFails
<1>4. at' = [at EXCEPT ![w] = Idle] /\ at'[w] = Idle /\ \A v \in Windows \ {w} : at'[v] = at[v]
  BY DEF WriteFileFails, IInv, Types, AtOK
<1>5. \A v \in Windows : Open(v)' = Open(v)
  BY <1>1 DEF Open
<1>6. AtOK'
  BY <1>4 DEF IInv, Types, AtOK, Handlers, Idle
<1>7. IdleInv'
  BY <1>5, <1>1, <1>3, <1>4 DEF IInv, IdleInv
<1>8. AtInv'
  BY <1>5, <1>1, <1>3, <1>4 DEF IInv, AtInv, Idle
<1>9. AutoInv'
  BY <1>5, <1>1, <1>3, <1>4 DEF IInv, AutoInv, Loading, Idle
<1>10. BackedInv'
  BY <1>1, <1>4 DEF IInv, BackedInv, Idle
<1>11. WrittenInv'
  BY <1>1, <1>4 DEF IInv, WrittenInv, Idle
<1> QED
  BY <1>2, <1>6, <1>7, <1>8, <1>9, <1>10, <1>11 DEF IInv, Types

(* A draft nobody has, without an autosave.                                 *)
LEMMA NewDraftStep ==
  ASSUME IInv, NEW w \in Windows, NEW d \in Docs, NewDraft(w, d)
  PROVE  IInv'
<1>1. UNCHANGED <<file, auto, newer, kept, backups, owner, running, at, edits, budget, saved,
   dropped, missed, shared>>
  BY DEF NewDraft, disk, counters, history
<1>2. /\ FileOK' /\ AutoOK' /\ KeptOK' /\ BackupsOK' /\ RunningOK' /\ AtOK'
      /\ CountersOK' /\ HistoryOK' /\ BackedInv'
  BY <1>1, Unchanged
<1>3. /\ w \in running /\ at[w] = Idle /\ d \in Drafts /\ d \notin Paths /\ auto[d] = {}
      /\ \A v \in Windows : d \notin Open(v)
  BY NamesAssumption DEF NewDraft, Free, IInv, Types, CountersOK
<1>4. BufferSoFar' = BufferSoFar
  BY <1>1 DEF BufferSoFar, Written
<1>5. PICK b \in BufferSoFar' :
      /\ SetBuffer(w, d, b)
      /\ b.text = {} /\ b.offer = "none" /\ b.seen = "unknown"
      /\ ~b.typed /\ ~b.lock
  <2>1. SetBuffer(w, d, Blank)
    BY DEF NewDraft
  <2>2. Blank \in BufferSoFar
    BY DEF Blank, BufferSoFar, Written
  <2> QED
    BY <2>1, <2>2, <1>4 DEF Blank
<1>6. /\ Only(w) /\ Open(w)' = Open(w) \union {d}
      /\ buf'[w][d] = b
      /\ \A e \in Open(w) \ {d} : buf'[w][e] = buf[w][e]
      /\ \A v \in Windows \ {w} : buf'[v] = buf[v] /\ Open(v)' = Open(v)
  BY <1>5, SetBufferEffect DEF IInv, Types, Open, Only
<1>7. BufferOK'
  BY <1>5, <1>4, OneBuffer DEF IInv, Types
<1>8. SessionOK' /\ OwnerInv' /\ session \subseteq session'
  <2>1. SaveSession(w, Open(w) \union {d}) /\ Open(w) \union {d} \in SUBSET Docs
    BY DEF NewDraft, IInv, Types, BufferOK
  <2> QED
    BY <2>1, <1>6, <1>1, SessionSaved
<1>9. IdleInv'
  BY <1>6, <1>1, <1>3 DEF IInv, IdleInv
<1>10. AtInv'
  BY <1>6, <1>1, <1>3 DEF IInv, AtInv, Idle
<1>11. SharedInv'
  BY <1>6, <1>1, <1>3 DEF IInv, SharedInv
<1>12. AutoInv'
  BY <1>6, <1>1, <1>3, <1>5, ContentOf DEF IInv, AutoInv, Loading
<1>13. OfferInv'
  BY <1>6, <1>1, <1>3, <1>5 DEF IInv, OfferInv
<1>14. WrittenInv'
  BY <1>6, <1>1, <1>3 DEF IInv, WrittenInv, Idle
<1>15. LockInv'
  BY <1>6, <1>1, <1>3, <1>5 DEF IInv, LockInv
<1>16. SeenInv'
  BY <1>6, <1>1, <1>3, <1>5 DEF IInv, SeenInv
<1>17. \A e \in Docs : (Listed(e) => Listed(e)') /\ (OnOffer(e) => OnOffer(e)')
  BY <1>6, <1>3, <1>8 DEF Listed, OnOffer
<1>18. FoundInv'
  BY <1>1, <1>17, SameFiles, SameAutos, SameDrafts, FoundFollows DEF IInv, Docs
<1> QED
  BY <1>2, <1>7, <1>8, <1>9, <1>10, <1>11, <1>12, <1>13, <1>14, <1>15, <1>16, <1>18 DEF IInv,
     Types

(* The file is read; what becomes of its autosave is decided later.         *)
LEMMA VisitStep ==
  ASSUME IInv, NEW w \in Windows, NEW d \in Docs, Visit(w, d)
  PROVE  IInv'
<1>1. UNCHANGED <<file, auto, newer, kept, backups, session, owner, running, edits, budget,
   saved, dropped, missed>>
  BY DEF Visit, disk, counters, history
<1>2. /\ FileOK' /\ AutoOK' /\ KeptOK' /\ BackupsOK' /\ SessionOK' /\ RunningOK'
      /\ CountersOK'
  BY <1>1, Unchanged
<1>3. /\ w \in running /\ at[w] = Idle /\ d \in Paths \ Open(w)
  BY DEF Visit, Free
<1>4. BufferSoFar' = BufferSoFar
  BY <1>1 DEF BufferSoFar, Written
<1>5. PICK b \in BufferSoFar' :
      /\ SetBuffer(w, d, b)
      /\ b.text = Content(file[d]) /\ b.offer = "none" /\ b.seen = "unknown"
      /\ ~b.typed /\ ~b.lock
  <2> DEFINE b == [Blank EXCEPT !.text = Content(file[d])]
  <2>1. SetBuffer(w, d, b)
    BY DEF Visit
  <2>2. Content(file[d]) \in Written
    BY <1>3, StoredContent DEF IInv, Types, FileOK
  <2>3. b \in BufferSoFar
    BY <2>2 DEF Blank, BufferSoFar, Written
  <2> QED
    BY <2>1, <2>3, <1>4 DEF Blank
<1>6. /\ Only(w) /\ Open(w)' = Open(w) \union {d}
      /\ buf'[w][d] = b
      /\ \A e \in Open(w) \ {d} : buf'[w][e] = buf[w][e]
      /\ \A v \in Windows \ {w} : buf'[v] = buf[v] /\ Open(v)' = Open(v)
  BY <1>5, SetBufferEffect DEF IInv, Types, Open, Only
<1>7. BufferOK'
  BY <1>5, <1>4, OneBuffer DEF IInv, Types
<1>8. /\ at' = [at EXCEPT ![w] = [op |-> "loading", doc |-> d, to |-> d, over |-> FALSE]]
      /\ at'[w].op = "loading" /\ at'[w].doc = d
      /\ \A v \in Windows \ {w} : at'[v] = at[v]
  BY DEF Visit, Enter, IInv, Types, AtOK
<1>9. (shared => shared') /\ (~shared' => \A v \in Windows \ {w} : d \notin Open(v)) /\ shared'
   \in BOOLEAN
  BY Zenon DEF Visit, Share, Elsewhere
<1>10. AtOK' /\ HistoryOK'
  <2>1. AtOK'
    BY <1>8 DEF IInv, Types, AtOK, Handlers
  <2>2. HistoryOK'
    BY <1>1, <1>9 DEF IInv, Types, HistoryOK, Written
  <2> QED
    BY <2>1, <2>2
<1>11. IdleInv'
  BY <1>6, <1>1, <1>3, <1>8 DEF IInv, IdleInv
<1>12. OwnerInv'
  BY <1>6, <1>1 DEF IInv, OwnerInv, Types, RunningOK, Only, Open
<1>13. AtInv'
  BY <1>6, <1>1, <1>3, <1>8, <1>5 DEF IInv, AtInv
<1>14. SharedInv'
  BY <1>6, <1>1, <1>3, <1>9 DEF IInv, SharedInv
<1>15. AutoInv'
  BY <1>6, <1>1, <1>3, <1>8, <1>9 DEF IInv, AutoInv, Loading, Idle
<1>16. OfferInv'
  BY <1>6, <1>1, <1>3, <1>5, <1>9 DEF IInv, OfferInv
<1>17. BackedInv'
  BY <1>1, <1>8 DEF IInv, BackedInv
<1>18. WrittenInv'
  BY <1>6, <1>1, <1>8 DEF IInv, WrittenInv
<1>19. LockInv'
  BY <1>6, <1>1, <1>3, <1>5 DEF IInv, LockInv
<1>20. SeenInv'
  BY <1>6, <1>1, <1>3, <1>5 DEF IInv, SeenInv
<1>21. \A e \in Docs : (Listed(e) => Listed(e)') /\ (OnOffer(e) => OnOffer(e)')
  BY <1>6, <1>3, <1>1 DEF Listed, OnOffer
<1>22. FoundInv'
  BY <1>1, <1>21, <1>9, SameFiles, SameAutos, SameDrafts, FoundFollows DEF IInv, Docs
<1> QED
  BY <1>2, <1>7, <1>10, <1>11, <1>12, <1>13, <1>14, <1>15, <1>16, <1>17, <1>18, <1>19, <1>20,
     <1>22 DEF IInv, Types

(* The autosave goes to the buffer, to the drafts on offer, or to missed.   *)
LEMMA FinishLoadStep ==
  ASSUME IInv, NEW w \in Windows, FinishLoad(w)
  PROVE  IInv'
<1>1. UNCHANGED <<file, newer, backups, owner, running, edits, budget, saved, dropped, shared>>
  BY DEF FinishLoad, disk, counters, history
<1>2. /\ FileOK' /\ BackupsOK' /\ RunningOK' /\ CountersOK'
  BY <1>1, Unchanged
<1>3. PICK d \in Paths : d = at[w].doc
  BY DEF FinishLoad, IInv, AtInv
<1>4. at[w].op = "loading" /\ w \in running /\ d \in Docs /\ d \in Open(w)
        /\ buf[w][d] \in BufferSoFar
      /\ buf[w][d].text \in Written /\ buf[w][d].offer = "none"
  BY <1>3 DEF FinishLoad, IInv, IdleInv, Idle, AtInv, Types, RunningOK, BufferOK, BufferSoFar,
     Docs
<1>5. BufferSoFar' = BufferSoFar
  BY <1>1 DEF BufferSoFar, Written
<1>6. Preserve({d}) /\ {d} \in SUBSET Docs
  BY <1>3, <1>4 DEF FinishLoad
<1>7. /\ AutoOK' /\ KeptOK' /\ missed' \in Written' /\ missed \subseteq missed'
      /\ auto'[d] = (IF Preserves(d) THEN {} ELSE auto[d]) /\ kept'[d] = IF Preserves(d) THEN
           auto[d] ELSE kept[d]
      /\ \A e \in Docs \ {d} : auto'[e] = auto[e]
      /\ \A e \in Paths \ {d} : kept'[e] = kept[e]
      /\ PassesOver(d) => Content(auto[d]) \subseteq missed'
  BY <1>6, <1>1, <1>4, PreserveEffect DEF IInv, Types
<1>8. PICK b \in BufferSoFar' :
      /\ SetBuffer(w, d, b)
      /\ b.text = (IF Recovers(d) THEN Content(auto[d]) ELSE buf[w][d].text)
      /\ b.offer = (IF Preserves(d) THEN "pending" ELSE "none")
      /\ ~b.needs /\ ~b.typed /\ ~b.lock
      /\ (b.seen = "current" => b.raced \/ file[d] = {b.base})
  <2>1. SetBuffer(w, d, Loaded(d, buf[w][d].text))
    BY <1>3 DEF FinishLoad
  <2> QED
    BY <2>1, <1>4, <1>5, LoadedFields DEF IInv, Types
<1>9. /\ \A v \in Windows : Open(v)' = Open(v)
      /\ buf'[w][d] = b
      /\ \A e \in Open(w) \ {d} : buf'[w][e] = buf[w][e]
      /\ \A v \in Windows \ {w} : buf'[v] = buf[v]
  BY <1>8, <1>4, BufferChanges DEF IInv, Types
<1>10. BufferOK'
  BY <1>8, <1>4, <1>1, <1>5, OneBuffer DEF IInv, Types
<1>11. at' = [at EXCEPT ![w] = Idle] /\ at'[w] = Idle /\ \A v \in Windows \ {w} : at'[v] = at[v]
  BY DEF FinishLoad, IInv, Types, AtOK
<1>12. SessionOK' /\ OwnerInv' /\ session \subseteq session'
  <2>1. SaveSession(w, Open(w)) /\ Open(w) \in SUBSET Docs
    BY DEF FinishLoad, IInv, Types, BufferOK
  <2> QED
    BY <2>1, <1>9, <1>1, SessionSaved
<1>13. AtOK' /\ HistoryOK'
  <2>1. Written' = Written
    BY <1>1 DEF Written
  <2>2. HistoryOK'
    BY <2>1, <1>7, <1>1 DEF IInv, Types, HistoryOK
  <2>3. AtOK'
    BY <1>11 DEF IInv, Types, AtOK, Handlers, Idle
  <2> QED
    BY <2>2, <2>3
<1>14. IdleInv'
  BY <1>9, <1>1, <1>4, <1>11 DEF IInv, IdleInv
<1>15. SharedInv'
  BY <1>9, <1>1, SameOpen
<1>16. AtInv'
  BY <1>9, <1>1, <1>4, <1>11 DEF IInv, AtInv, Idle
<1>17. AutoInv'
  <2> SUFFICES ASSUME ~shared, NEW v \in Windows, NEW e \in Open(v), ~Loading(v, e)'
               PROVE  Content(auto'[e]) \subseteq buf'[v][e].text \union missed'
    BY <1>9, <1>1 DEF AutoInv
  <2>1. CASE v = w /\ e = d
    <3>1. auto[d] = {} \/ Recovers(d) \/ Preserves(d) \/ PassesOver(d)
      BY DEF Recovers, Preserves, PassesOver
    <3> QED
      BY <2>1, <3>1, <1>9, <1>8, <1>7, ContentOf
  <2>2. CASE v = w /\ e # d
    BY <2>2, <1>9, <1>7, <1>4, <1>3 DEF IInv, AutoInv, Loading, Types, BufferOK
  <2>3. CASE v # w
    <3>1. e # d
      BY <2>3, <1>4 DEF IInv, SharedInv
    <3> QED
      BY <2>3, <3>1, <1>9, <1>7, <1>11 DEF IInv, AutoInv, Loading, Types, BufferOK
  <2> QED
    BY <2>1, <2>2, <2>3
<1>18. OfferInv'
  <2> SUFFICES ASSUME NEW v \in Windows, NEW e \in Open(v), buf'[v][e].offer # "none"
               PROVE  /\ e \in Paths
                      /\ buf'[v][e].offer = "pending" => ~buf'[v][e].needs
                      /\ ~shared /\ buf'[v][e].offer = "pending" => auto'[e] = {}
                      /\ ~shared /\ buf'[v][e].offer = "opened" => Content(kept'[e])
                           \subseteq buf'[v][e].text
    BY <1>9, <1>1 DEF OfferInv
  <2>1. CASE v = w /\ e = d
    BY <2>1, <1>9, <1>8, <1>7
  <2>2. CASE v = w /\ e # d
    BY <2>2, <1>9, <1>7 DEF IInv, OfferInv, Docs
  <2>3. CASE v # w
    <3>1. ~shared => e # d
      BY <2>3, <1>4 DEF IInv, SharedInv
    <3> QED
      BY <2>3, <3>1, <1>9, <1>7 DEF IInv, OfferInv, Docs
  <2> QED
    BY <2>1, <2>2, <2>3
<1>19. BackedInv'
  BY <1>1, <1>11, <1>7 DEF IInv, BackedInv, Idle
<1>20. WrittenInv'
  BY <1>9, <1>1, <1>11, <1>7 DEF IInv, WrittenInv, Idle
<1>21. LockInv'
  BY <1>9, <1>1, <1>4, <1>8 DEF IInv, LockInv
<1>22. SeenInv'
  BY <1>9, <1>1, <1>4, <1>8 DEF IInv, SeenInv
<1>23. \A e \in Docs : (Listed(e) => Listed(e)')
  BY <1>9, <1>12, ListedStays
<1>24. ~shared => AutosStay
  <2>1. Preserves(d) => \A x \in Content(auto[d]) : Found(x)'
    BY <1>9, <1>8, <1>7, <1>4 DEF Found, OnOffer
  <2> QED
    BY <2>1, <1>7, <1>23 DEF AutosStay, Found
<1>25. ~shared => DraftsStay
  <2> SUFFICES ASSUME ~shared, NEW e \in Paths, OnOffer(e), NEW x \in Content(kept[e])
               PROVE  Found(x)'
    BY DEF DraftsStay
  <2>1. e # d
    BY <1>4 DEF OnOffer, IInv, SharedInv
  <2>2. OnOffer(e)'
    BY <2>1, <1>9 DEF OnOffer
  <2> QED
    BY <2>1, <2>2, <1>7 DEF Found
<1>26. FoundInv'
  BY <1>1, <1>7, <1>24, <1>25, SameFiles, FoundFollows DEF IInv
<1> QED
  BY <1>2, <1>7, <1>10, <1>12, <1>13, <1>14, <1>15, <1>16, <1>17, <1>18, <1>19, <1>20, <1>21,
     <1>22, <1>26 DEF IInv, Types

(* The same for every document of the session file at once.                 *)
LEMMA StartStep ==
  ASSUME IInv, NEW w \in Windows, Start(w)
  PROVE  IInv'
<1>1. UNCHANGED <<file, newer, backups, session, at, edits, budget, saved, dropped>>
  BY DEF Start, disk, counters, history
<1>2. /\ FileOK' /\ BackupsOK' /\ SessionOK' /\ AtOK' /\ CountersOK'
  BY <1>1, Unchanged
<1>3. w \notin running /\ Open(w) = {} /\ at[w] = Idle /\ session \in SUBSET Docs
  BY DEF Start, IInv, IdleInv, Types, SessionOK
<1>4. BufferSoFar' = BufferSoFar
  BY <1>1 DEF BufferSoFar, Written
<1>5. PICK new \in SUBSET (Drafts \intersect budget.docs) :
      /\ \A d \in new : auto[d] = {} /\ \A v \in Windows : d \notin Open(v)
      /\ buf' = [buf EXCEPT ![w] = [d \in session \union new |->
                     IF d \in Paths THEN Loaded(d, Content(file[d])) ELSE LoadedDraft(d)]]
  BY DEF Start
<1>6. new \subseteq Drafts /\ new \intersect Paths = {} /\ session \union new \subseteq Docs
  BY <1>5, <1>3, NamesAssumption DEF IInv, Types, CountersOK, Docs
<1>7. /\ AutoOK' /\ KeptOK' /\ missed' \in Written' /\ missed \subseteq missed'
      /\ \A d \in Docs : auto'[d] = IF d \in session \intersect Paths
           /\ Preserves(d) THEN {} ELSE auto[d]
      /\ \A d \in Paths : kept'[d] = IF d \in session /\ Preserves(d) THEN auto[d] ELSE kept[d]
      /\ \A d \in session \intersect Paths : PassesOver(d) => Content(auto[d]) \subseteq missed'
  <2>1. Preserve(session)
    BY DEF Start
  <2> QED
    BY <2>1, <1>1, <1>3, PreserveEffect DEF IInv
<1>8. /\ DOMAIN buf' = Windows /\ DOMAIN buf'[w] = session \union new
      /\ buf'[w] = [d \in session \union new |-> buf'[w][d]]
      /\ \A d \in session \union new :
           buf'[w][d] = IF d \in Paths THEN Loaded(d, Content(file[d])) ELSE LoadedDraft(d)
      /\ \A v \in Windows \ {w} : buf'[v] = buf[v]
  BY <1>5 DEF IInv, Types, BufferOK
<1>9. /\ Only(w) /\ Open(w)' = session \union new
      /\ \A v \in Windows \ {w} : buf'[v] = buf[v] /\ Open(v)' = Open(v)
  BY <1>8 DEF Only, Open
<1>10. \A d \in session \union new :
        LET b == buf'[w][d] IN
        /\ b \in BufferSoFar /\ ~b.needs /\ ~b.typed /\ ~b.lock
        /\ b.offer = (IF d \in Paths /\ Preserves(d) THEN "pending" ELSE "none")
        /\ b.text = (IF d \in Paths /\ ~Recovers(d) THEN Content(file[d]) ELSE Content(auto[d]))
        /\ (b.seen = "current" => b.raced \/ file[d] = {b.base}) /\ (b.seen # "unknown"
             => d \in Paths)
  <2> SUFFICES ASSUME NEW d \in session \union new
               PROVE  LET b == buf'[w][d] IN
        /\ b \in BufferSoFar /\ ~b.needs /\ ~b.typed /\ ~b.lock
        /\ b.offer = (IF d \in Paths /\ Preserves(d) THEN "pending" ELSE "none")
        /\ b.text = (IF d \in Paths /\ ~Recovers(d) THEN Content(file[d]) ELSE Content(auto[d]))
        /\ (b.seen = "current" => b.raced \/ file[d] = {b.base}) /\ (b.seen # "unknown"
             => d \in Paths)
    OBVIOUS
  <2>1. CASE d \in Paths
    <3>1. buf'[w][d] = Loaded(d, Content(file[d]))
      BY <2>1, <1>8
    <3>2. Content(file[d]) \in Written
      BY <2>1, StoredContent DEF IInv, Types, FileOK
    <3> QED
      BY <2>1, <3>1, <3>2, LoadedFields DEF IInv, Types
  <2>2. CASE d \notin Paths
    <3>1. buf'[w][d] = LoadedDraft(d)
      BY <2>2, <1>8
    <3>2. Content(auto[d]) \in Written /\ d \in Docs
      BY <1>6, StoredContent DEF IInv, Types, AutoOK
    <3>3. PICK y \in BOOLEAN : y = (auto[d] # {})
      BY Zenon
    <3>4. LoadedDraft(d) = [Blank EXCEPT !.text = Content(auto[d]), !.dirty = y]
      BY <3>3 DEF LoadedDraft
    <3>5. LoadedDraft(d) =
            [text |-> Content(auto[d]), dirty |-> y, needs |-> FALSE, seen |-> "unknown",
             base |-> {}, raced |-> FALSE, typed |-> FALSE, offer |-> "none", lock |-> FALSE]
      BY <3>4 DEF Blank
    <3>6. LoadedDraft(d) \in BufferSoFar
      BY <3>2, <3>3, <3>5 DEF BufferSoFar, Written
    <3> QED
      BY <2>2, <3>1, <3>5, <3>6
  <2> QED
    BY <2>1, <2>2
<1>11. BufferOK'
  <2>1. buf'[w] \in [DOMAIN buf'[w] -> BufferSoFar']
    BY <1>8, <1>10, <1>4
  <2> QED
    BY <2>1, <1>9, <1>8, <1>6, <1>4, OneWindow DEF IInv, Types
<1>12. (shared => shared') /\ (~shared' => \A v \in Windows \ {w} : Open(v) \intersect (session
         \union new) = {})
       /\ shared' \in BOOLEAN
  <2>1. Share(w, session \union new)
    BY <1>8 DEF Start
  <2> QED
    BY <2>1, Zenon DEF Share, Elsewhere
<1>13. running' = running \union {w} /\ (owner' = IF owner = None THEN w ELSE owner) /\ owner \in
   running \union {None}
  BY DEF Start, IInv, Types, RunningOK
<1>14. RunningOK' /\ HistoryOK'
  <2>1. HistoryOK'
    BY <1>1, <1>7, <1>12 DEF IInv, Types, HistoryOK, Written
  <2>2. RunningOK'
    BY <1>13 DEF IInv, Types, RunningOK
  <2> QED
    BY <2>1, <2>2
<1>15. IdleInv'
  BY <1>9, <1>1, <1>13 DEF IInv, IdleInv
<1>16. OwnerInv'
  <2>1. CASE owner = None
    <3>1. owner' = w /\ session' \subseteq Open(w)'
      BY <2>1, <1>13, <1>9, <1>1
    <3> QED
      BY <3>1 DEF OwnerInv, Open
  <2>2. CASE owner # None
    <3>1. owner' = owner /\ owner \in Windows \ {w}
      BY <2>2, <1>13, <1>3 DEF IInv, Types, RunningOK
    <3> QED
      BY <2>2, <3>1, <1>9, <1>1 DEF IInv, OwnerInv, Open
  <2> QED
    BY <2>1, <2>2
<1>17. AtInv'
  BY <1>9, <1>1, <1>3 DEF IInv, AtInv, Idle
<1>18. SharedInv'
  BY <1>9, <1>1, <1>12 DEF IInv, SharedInv
<1>19. AutoInv'
  <2> SUFFICES ASSUME ~shared', NEW v \in Windows, NEW e \in Open(v)', ~Loading(v, e)'
               PROVE  Content(auto'[e]) \subseteq buf'[v][e].text \union missed'
    BY DEF AutoInv
  <2>1. CASE v = w
    <3>1. auto[e] = {} \/ Recovers(e) \/ Preserves(e) \/ PassesOver(e)
      BY DEF Recovers, Preserves, PassesOver
    <3>2. e \in session \union new /\ e \in Docs /\ (e \in Paths => e \in session)
      BY <2>1, <1>9, <1>6
    <3>3. CASE e \in Paths
      BY <2>1, <3>1, <3>2, <3>3, <1>10, <1>7, ContentOf
    <3>4. CASE e \notin Paths
      BY <2>1, <3>2, <3>4, <1>10, <1>7
    <3> QED
      BY <3>3, <3>4
  <2>2. CASE v # w
    <3>1. e \in Open(v) /\ e \notin session /\ e \in Docs /\ ~Loading(v, e)
      BY <2>2, <1>9, <1>12, <1>1 DEF IInv, Types, BufferOK, Loading
    <3> QED
      BY <2>2, <3>1, <1>9, <1>7, <1>12 DEF IInv, AutoInv
  <2> QED
    BY <2>1, <2>2
<1>20. OfferInv'
  <2> SUFFICES ASSUME NEW v \in Windows, NEW e \in Open(v)', buf'[v][e].offer # "none"
               PROVE  /\ e \in Paths
                      /\ buf'[v][e].offer = "pending" => ~buf'[v][e].needs
                      /\ ~shared' /\ buf'[v][e].offer = "pending" => auto'[e] = {}
                      /\ ~shared' /\ buf'[v][e].offer = "opened" => Content(kept'[e])
                           \subseteq buf'[v][e].text
    BY DEF OfferInv
  <2>1. CASE v = w
    BY <2>1, <1>9, <1>6, <1>10, <1>7
  <2>2. CASE v # w
    <3>1. e \in Open(v) /\ (~shared' => e \notin session) /\ buf'[v] = buf[v]
      BY <2>2, <1>9, <1>12
    <3> QED
      BY <2>2, <3>1, <1>12, <1>7 DEF IInv, OfferInv, Docs
  <2> QED
    BY <2>1, <2>2
<1>21. BackedInv'
  BY <1>1, <1>7 DEF IInv, BackedInv
<1>22. WrittenInv'
  BY <1>9, <1>1, <1>3, <1>7 DEF IInv, WrittenInv, Idle
<1>23. LockInv'
  BY <1>9, <1>10 DEF IInv, LockInv
<1>24. SeenInv'
  BY <1>9, <1>10, <1>1 DEF IInv, SeenInv
<1>25. \A e \in Docs : (Listed(e) => Listed(e)') /\ (OnOffer(e) => OnOffer(e)')
  BY <1>9, <1>3, <1>1 DEF Listed, OnOffer
<1>26. ~shared' => AutosStay
  <2>1. ASSUME NEW d \in session \intersect Paths, Preserves(d)
        PROVE \A x \in Content(auto[d]) : Found(x)'
    <3>1. OnOffer(d)'
      BY <2>1, <1>9, <1>10 DEF OnOffer
    <3> QED
      BY <2>1, <3>1, <1>7 DEF Found
  <2> QED
    BY <2>1, <1>7, <1>25 DEF AutosStay, Found
<1>27. ~shared' => DraftsStay
  <2> SUFFICES ASSUME ~shared', NEW e \in Paths, OnOffer(e), NEW x \in Content(kept[e])
               PROVE  Found(x)'
    BY DEF DraftsStay
  <2>1. e \notin session /\ OnOffer(e)'
    BY <1>3, <1>12, <1>25 DEF OnOffer, Docs
  <2> QED
    BY <2>1, <1>7 DEF Found
<1>28. FoundInv'
  BY <1>1, <1>7, <1>12, <1>26, <1>27, SameFiles, FoundFollows DEF IInv
<1> QED
  BY <1>2, <1>7, <1>11, <1>14, <1>15, <1>16, <1>17, <1>18, <1>19, <1>20, <1>21, <1>22, <1>23,
     <1>24, <1>28 DEF IInv, Types

(* One document is closed.                                                  *)
LEMMA KillStep ==
  ASSUME IInv, NEW w \in Windows, NEW d \in Docs, Kill(w, d)
  PROVE  IInv'
<1>1. UNCHANGED <<file, kept, backups, owner, running, at, edits, budget, dropped, shared>>
  BY DEF Kill, disk, counters, history
<1>2. /\ FileOK' /\ KeptOK' /\ BackupsOK' /\ RunningOK' /\ AtOK' /\ CountersOK'
  BY <1>1, Unchanged
<1>3. w \in running /\ at[w] = Idle /\ {d} \in SUBSET Open(w) /\ Open(w) \subseteq Docs /\ at =
   [at EXCEPT ![w] = Idle]
  BY DEF Kill, Free, IInv, Types, BufferOK, AtOK
<1>4. session \ {d} \subseteq session' /\ session' \subseteq Docs
  <2>1. SaveSession(w, Open(w) \ {d}) /\ w # None /\ session \subseteq Docs
    BY NamesAssumption DEF Kill, IInv, Types, SessionOK
  <2>2. CASE owner = w
    BY <2>1, <2>2, <1>3 DEF SaveSession, IInv, OwnerInv
  <2>3. CASE owner # w
    BY <2>1, <2>3 DEF SaveSession
  <2> QED
    BY <2>2, <2>3
<1>5. /\ AutoOK' /\ BufferOK' /\ AtOK' /\ HistoryOK' /\ AtInv' /\ SharedInv'
      /\ AutoInv' /\ OfferInv' /\ BackedInv' /\ WrittenInv' /\ LockInv' /\ SeenInv' /\ FoundInv'
      /\ Open(w)' = Open(w) \ {d} /\ \A v \in Windows \ {w} : Open(v)' = Open(v) /\ at'[v] = at[v]
      /\ at'[w] = Idle
  <2>1. /\ at' = [at EXCEPT ![w] = Idle]
        /\ buf' = [buf EXCEPT ![w] = Restrict(buf[w], Open(w) \ {d})]
        /\ WriteAutosaves(w, {d})
        /\ missed' = missed \union Unoffered(w, {d}, session')
    BY <1>3, <1>1 DEF Kill
  <2> QED
    BY <2>1, <1>3, <1>4, <1>1, Closes
<1>6. SessionOK'
  BY <1>4 DEF SessionOK
<1>7. IdleInv'
  BY <1>5, <1>3, <1>1 DEF IInv, IdleInv
<1>8. OwnerInv'
  <2>1. SaveSession(w, Open(w) \ {d}) /\ Open(w) \ {d} \in SUBSET Docs
    BY <1>3 DEF Kill
  <2> QED
    BY <2>1, <1>5, <1>1, SessionSaved
<1> QED
  BY <1>2, <1>5, <1>6, <1>7, <1>8 DEF IInv, Types

(* Every document is flushed and closed.                                    *)
LEMMA QuitStep ==
  ASSUME IInv, NEW w \in Windows, Quit(w)
  PROVE  IInv'
<1>1. UNCHANGED <<file, kept, backups, edits, dropped, shared>>
  BY DEF Quit, disk, counters, history
<1>2. /\ FileOK' /\ KeptOK' /\ BackupsOK'
  BY <1>1, Unchanged
<1>3. at = [at EXCEPT ![w] = at[w]] /\ Open(w) \in SUBSET Open(w) /\ Open(w) \subseteq Docs /\ w
   # None
  BY NamesAssumption DEF IInv, Types, BufferOK, AtOK
<1>4. running' = running \ {w} /\ (owner' = IF owner = w THEN None ELSE owner)
      /\ budget.ends > 0 /\ budget' = [budget EXCEPT !.ends = @ - 1]
  BY DEF Quit, Leave
<1>5. session \ Open(w) \subseteq session' /\ session' \subseteq Docs /\ (owner # w => session' =
   session)
  <2>1. SaveSession(w, Open(w)) /\ session \subseteq Docs
    BY DEF Quit, IInv, Types, SessionOK
  <2>2. CASE owner = w
    BY <2>1, <2>2, <1>3 DEF SaveSession, IInv, OwnerInv
  <2>3. CASE owner # w
    BY <2>1, <2>3 DEF SaveSession
  <2> QED
    BY <2>2, <2>3
<1>6. /\ AutoOK' /\ BufferOK' /\ AtOK' /\ HistoryOK' /\ AtInv' /\ SharedInv'
      /\ AutoInv' /\ OfferInv' /\ BackedInv' /\ WrittenInv' /\ LockInv' /\ SeenInv' /\ FoundInv'
      /\ Open(w)' = Open(w) \ Open(w) /\ \A v \in Windows \ {w} : Open(v)' = Open(v)
           /\ at'[v] = at[v]
      /\ at'[w] = Idle
  <2>1. /\ at' = [at EXCEPT ![w] = Idle]
        /\ buf' = [buf EXCEPT ![w] = Restrict(buf[w], Open(w) \ Open(w))]
        /\ missed' = missed \union Unoffered(w, Open(w), session')
    <3>1. Open(w) \ Open(w) = {}
      OBVIOUS
    <3> QED
      BY <3>1, <1>1 DEF Quit, Leave
  <2>2. at[w] = Idle /\ WriteAutosaves(w, Open(w))
    BY <1>1 DEF Quit, Free
  <2> QED
    BY <2>1, <2>2, <1>3, <1>5, <1>1, Closes
<1>7. SessionOK'
  BY <1>5 DEF SessionOK
<1>8. RunningOK'
  BY <1>4 DEF IInv, Types, RunningOK
<1>9. CountersOK'
  BY <1>4, <1>1 DEF IInv, Types, CountersOK
<1>10. IdleInv'
  BY <1>6, <1>4 DEF IInv, IdleInv
<1>11. OwnerInv'
  <2>1. CASE owner = w
    BY <2>1, <1>4 DEF OwnerInv
  <2>2. CASE owner # w
    <3>1. owner' = owner /\ session' = session
      BY <2>2, <1>4, <1>5
    <3>2. owner # None => owner \in Windows \ {w}
      BY <2>2 DEF IInv, Types, RunningOK
    <3> QED
      BY <3>1, <3>2, <1>6 DEF IInv, OwnerInv, Open
  <2> QED
    BY <2>1, <2>2
<1> QED
  BY <1>2, <1>6, <1>7, <1>8, <1>9, <1>10, <1>11 DEF IInv, Types

(* Every document is closed, and nothing is written.                        *)
LEMMA CrashStep ==
  ASSUME IInv, NEW w \in Windows, Crash(w)
  PROVE  IInv'
<1>1. UNCHANGED <<file, auto, newer, kept, backups, session, edits, saved, dropped, shared>>
  BY DEF Crash, disk, counters, history
<1>2. /\ FileOK' /\ AutoOK' /\ KeptOK' /\ BackupsOK' /\ SessionOK'
  BY <1>1, Unchanged
<1>3. at = [at EXCEPT ![w] = at[w]] /\ Open(w) \in SUBSET Open(w) /\ Open(w) \subseteq Docs /\ w
   # None
  BY NamesAssumption DEF IInv, Types, BufferOK, AtOK
<1>4. running' = running \ {w} /\ (owner' = IF owner = w THEN None ELSE owner)
      /\ budget.ends > 0 /\ budget' = [budget EXCEPT !.ends = @ - 1]
  BY DEF Crash, Leave
<1>5. session \ Open(w) \subseteq session' /\ session' \subseteq Docs /\ (owner # w => session' =
   session)
  BY <1>1 DEF IInv, Types, SessionOK
<1>6. /\ AutoOK' /\ BufferOK' /\ AtOK' /\ HistoryOK' /\ AtInv' /\ SharedInv'
      /\ AutoInv' /\ OfferInv' /\ BackedInv' /\ WrittenInv' /\ LockInv' /\ SeenInv' /\ FoundInv'
      /\ Open(w)' = Open(w) \ Open(w) /\ \A v \in Windows \ {w} : Open(v)' = Open(v)
           /\ at'[v] = at[v]
      /\ at'[w] = Idle
  <2>1. /\ at' = [at EXCEPT ![w] = Idle]
        /\ buf' = [buf EXCEPT ![w] = Restrict(buf[w], Open(w) \ Open(w))]
        /\ missed' = missed \union Unoffered(w, Open(w), session')
    <3>1. Open(w) \ Open(w) = {}
      OBVIOUS
    <3> QED
      BY <3>1, <1>1 DEF Crash, Leave
  <2>2. UNCHANGED <<auto, newer, saved>>
    BY <1>1 DEF Crash
  <2> QED
    BY <2>1, <2>2, <1>3, <1>5, <1>1, Closes
<1>7. SessionOK'
  BY <1>5 DEF SessionOK
<1>8. RunningOK'
  BY <1>4 DEF IInv, Types, RunningOK
<1>9. CountersOK'
  BY <1>4, <1>1 DEF IInv, Types, CountersOK
<1>10. IdleInv'
  BY <1>6, <1>4 DEF IInv, IdleInv
<1>11. OwnerInv'
  <2>1. CASE owner = w
    BY <2>1, <1>4 DEF OwnerInv
  <2>2. CASE owner # w
    <3>1. owner' = owner /\ session' = session
      BY <2>2, <1>4, <1>5
    <3>2. owner # None => owner \in Windows \ {w}
      BY <2>2 DEF IInv, Types, RunningOK
    <3> QED
      BY <3>1, <3>2, <1>6 DEF IInv, OwnerInv, Open
  <2> QED
    BY <2>1, <2>2
<1> QED
  BY <1>2, <1>6, <1>7, <1>8, <1>9, <1>10, <1>11 DEF IInv, Types

(* The drafts the new owner does not list are missed.                       *)
LEMMA ClaimStep ==
  ASSUME IInv, NEW w \in Windows, Claim(w)
  PROVE  IInv'
<1>1. UNCHANGED <<file, auto, newer, kept, backups, running, buf, at, edits, budget, saved,
   dropped, shared>>
  BY DEF Claim, disk, counters, history
<1>2. /\ FileOK' /\ AutoOK' /\ KeptOK' /\ BackupsOK' /\ BufferOK' /\ AtOK'
      /\ CountersOK' /\ IdleInv' /\ AtInv' /\ SharedInv' /\ OfferInv' /\ LockInv'
      /\ SeenInv'
  BY <1>1, Unchanged
<1>3. w \in running /\ owner = None /\ owner' = w /\ session' = Open(w) /\ Open(w) \subseteq Docs
  BY DEF Claim, Free, IInv, Types, BufferOK
<1>4. /\ missed \subseteq missed' /\ missed' \in Written'
      /\ \A d \in (session \intersect Drafts) \ Open(w) : Content(auto[d]) \subseteq missed'
  <2> DEFINE lost == (session \intersect Drafts) \ Open(w)
  <2>1. missed' = missed \union UNION {Content(auto[d]) : d \in lost}
    BY DEF Claim
  <2>2. \A d \in lost : Content(auto[d]) \in Written
    BY StoredContent DEF IInv, Types, AutoOK, Docs
  <2> HIDE DEF lost
  <2>3. UNION {Content(auto[d]) : d \in lost} \in Written
    BY <2>2 DEF Written
  <2>4. missed' \in Written'
    BY <2>1, <2>3, <1>1 DEF IInv, Types, HistoryOK, Written
  <2>5. \A d \in lost : Content(auto[d]) \subseteq missed'
    BY <2>1
  <2> QED
    BY <2>1, <2>4, <2>5 DEF lost
<1>5. \A v \in Windows : Open(v)' = Open(v)
  BY <1>1 DEF Open
<1>6. SessionOK' /\ RunningOK' /\ HistoryOK'
  <2>1. Written' = Written
    BY <1>1 DEF Written
  <2> QED
    BY <2>1, <1>3, <1>4, <1>1 DEF IInv, Types, SessionOK, RunningOK, HistoryOK
<1>7. OwnerInv'
  BY <1>3, <1>1 DEF OwnerInv, Open
<1>8. AutoInv'
  BY <1>5, <1>1, <1>4 DEF IInv, AutoInv, Loading
<1>9. BackedInv'
  BY <1>1, <1>4 DEF IInv, BackedInv
<1>10. WrittenInv'
  BY <1>1, <1>4 DEF IInv, WrittenInv
<1>11. \A d \in Docs : Listed(d) => Listed(d)' \/ d \in (session \intersect Drafts) \ Open(w)
  BY <1>5, <1>3 DEF Listed, Docs
<1>12. AutosStay
  BY <1>11, <1>4, <1>1 DEF AutosStay, Found
<1>13. DraftsStay
  <2>1. \A d \in Paths : OnOffer(d) => OnOffer(d)'
    BY <1>5, <1>1 DEF OnOffer
  <2> QED
    BY <2>1, <1>1, SameDrafts
<1>14. FoundInv'
  BY <1>1, <1>4, <1>12, <1>13, SameFiles, FoundFollows DEF IInv
<1> QED
  BY <1>2, <1>6, <1>7, <1>8, <1>9, <1>10, <1>14 DEF IInv, Types

(* A save between its backup and its write misses the new text (Slips).     *)
LEMMA OtherWritesStep ==
  ASSUME IInv, NEW t \in Paths, OtherWrites(t)
  PROVE  IInv'
<1>1. UNCHANGED <<auto, kept, backups, session, owner, running, at, dropped, shared>>
  BY DEF OtherWrites, disk, history
<1>2. /\ SessionOK' /\ RunningOK' /\ AtOK'
  BY <1>1, Unchanged
<1>3. /\ edits' = edits + 1 /\ edits' \in 0..EditLimit /\ edits' \in 1..edits'
      /\ budget.writes > 0 /\ budget' = [budget EXCEPT !.writes = @ - 1]
  BY BoundsAssumption DEF OtherWrites, IInv, Types, CountersOK
<1>4. Written \subseteq Written' /\ Stored \subseteq Stored' /\ BufferSoFar \subseteq
   BufferSoFar'
  BY <1>3, Grows DEF IInv, Types, CountersOK
<1>5. /\ file' = [file EXCEPT ![t] = {Content(file[t]) \union {edits'}}]
      /\ Content(file'[t]) = Content(file[t]) \union {edits'}
           /\ \A e \in Paths \ {t} : file'[e] = file[e]
      /\ Content(file[t]) \in Written
  BY ContentOf, StoredContent DEF OtherWrites, IInv, Types, FileOK
<1>6. /\ BufferOK' /\ SameBuffers /\ \A v \in Windows : Open(v)' = Open(v)
      /\ \A v \in Windows : \A e \in Open(v) : /\ buf'[v][e].text = buf[v][e].text
                                                 /\ buf'[v][e].offer = buf[v][e].offer
  <2>1. BufferSoFar \subseteq BufferSoFar'
    BY <1>4
  <2> QED
    BY <2>1, GoStaleEffect DEF OtherWrites, IInv, Types, SameBuffers
<1>7. \A v \in Windows : \A e \in Open(v) :
        /\ buf'[v][e].seen # "unknown" => buf[v][e].seen # "unknown"
        /\ buf'[v][e].seen = "current" => e # t /\ buf[v][e].seen = "current"
        /\ buf'[v][e].raced = buf[v][e].raced /\ buf'[v][e].base = buf[v][e].base
  <2>1. BufferSoFar \subseteq BufferSoFar'
    BY <1>4
  <2> QED
    BY <2>1, GoStaleEffect DEF OtherWrites, IInv, Types
<1>8. /\ missed \subseteq missed' /\ missed' \subseteq missed \union {edits'}
           /\ saved' = saved \union {edits'}
      /\ \A v \in Windows : at[v].op = "backed" /\ at[v].to = t => edits' \in missed'
  BY DEF OtherWrites, Slips
<1>9. FileOK' /\ AutoOK' /\ KeptOK' /\ BackupsOK'
  <2>1. Content(file[t]) \union {edits'} \in Written'
    BY <1>3, <1>5, <1>4 DEF Written
  <2>2. FileOK'
    BY <2>1, <1>5, <1>4 DEF IInv, Types, FileOK, Stored
  <2>3. \A d \in Docs : newer'[d] \in BOOLEAN
    BY Zenon DEF OtherWrites, IInv, Types, AutoOK
  <2>4. newer' = [newer EXCEPT ![t] = FALSE]
    BY DEF OtherWrites
  <2>5. AutoOK'
    BY <2>4, <1>1, <1>4 DEF IInv, Types, AutoOK
  <2> QED
    BY <2>2, <2>5, <1>1, <1>4 DEF IInv, Types, KeptOK, BackupsOK
<1>10. CountersOK' /\ HistoryOK'
  <2>1. CountersOK'
    BY <1>3 DEF IInv, Types, CountersOK
  <2>2. HistoryOK'
    BY <1>3, <1>8, <1>4, <1>1 DEF IInv, Types, HistoryOK, Written
  <2> QED
    BY <2>1, <2>2
<1>11. IdleInv' /\ OwnerInv' /\ SharedInv'
  BY <1>6, <1>1, SameOpen
<1>12. AtInv'
  BY <1>6, <1>1 DEF IInv, AtInv
<1>13. AutoInv'
  <2> SUFFICES ASSUME ~shared, NEW v \in Windows, NEW e \in Open(v), ~Loading(v, e)'
               PROVE  Content(auto[e]) \subseteq buf'[v][e].text \union missed'
    BY <1>6, <1>1 DEF AutoInv
  <2>1. ~Loading(v, e)
    BY <1>1 DEF Loading
  <2> QED
    BY <2>1, <1>6, <1>8 DEF IInv, AutoInv
<1>14. OfferInv' /\ LockInv'
  BY <1>6, <1>1, SameBuffersKeep
<1>15. BackedInv'
  BY <1>1, <1>5, <1>8 DEF IInv, BackedInv, AtInv
<1>16. WrittenInv'
  <2> SUFFICES ASSUME NEW v \in Windows, at[v].op = "written"
               PROVE  buf'[v][at[v].doc].text \subseteq Content(file'[at[v].to])
                        \union Content(backups[at[v].to]) \union dropped \union missed'
    BY <1>1 DEF WrittenInv
  <2>1. at[v].doc \in Open(v) /\ at[v].to \in Paths
    BY DEF IInv, AtInv
  <2>2. Content(file[at[v].to]) \subseteq Content(file'[at[v].to])
    BY <2>1, <1>5
  <2> QED
    BY <2>1, <2>2, <1>6, <1>8 DEF IInv, WrittenInv
<1>17. SeenInv'
  <2> SUFFICES ASSUME NEW v \in Windows, NEW e \in Open(v), buf'[v][e].seen # "unknown"
               PROVE  /\ e \in Paths
                      /\ buf'[v][e].seen = "current" => buf'[v][e].raced
                           \/ file'[e] = {buf'[v][e].base}
    BY <1>6 DEF SeenInv
  <2>1. e \in Paths /\ (buf[v][e].seen = "current" => buf[v][e].raced \/ file[e] = {buf[v][e].base})
    BY <1>7 DEF IInv, SeenInv
  <2> QED
    BY <2>1, <1>7, <1>5
<1>18. \A e \in Docs : (Listed(e) => Listed(e)') /\ (OnOffer(e) => OnOffer(e)')
  BY <1>6, <1>1, SameBuffersKeep
<1>19. FilesStay
  <2> SUFFICES ASSUME NEW e \in Paths, NEW x \in Content(file[e]) \union Content(backups[e])
      PROVE Found(x)'
    BY DEF FilesStay
  <2>1. CASE e # t \/ x \in Content(backups[e])
    BY <2>1, <1>5, <1>1 DEF Found
  <2>2. CASE e = t /\ x \in Content(file[e])
    BY <2>2, <1>5 DEF Found
  <2> QED
    BY <2>1, <2>2
<1>20. \A x \in saved' \ saved : Found(x)'
  BY <1>8, <1>5 DEF Found
<1>21. FoundInv'
  BY <1>1, <1>8, <1>18, <1>19, <1>20, SameAutos, SameDrafts, FoundFollows DEF IInv, Docs
<1> QED
  BY <1>2, <1>6, <1>9, <1>10, <1>11, <1>12, <1>13, <1>14, <1>15, <1>16, <1>17, <1>21 DEF IInv,
     Types

(* What the file had is dropped.                                            *)
LEMMA OtherDeletesStep ==
  ASSUME IInv, NEW t \in Paths, OtherDeletes(t)
  PROVE  IInv'
<1>1. UNCHANGED <<auto, newer, kept, backups, session, owner, running, at, edits, saved, missed,
   shared>>
  BY DEF OtherDeletes, disk, counters, history
<1>2. /\ AutoOK' /\ KeptOK' /\ BackupsOK' /\ SessionOK' /\ RunningOK' /\ AtOK'
  BY <1>1, Unchanged
<1>3. budget.writes > 0 /\ budget' = [budget EXCEPT !.writes = @ - 1]
  BY DEF OtherDeletes
<1>4. Written' = Written /\ Stored' = Stored /\ BufferSoFar' = BufferSoFar
  BY <1>1 DEF Written, Stored, BufferSoFar
<1>5. /\ file' = [file EXCEPT ![t] = {}]
      /\ file'[t] = {} /\ \A e \in Paths \ {t} : file'[e] = file[e]
      /\ Content(file[t]) \in Written /\ dropped' = dropped \union Content(file[t])
  BY StoredContent DEF OtherDeletes, IInv, Types, FileOK
<1>6. /\ BufferOK' /\ SameBuffers /\ \A v \in Windows : Open(v)' = Open(v)
      /\ \A v \in Windows : \A e \in Open(v) : /\ buf'[v][e].text = buf[v][e].text
                                                 /\ buf'[v][e].offer = buf[v][e].offer
  <2>1. BufferSoFar \subseteq BufferSoFar'
    BY <1>4
  <2> QED
    BY <2>1, GoStaleEffect DEF OtherDeletes, IInv, Types, SameBuffers
<1>7. \A v \in Windows : \A e \in Open(v) :
        /\ buf'[v][e].seen # "unknown" => buf[v][e].seen # "unknown"
        /\ buf'[v][e].seen = "current" => e # t /\ buf[v][e].seen = "current"
        /\ buf'[v][e].raced = buf[v][e].raced /\ buf'[v][e].base = buf[v][e].base
  <2>1. BufferSoFar \subseteq BufferSoFar'
    BY <1>4
  <2> QED
    BY <2>1, GoStaleEffect DEF OtherDeletes, IInv, Types
<1>8. missed' = missed
  BY <1>1
<1>9. FileOK'
  BY <1>5, <1>4 DEF IInv, Types, FileOK, Stored
<1>10. CountersOK' /\ HistoryOK'
  <2>1. CountersOK'
    BY <1>3, <1>1 DEF IInv, Types, CountersOK
  <2>2. HistoryOK'
    BY <1>5, <1>4, <1>1 DEF IInv, Types, HistoryOK, Written
  <2> QED
    BY <2>1, <2>2
<1>11. IdleInv' /\ OwnerInv' /\ SharedInv'
  BY <1>6, <1>1, SameOpen
<1>12. AtInv'
  BY <1>6, <1>1 DEF IInv, AtInv
<1>13. AutoInv'
  <2> SUFFICES ASSUME ~shared, NEW v \in Windows, NEW e \in Open(v), ~Loading(v, e)'
               PROVE  Content(auto[e]) \subseteq buf'[v][e].text \union missed'
    BY <1>6, <1>1 DEF AutoInv
  <2>1. ~Loading(v, e)
    BY <1>1 DEF Loading
  <2> QED
    BY <2>1, <1>6, <1>8 DEF IInv, AutoInv
<1>14. OfferInv' /\ LockInv'
  BY <1>6, <1>1, SameBuffersKeep
<1>15. BackedInv'
  BY <1>1, <1>5, ContentOf DEF IInv, BackedInv, AtInv
<1>16. WrittenInv'
  <2> SUFFICES ASSUME NEW v \in Windows, at[v].op = "written"
               PROVE  buf'[v][at[v].doc].text \subseteq Content(file'[at[v].to])
                        \union Content(backups[at[v].to]) \union dropped' \union missed
    BY <1>1 DEF WrittenInv
  <2>1. at[v].doc \in Open(v) /\ at[v].to \in Paths
    BY DEF IInv, AtInv
  <2>2. Content(file[at[v].to]) \subseteq Content(file'[at[v].to]) \union dropped'
    BY <2>1, <1>5
  <2>3. dropped \subseteq dropped'
    BY <1>5
  <2> QED
    BY <2>1, <2>2, <2>3, <1>6 DEF IInv, WrittenInv
<1>17. SeenInv'
  <2> SUFFICES ASSUME NEW v \in Windows, NEW e \in Open(v), buf'[v][e].seen # "unknown"
               PROVE  /\ e \in Paths
                      /\ buf'[v][e].seen = "current" => buf'[v][e].raced
                           \/ file'[e] = {buf'[v][e].base}
    BY <1>6 DEF SeenInv
  <2>1. e \in Paths /\ (buf[v][e].seen = "current" => buf[v][e].raced \/ file[e] = {buf[v][e].base})
    BY <1>7 DEF IInv, SeenInv
  <2> QED
    BY <2>1, <1>7, <1>5
<1>18. \A e \in Docs : (Listed(e) => Listed(e)') /\ (OnOffer(e) => OnOffer(e)')
  BY <1>6, <1>1, SameBuffersKeep
<1>19. FilesStay
  <2> SUFFICES ASSUME NEW e \in Paths, NEW x \in Content(file[e]) \union Content(backups[e])
      PROVE Found(x)'
    BY DEF FilesStay
  <2>1. CASE e # t \/ x \in Content(backups[e])
    BY <2>1, <1>5, <1>1 DEF Found
  <2>2. CASE e = t /\ x \in Content(file[e])
    BY <2>2, <1>5 DEF Found
  <2> QED
    BY <2>1, <2>2
<1>20. FoundInv'
  BY <1>1, <1>5, <1>18, <1>19, SameAutos, SameDrafts, FoundFollows DEF IInv, Docs
<1> QED
  BY <1>2, <1>6, <1>9, <1>10, <1>11, <1>12, <1>13, <1>14, <1>15, <1>16, <1>17, <1>20 DEF IInv,
     Types

(* The file that is replaced is in the backup (BackedInv).                  *)
LEMMA WriteFileStep ==
  ASSUME IInv, NEW w \in Windows, WriteFile(w)
  PROVE  IInv'
<1>1. UNCHANGED <<auto, kept, backups, session, owner, running, edits, budget, dropped, shared>>
  BY DEF WriteFile, disk, counters, history
<1>2. /\ KeptOK' /\ BackupsOK' /\ SessionOK' /\ RunningOK' /\ CountersOK'
  BY <1>1, Unchanged
<1>3. PICK t \in Paths : t = at[w].to
  BY DEF WriteFile, IInv, AtInv
<1>4. PICK d \in Open(w) : d = at[w].doc
  BY DEF WriteFile, IInv, AtInv
<1>5. PICK text \in Written : text = buf[w][d].text
  BY <1>4 DEF IInv, Types, BufferOK, BufferSoFar
<1>6. Written' = Written /\ Stored' = Stored /\ BufferSoFar' = BufferSoFar
  BY <1>1 DEF Written, Stored, BufferSoFar
<1>7. /\ file' = [file EXCEPT ![t] = {text}]
      /\ Content(file'[t]) = text /\ \A e \in Paths \ {t} : file'[e] = file[e]
  BY <1>3, <1>4, <1>5, ContentOf DEF WriteFile, IInv, Types, FileOK
<1>8. buf' = GoStale(t)
  BY <1>3 DEF WriteFile
<1>9. /\ BufferOK' /\ SameBuffers /\ \A v \in Windows : Open(v)' = Open(v)
      /\ \A v \in Windows : \A e \in Open(v) : /\ buf'[v][e].text = buf[v][e].text
                                                 /\ buf'[v][e].offer = buf[v][e].offer
  <2>1. BufferSoFar \subseteq BufferSoFar'
    BY <1>6
  <2> QED
    BY <2>1, <1>8, GoStaleEffect DEF IInv, Types, SameBuffers
<1>10. \A v \in Windows : \A e \in Open(v) :
        /\ buf'[v][e].seen # "unknown" => buf[v][e].seen # "unknown"
        /\ buf'[v][e].seen = "current" => e # t /\ buf[v][e].seen = "current"
        /\ buf'[v][e].raced = buf[v][e].raced /\ buf'[v][e].base = buf[v][e].base
  <2>1. BufferSoFar \subseteq BufferSoFar'
    BY <1>6
  <2> QED
    BY <2>1, <1>8, GoStaleEffect DEF IInv, Types
<1>11. /\ missed \subseteq missed' /\ missed' \subseteq missed \union text
            /\ saved' = saved \union text
       /\ \A v \in Windows \ {w} : at[v].op = "backed" /\ at[v].to = t => text \subseteq missed'
  BY <1>3, <1>4, <1>5 DEF WriteFile, Slips
<1>12. /\ at' = [at EXCEPT ![w] = [at[w] EXCEPT !.op = "written"]] /\ at[w] \in Handlers
            /\ at[w].op = "backed"
       /\ at'[w].op = "written" /\ at'[w].doc = d /\ at'[w].to = t
       /\ \A v \in Windows \ {w} : at'[v] = at[v]
  BY <1>3, <1>4 DEF WriteFile, IInv, Types, AtOK, Handlers
<1>13. Content(file[t]) \subseteq Content(backups[t]) \union missed
  BY <1>3, <1>12 DEF IInv, BackedInv
<1>14. FileOK' /\ AutoOK'
  <2>1. FileOK'
    BY <1>7, <1>6 DEF IInv, Types, FileOK, Stored
  <2>2. newer' = [newer EXCEPT ![t] = FALSE]
    BY <1>3 DEF WriteFile
  <2> QED
    BY <2>1, <2>2, <1>1, <1>6 DEF IInv, Types, AutoOK
<1>15. AtOK' /\ HistoryOK'
  <2>1. AtOK'
    BY <1>12 DEF IInv, Types, AtOK, Handlers
  <2>2. HistoryOK'
    BY <1>11, <1>6, <1>1 DEF IInv, Types, HistoryOK, Written
  <2> QED
    BY <2>1, <2>2
<1>16. IdleInv'
  BY <1>9, <1>1, <1>12 DEF IInv, IdleInv, Idle
<1>17. OwnerInv' /\ SharedInv'
  BY <1>9, <1>1, SameOpen
<1>18. AtInv'
  <2> SUFFICES ASSUME NEW v \in Windows, at'[v].op # "idle"
               PROVE  /\ at'[v].doc \in Open(v)
                      /\ at'[v].op = "loading" => at'[v].doc \in Paths
                           /\ buf'[v][at'[v].doc].offer = "none"
                      /\ at'[v].op \in {"backed", "written"} => at'[v].to \in Paths
    BY <1>9 DEF AtInv
  <2>1. CASE v = w
    BY <2>1, <1>12, <1>4, <1>3, <1>9 DEF IInv, AtInv
  <2>2. CASE v # w
    BY <2>2, <1>12, <1>9 DEF IInv, AtInv
  <2> QED
    BY <2>1, <2>2
<1>19. AutoInv'
  <2> SUFFICES ASSUME ~shared, NEW v \in Windows, NEW e \in Open(v), ~Loading(v, e)'
               PROVE  Content(auto[e]) \subseteq buf'[v][e].text \union missed'
    BY <1>9, <1>1 DEF AutoInv
  <2>1. ~Loading(v, e)
    BY <1>1, <1>12 DEF Loading
  <2> QED
    BY <2>1, <1>9, <1>11 DEF IInv, AutoInv
<1>20. OfferInv' /\ LockInv'
  BY <1>9, <1>1, SameBuffersKeep
<1>21. BackedInv'
  BY <1>1, <1>7, <1>11, <1>12 DEF IInv, BackedInv, AtInv
<1>22. WrittenInv'
  <2> SUFFICES ASSUME NEW v \in Windows, at'[v].op = "written"
               PROVE  buf'[v][at'[v].doc].text \subseteq Content(file'[at'[v].to])
                        \union Content(backups[at'[v].to]) \union dropped \union missed'
    BY <1>1 DEF WrittenInv
  <2>1. CASE v = w
    BY <2>1, <1>12, <1>4, <1>5, <1>9, <1>7
  <2>2. CASE v # w
    <3>1. at[v].doc \in Open(v) /\ at[v].to \in Paths /\ at[v].op = "written"
      BY <2>2, <1>12 DEF IInv, AtInv
    <3>2. Content(file[at[v].to]) \subseteq Content(file'[at[v].to])
            \union Content(backups[at[v].to]) \union missed
      BY <3>1, <1>7, <1>13
    <3> QED
      BY <2>2, <3>1, <3>2, <1>12, <1>9, <1>11 DEF IInv, WrittenInv
  <2> QED
    BY <2>1, <2>2
<1>23. SeenInv'
  <2> SUFFICES ASSUME NEW v \in Windows, NEW e \in Open(v), buf'[v][e].seen # "unknown"
               PROVE  /\ e \in Paths
                      /\ buf'[v][e].seen = "current" => buf'[v][e].raced
                           \/ file'[e] = {buf'[v][e].base}
    BY <1>9 DEF SeenInv
  <2>1. e \in Paths /\ (buf[v][e].seen = "current" => buf[v][e].raced \/ file[e] = {buf[v][e].base})
    BY <1>10 DEF IInv, SeenInv
  <2> QED
    BY <2>1, <1>10, <1>7
<1>24. \A e \in Docs : (Listed(e) => Listed(e)') /\ (OnOffer(e) => OnOffer(e)')
  BY <1>9, <1>1, SameBuffersKeep
<1>25. FilesStay
  <2> SUFFICES ASSUME NEW e \in Paths, NEW x \in Content(file[e]) \union Content(backups[e])
      PROVE Found(x)'
    BY DEF FilesStay
  <2>1. CASE e # t \/ x \in Content(backups[e])
    BY <2>1, <1>7, <1>1 DEF Found
  <2>2. CASE e = t /\ x \in Content(file[e])
    BY <2>2, <1>13, <1>11, <1>1 DEF Found
  <2> QED
    BY <2>1, <2>2
<1>26. \A x \in saved' \ saved : Found(x)'
  BY <1>11, <1>7 DEF Found
<1>27. FoundInv'
  BY <1>1, <1>11, <1>24, <1>25, <1>26, SameAutos, SameDrafts, FoundFollows DEF IInv, Docs
<1> QED
  BY <1>2, <1>9, <1>14, <1>15, <1>16, <1>17, <1>18, <1>19, <1>20, <1>21, <1>22, <1>23, <1>27 DEF
     IInv, Types

(* The autosave and the draft go: their text is in the file or has been found since. *)
LEMMA FinishSaveStep ==
  ASSUME IInv, NEW w \in Windows, FinishSave(w)
  PROVE  IInv'
<1>1. UNCHANGED <<file, newer, backups, owner, running, edits, budget, saved, dropped>>
  BY DEF FinishSave, disk, counters, history
<1>2. /\ FileOK' /\ BackupsOK' /\ RunningOK' /\ CountersOK'
  BY <1>1, Unchanged
<1>3. PICK t \in Paths : t = at[w].to
  BY DEF FinishSave, IInv, AtInv
<1>4. PICK d \in Open(w) : d = at[w].doc
  BY DEF FinishSave, IInv, AtInv
<1>5. /\ at[w].op = "written" /\ w \in running /\ d \in Docs /\ t \in Docs
      /\ buf[w][d] \in BufferSoFar /\ Open(w) \subseteq Docs
  BY <1>3, <1>4 DEF FinishSave, IInv, AtInv, IdleInv, Idle, Types, RunningOK, BufferOK, Docs
<1>6. Written' = Written /\ Stored' = Stored /\ BufferSoFar' = BufferSoFar
  BY <1>1 DEF Written, Stored, BufferSoFar
<1>7. PICK open \in SUBSET Docs : open = (Open(w) \ {d}) \union {t}
  BY <1>5
<1> DEFINE keeps == t = d /\ buf[w][d].offer = "pending"
<1>8. PICK b \in BufferSoFar :
      /\ buf' = [buf EXCEPT ![w] = [e \in open |-> IF e = t THEN b ELSE buf[w][e]]]
      /\ b.text = buf[w][d].text /\ b.offer = (IF keeps THEN "pending" ELSE "none") /\ ~b.needs /\ ~b.typed /\ ~b.lock
      /\ (b.seen = "current" => b.raced \/ file[t] = {b.base})
  <2>1. PICK q \in BOOLEAN, y \in {"unknown", "current"}, o \in {"none", "pending"} :
          /\ q = (file[t] # {buf[w][d].text})
          /\ y = IF file[t] = {} THEN "unknown" ELSE "current"
          /\ o = IF keeps THEN "pending" ELSE "none"
    BY Zenon
  <2> DEFINE b == [buf[w][d] EXCEPT !.dirty = FALSE, !.needs = FALSE, !.lock = FALSE,
        !.typed = FALSE,
                                   !.seen = y, !.base = buf[w][d].text, !.raced = q,
                                     !.offer = o]
  <2>2. buf' = [buf EXCEPT ![w] = [e \in open |-> IF e = t THEN b ELSE buf[w][e]]]
    <3> DEFINE a == at[w].doc
               c == at[w].to
               kp == c = a /\ buf[w][a].offer = "pending"
               new == [buf[w][a] EXCEPT !.dirty = FALSE, !.needs = FALSE, !.lock = FALSE,
                         !.typed = FALSE,
                         !.seen = IF file[c] = {} THEN "unknown" ELSE "current",
                         !.base = buf[w][a].text, !.raced = file[c] # {buf[w][a].text},
                         !.offer = IF kp THEN "pending" ELSE "none"]
    <3>1. buf' = [buf EXCEPT ![w] = [e \in (Open(w) \ {a}) \union {c} |->
                    IF e = c THEN new ELSE buf[w][e]]]
      BY DEF FinishSave
    <3>2. a = d /\ c = t
      BY <1>3, <1>4
    <3>3. new = b
      <4>1. new = [buf[w][d] EXCEPT !.dirty = FALSE, !.needs = FALSE, !.lock = FALSE,
                         !.typed = FALSE,
                         !.seen = IF file[t] = {} THEN "unknown" ELSE "current",
                         !.base = buf[w][d].text, !.raced = file[t] # {buf[w][d].text},
                         !.offer = IF keeps THEN "pending" ELSE "none"]
        BY <3>2, Zenon
      <4> QED
        BY <4>1, <2>1, Zenon
    <3> HIDE DEF new, b, a, c
    <3>4. buf' = [buf EXCEPT ![w] = [e \in (Open(w) \ {d}) \union {t} |->
                    IF e = t THEN b ELSE buf[w][e]]]
      BY <3>1, <3>2, <3>3, Zenon
    <3> QED
      BY <3>4, <1>7, Zenon
  <2>3. b \in BufferSoFar /\ b.raced = q /\ b.base = buf[w][d].text
    BY <1>5 DEF BufferSoFar
  <2>4. b.text = buf[w][d].text /\ b.offer = o /\ ~b.needs /\ ~b.typed /\ ~b.lock
    BY <1>5 DEF BufferSoFar
  <2> HIDE DEF b
  <2> QED
    BY <2>1, <2>2, <2>3, <2>4
<1>9. /\ Only(w) /\ Open(w)' = open
      /\ DOMAIN buf'[w] = open /\ buf'[w] = [e \in open |-> buf'[w][e]]
      /\ buf'[w][t] = b /\ \A e \in open \ {t} : e \in Open(w) \ {d} /\ buf'[w][e] = buf[w][e]
      /\ \A v \in Windows \ {w} : buf'[v] = buf[v] /\ Open(v)' = Open(v)
  BY <1>8, <1>7 DEF IInv, Types, BufferOK, Only, Open
<1>10. BufferOK'
  <2>1. \A e \in open : buf'[w][e] \in BufferSoFar
    BY <1>9, <1>8 DEF IInv, Types, BufferOK
  <2>2. buf'[w] \in [DOMAIN buf'[w] -> BufferSoFar] /\ DOMAIN buf'[w] \subseteq Docs
    BY <2>1, <1>9, <1>7
  <2> QED
    BY <2>2, <1>9, <1>6, OneWindow DEF IInv, Types
<1>11. at' = [at EXCEPT ![w] = Idle] /\ at'[w] = Idle /\ \A v \in Windows \ {w} : at'[v] = at[v]
  BY DEF FinishSave, IInv, Types, AtOK
<1>12. /\ shared => shared'
       /\ ~shared' => t \notin Open(w) \ {d} /\ \A v \in Windows \ {w} : t \notin Open(v)
       /\ shared' \in BOOLEAN
  <2>1. shared' = (shared \/ Elsewhere(w, {t}) \/ t \in Open(w) \ {d})
    BY <1>3, <1>4 DEF FinishSave
  <2> QED
    BY <2>1, Zenon DEF Elsewhere
<1>13. auto' = [e \in Docs |-> IF (e = t /\ ~keeps) \/ (e = d /\ d \in Drafts) THEN {} ELSE auto[e]]
  BY <1>3, <1>4 DEF FinishSave
<1>14. kept' = [e \in Paths |-> IF e = t /\ t = d /\ buf[w][d].offer = "opened" THEN {} ELSE
   kept[e]]
  BY <1>3, <1>4 DEF FinishSave
<1>15. /\ missed \subseteq missed'
       /\ (t # d => Content(auto[t]) \subseteq missed')
       /\ (t # d /\ buf[w][d].offer = "pending" => Content(kept[d]) \subseteq missed')
       /\ missed' \in Written'
  <2>1. missed' = (missed \union (IF t = d THEN {} ELSE Content(auto[t])))
                    \union (IF t # d /\ buf[w][d].offer = "pending" THEN Content(kept[d]) ELSE {})
    BY <1>3, <1>4 DEF FinishSave
  <2>2. Content(auto[t]) \in Written /\ missed \in Written
    BY <1>5, StoredContent DEF IInv, Types, AutoOK, HistoryOK
  <2>3. buf[w][d].offer = "pending" => Content(kept[d]) \in Written
    BY <1>4, StoredContent DEF IInv, OfferInv, Types, KeptOK
  <2> QED
    BY <2>1, <2>2, <2>3, <1>6 DEF Written
<1>16. /\ \A e \in Docs : auto'[e] = auto[e] \/ auto'[e] = {}
       /\ \A e \in Docs : e = t \/ (e = d /\ d \in Drafts) \/ auto'[e] = auto[e]
       /\ \A e \in Paths : kept'[e] = kept[e] \/ (e = t /\ kept'[e] = {} /\ t = d
            /\ buf[w][d].offer = "opened")
  BY <1>13, <1>14
<1>17. ~shared' => auto'[t] = {} /\ Content(auto'[t]) = {}
  <2>1. ~shared' /\ keeps => auto[t] = {}
    BY <1>4, <1>12 DEF IInv, OfferInv
  <2> QED
    BY <2>1, <1>13, <1>5, <1>16, ContentOf
<1> HIDE DEF keeps
<1>18. SessionOK' /\ OwnerInv' /\ (owner # w => session' = session) /\ (owner = w => session' =
   open /\ session \subseteq Open(w))
  <2>1. SaveSession(w, open)
    BY <1>3, <1>4, <1>7 DEF FinishSave
  <2>2. SessionOK' /\ OwnerInv'
    BY <2>1, <1>7, <1>9, <1>1, SessionSaved
  <2>3. owner = w => session \subseteq Open(w)
    BY NamesAssumption DEF IInv, OwnerInv
  <2> QED
    BY <2>1, <2>2, <2>3 DEF SaveSession
<1>19. AutoOK' /\ KeptOK' /\ AtOK' /\ HistoryOK'
  <2>1. AutoOK'
    BY <1>13, <1>6, <1>1 DEF IInv, Types, AutoOK, Stored
  <2>2. KeptOK'
    BY <1>14, <1>6 DEF IInv, Types, KeptOK, Stored
  <2>3. AtOK'
    BY <1>11 DEF IInv, Types, AtOK, Handlers, Idle
  <2>4. HistoryOK'
    BY <1>15, <1>6, <1>1, <1>12 DEF IInv, Types, HistoryOK
  <2> QED
    BY <2>1, <2>2, <2>3, <2>4
<1>20. IdleInv'
  BY <1>9, <1>1, <1>5, <1>11 DEF IInv, IdleInv
<1>21. AtInv'
  BY <1>9, <1>1, <1>5, <1>11 DEF IInv, AtInv, Idle
<1>22. SharedInv'
  BY <1>9, <1>1, <1>5, <1>12, <1>7 DEF IInv, SharedInv
<1>23. AutoInv'
  <2> SUFFICES ASSUME ~shared', NEW v \in Windows, NEW e \in Open(v)', ~Loading(v, e)'
               PROVE  Content(auto'[e]) \subseteq buf'[v][e].text \union missed'
    BY DEF AutoInv
  <2>1. CASE e = t
    BY <2>1, <1>17
  <2>2. CASE e # t
    <3>1. e \in Open(v) /\ buf'[v][e] = buf[v][e] /\ e \in Docs
      BY <2>2, <1>9 DEF IInv, Types, BufferOK
    <3>2. ~Loading(v, e)
      BY <1>11, <1>5 DEF Loading
    <3>3. auto'[e] = {} \/ auto'[e] = auto[e]
      BY <3>1, <1>16
    <3>4. Content(auto'[e]) \subseteq Content(auto[e])
      BY <3>3, ContentOf
    <3> QED
      BY <3>1, <3>2, <3>4, <1>12, <1>15 DEF IInv, AutoInv
  <2> QED
    BY <2>1, <2>2
<1>24. OfferInv'
  <2> SUFFICES ASSUME NEW v \in Windows, NEW e \in Open(v)', buf'[v][e].offer # "none"
               PROVE  /\ e \in Paths
                      /\ buf'[v][e].offer = "pending" => ~buf'[v][e].needs
                      /\ ~shared' /\ buf'[v][e].offer = "pending" => auto'[e] = {}
                      /\ ~shared' /\ buf'[v][e].offer = "opened" => Content(kept'[e])
                           \subseteq buf'[v][e].text
    BY DEF OfferInv
  <2>1. CASE v = w /\ e = t
    BY <2>1, <1>8, <1>9, <1>17
  <2>2. CASE ~(v = w /\ e = t)
    <3>1. e \in Open(v) /\ buf'[v][e] = buf[v][e] /\ e \in Paths
      BY <2>2, <1>9 DEF IInv, OfferInv
    <3>2. auto[e] = {} => auto'[e] = {}
      BY <3>1, <1>16 DEF Docs
    <3>3. kept'[e] = {} \/ kept'[e] = kept[e]
      BY <3>1, <1>16
    <3>4. Content(kept'[e]) \subseteq Content(kept[e])
      BY <3>3, ContentOf
    <3> QED
      BY <3>1, <3>2, <3>4, <1>12 DEF IInv, OfferInv
  <2> QED
    BY <2>1, <2>2
<1>25. BackedInv'
  BY <1>1, <1>11, <1>15 DEF IInv, BackedInv, Idle
<1>26. WrittenInv'
  BY <1>9, <1>1, <1>11, <1>15 DEF IInv, WrittenInv, Idle
<1>27. LockInv'
  <2>1. \A v \in Windows : \A e \in Open(v)' :
          (e \in Open(v) /\ buf'[v][e] = buf[v][e]) \/ (v = w /\ ~buf'[v][e].typed
            /\ ~buf'[v][e].lock)
    BY <1>9, <1>8
  <2>2. ASSUME NEW v \in Windows, NEW e \in Open(v)' \intersect Paths, buf'[v][e].typed
        PROVE  buf'[v][e].lock
    BY <2>1, <2>2 DEF IInv, LockInv
  <2>3. ASSUME NEW x \in Windows, NEW v \in Windows, x # v, NEW e \in Open(x)' \intersect Open(v)'
        PROVE  ~(buf'[x][e].lock /\ buf'[v][e].lock)
    BY <2>1, <2>3 DEF IInv, LockInv
  <2> QED
    BY <2>2, <2>3 DEF LockInv
<1>28. SeenInv'
  <2> SUFFICES ASSUME NEW v \in Windows, NEW e \in Open(v)', buf'[v][e].seen # "unknown"
               PROVE  /\ e \in Paths
                      /\ buf'[v][e].seen = "current" => buf'[v][e].raced
                           \/ file[e] = {buf'[v][e].base}
    BY <1>1 DEF SeenInv
  <2>1. CASE v = w /\ e = t
    BY <2>1, <1>9, <1>8
  <2>2. CASE ~(v = w /\ e = t)
    <3>1. e \in Open(v) /\ buf'[v][e] = buf[v][e]
      BY <2>2, <1>9
    <3> QED
      BY <3>1 DEF IInv, SeenInv
  <2> QED
    BY <2>1, <2>2
<1>29. \A e \in Docs : Listed(e) => Listed(e)' \/ (e = d /\ d \in Drafts)
  <2>1. ASSUME NEW e \in Docs, Listed(e), e # d PROVE Listed(e)'
    <3>1. CASE e \in Paths
      BY <3>1 DEF Listed
    <3>2. CASE e \in session
      <4>1. e \in session'
        BY <2>1, <3>2, <1>18, <1>7
      <4> QED
        BY <4>1 DEF Listed
    <3>3. CASE \E v \in Windows : e \in Open(v)
      <4>1. PICK v \in Windows : e \in Open(v)
        BY <3>3
      <4>2. e \in Open(v)'
        BY <2>1, <4>1, <1>9, <1>7
      <4> QED
        BY <4>2 DEF Listed
    <3> QED
      BY <2>1, <3>1, <3>2, <3>3 DEF Listed
  <2> QED
    BY <2>1, <1>5 DEF Listed, Docs
<1>30. \A x \in buf[w][d].text : Found(x)'
  <2>1. buf[w][d].text \subseteq Content(file[t]) \union Content(backups[t])
          \union dropped \union missed
    BY <1>5, <1>3, <1>4 DEF IInv, WrittenInv
  <2> QED
    BY <2>1, <1>1, <1>15 DEF Found
<1>31. ~shared' => AutosStay
  <2> SUFFICES ASSUME ~shared', NEW e \in Docs, Listed(e), NEW x \in Content(auto[e])
      PROVE Found(x)'
    BY DEF AutosStay
  <2>1. CASE e = d
    <3>1. x \in buf[w][d].text \union missed
      BY <2>1, <1>12, <1>5 DEF IInv, AutoInv, Loading
    <3> QED
      BY <3>1, <1>30, <1>15 DEF Found
  <2>2. CASE e # d /\ e = t
    BY <2>2, <1>15 DEF Found
  <2>3. CASE e # d /\ e # t
    BY <2>3, <1>29, <1>16 DEF Found
  <2> QED
    BY <2>1, <2>2, <2>3
<1>32. ~shared' => DraftsStay
  <2> SUFFICES ASSUME ~shared', NEW e \in Paths, OnOffer(e), NEW x \in Content(kept[e])
      PROVE Found(x)'
    BY DEF DraftsStay
  <2>1. PICK v \in Windows : e \in Open(v) /\ buf[v][e].offer # "none"
    BY DEF OnOffer
  <2>2. CASE v = w /\ e = d
    <3>1. CASE buf[w][d].offer = "opened"
      <4>1. Content(kept[d]) \subseteq buf[w][d].text
        BY <3>1, <1>12 DEF IInv, OfferInv
      <4> QED
        BY <2>2, <4>1, <1>30
    <3>2. CASE buf[w][d].offer = "pending" /\ t # d
      BY <2>2, <3>2, <1>15 DEF Found
    <3>3. CASE buf[w][d].offer = "pending" /\ t = d
      <4>1. d \in Open(w)' /\ buf'[w][d].offer = "pending" /\ kept'[d] = kept[d]
        BY <2>2, <3>3, <1>8, <1>9, <1>7, <1>16 DEF keeps
      <4> QED
        BY <2>2, <4>1 DEF Found, OnOffer
    <3> QED
      BY <2>1, <2>2, <3>1, <3>2, <3>3, <1>5 DEF BufferSoFar
  <2>3. CASE ~(v = w /\ e = d)
    <3>1. e # t
      BY <2>1, <2>3, <1>12, <1>5
    <3>2. e \in Open(v)' /\ buf'[v][e] = buf[v][e] /\ kept'[e] = kept[e]
      BY <2>1, <2>3, <3>1, <1>9, <1>7, <1>16
    <3>3. OnOffer(e)'
      BY <2>1, <3>2 DEF OnOffer
    <3> QED
      BY <3>2, <3>3 DEF Found
  <2> QED
    BY <2>2, <2>3
<1>33. FoundInv'
  BY <1>1, <1>15, <1>12, <1>31, <1>32, SameFiles, FoundFollows DEF IInv
<1> QED
  BY <1>2, <1>10, <1>18, <1>19, <1>20, <1>21, <1>22, <1>23, <1>24, <1>25, <1>26, <1>27, <1>28,
     <1>33 DEF IInv, Types

-----------------------------------------------------------------------------
(* The theorems.                                                            *)

LEMMA InitHolds == Init => IInv
<1> SUFFICES ASSUME Init PROVE IInv
  OBVIOUS
<1>1. Types
  <2>1. {{}, {{}}} \subseteq Stored /\ {} \in Stored /\ {} \in Written
    BY DEF Stored, Written
  <2>2. FileOK /\ AutoOK /\ KeptOK /\ BackupsOK
    BY <2>1 DEF Init, FileOK, AutoOK, KeptOK, BackupsOK
  <2>3. SessionOK /\ RunningOK /\ HistoryOK
    BY <2>1 DEF Init, SessionOK, RunningOK, HistoryOK
  <2>4. BufferOK
    BY DEF Init, BufferOK, Open
  <2>5. AtOK
    BY DEF Init, AtOK, Handlers, Idle
  <2>6. CountersOK
    BY BoundsAssumption DEF Init, CountersOK
  <2> QED
    BY <2>2, <2>3, <2>4, <2>5, <2>6 DEF Types
<1>2. \A w \in Windows : Open(w) = {} /\ at[w] = Idle
  BY DEF Init, Open
<1>3. IdleInv /\ OwnerInv /\ AtInv /\ SharedInv /\ AutoInv /\ OfferInv
  BY <1>2 DEF Init, IdleInv, OwnerInv, AtInv, SharedInv, AutoInv, OfferInv, Idle
<1>4. BackedInv /\ WrittenInv /\ LockInv /\ SeenInv
  BY <1>2 DEF BackedInv, WrittenInv, LockInv, SeenInv, Idle
<1>5. FoundInv
  BY DEF Init, FoundInv
<1> QED
  BY <1>1, <1>3, <1>4, <1>5 DEF IInv

LEMMA NextKeeps == IInv /\ [Next]_vars => IInv'
<1> SUFFICES ASSUME IInv, [Next]_vars PROVE IInv'
  OBVIOUS
<1>1. CASE UNCHANGED vars
  <2>1. UNCHANGED <<file, auto, newer, kept, backups, session, owner, running, buf, at, edits,
          budget,
                    saved, dropped, missed, shared>>
    BY <1>1 DEF vars, disk, counters, history
  <2>2. /\ FileOK' /\ AutoOK' /\ KeptOK' /\ BackupsOK' /\ SessionOK' /\ RunningOK' /\ BufferOK'
        /\ AtOK' /\ CountersOK' /\ HistoryOK' /\ IdleInv'
    BY <2>1, Unchanged
  <2>3. /\ OwnerInv' /\ AtInv' /\ SharedInv' /\ AutoInv' /\ OfferInv' /\ BackedInv'
        /\ WrittenInv' /\ LockInv' /\ SeenInv' /\ FoundInv'
    BY <2>1, Unchanged
  <2> QED
    BY <2>2, <2>3 DEF IInv, Types
<1>2. ASSUME NEW w \in Windows,
             Start(w) \/ FinishLoad(w) \/ NoteSession(w) \/ WriteFile(w) \/ WriteFileFails(w)
               \/ FinishSave(w) \/ Quit(w) \/ Crash(w) \/ Claim(w)
      PROVE  IInv'
  BY <1>2, StartStep, FinishLoadStep, NoteSessionStep, WriteFileStep, WriteFileFailsStep,
     FinishSaveStep, QuitStep, CrashStep, ClaimStep
<1>3. ASSUME NEW w \in Windows, NEW d \in Docs,
             Visit(w, d) \/ NewDraft(w, d) \/ Type(w, d) \/ OpenRecovery(w, d)
               \/ DiscardRecovery(w, d) \/ Autosave(w, d) \/ Kill(w, d)
      PROVE  IInv'
  BY <1>3, VisitStep, NewDraftStep, TypeStep, OpenRecoveryStep, DiscardRecoveryStep, AutosaveStep,
     KillStep
<1>4. ASSUME NEW w \in Windows, NEW d \in Docs, NEW t \in Paths, NEW over \in BOOLEAN,
             BeginSave(w, d, t, over)
      PROVE  IInv'
  BY <1>4, BeginSaveStep
<1>5. ASSUME NEW t \in Paths, OtherWrites(t) \/ OtherDeletes(t) PROVE IInv'
  BY <1>5, OtherWritesStep, OtherDeletesStep
<1> QED
  BY <1>1, <1>2, <1>3, <1>4, <1>5 DEF Next

THEOREM Invariant == Spec => []IInv
BY InitHolds, NextKeeps, PTL DEF Spec

(* Every variable stays within its type; no stored file has more than one   *)
(* text, and no history an edit that was not made.                          *)
THEOREM TypeCorrect == Spec => []TypeOK
<1>1. IInv => TypeOK
  BY TypesGiveTypeOK DEF IInv
<1> QED
  BY <1>1, Invariant, PTL

(* An edit that has once reached the disk can be come to, but for the ones  *)
(* done away with and the ones the program is known to lose (missed), for   *)
(* any number of windows, files, drafts, crashes and half done saves, as    *)
(* long as no two windows have had one document open.                       *)
THEOREM EditsAreKept == Spec => []NoEditLost
<1>1. IInv => NoEditLost
  BY FoundAll DEF IInv
<1> QED
  BY <1>1, Invariant, PTL

(* Two windows never both have edits of one file that are not saved, with   *)
(* no such proviso: edits are typed under the lock, and it has one owner.   *)
THEOREM EditorsTakeTurns == Spec => []OneEditor
<1>1. IInv => OneEditor
  <2> SUFFICES ASSUME IInv, NEW v \in Windows, NEW w \in Windows, v # w,
                      NEW d \in (Paths \intersect Open(v)) \intersect Open(w)
               PROVE  ~(buf[v][d].typed /\ buf[w][d].typed)
    BY DEF OneEditor
  <2> QED
    BY DEF IInv, LockInv
<1> QED
  BY <1>1, Invariant, PTL

(* A save that begins at the file its buffer shows finds the file it last   *)
(* read or wrote, but for the cases the property names: MaySave refuses a   *)
(* stale revision, and a revision that is current is that of the file       *)
(* (SeenInv).                                                               *)
LEMMA SaveIsNotBlind ==
  ASSUME IInv, [Next]_vars, NEW w \in Windows,
         at[w] = Idle, at'[w].op = "backed", ~at'[w].over, at'[w].doc = at'[w].to
  PROVE  LET d == at'[w].doc IN
         buf[w][d].raced \/ buf[w][d].seen = "unknown" \/ file[d] = {buf[w][d].base}
<1>1. PICK d \in Docs, t \in Paths, over \in BOOLEAN : BeginSave(w, d, t, over)
  <2>1. at \in [Windows -> Handlers] /\ at[w].op = "idle"
    BY DEF IInv, Types, AtOK, Idle
  <2>2. CASE UNCHANGED vars
    BY <2>1, <2>2 DEF vars
  <2>3. ASSUME NEW v \in Windows,
               Start(v) \/ FinishLoad(v) \/ NoteSession(v) \/ WriteFileFails(v)
                 \/ FinishSave(v) \/ Quit(v) \/ Crash(v) \/ Claim(v)
        PROVE  at'[w].op = "idle"
    <3>1. at' = at \/ at' = [at EXCEPT ![v] = Idle]
      BY <2>3 DEF Start, FinishLoad, NoteSession, WriteFileFails, FinishSave, Quit, Crash,
        Leave, Claim
    <3> QED
      BY <3>1, <2>1 DEF Idle
  <2>4. ASSUME NEW v \in Windows, WriteFile(v) PROVE at'[w].op = "idle"
    BY <2>1, <2>4 DEF WriteFile
  <2>5. ASSUME NEW v \in Windows, NEW d \in Docs,
               Visit(v, d) \/ NewDraft(v, d) \/ Type(v, d) \/ OpenRecovery(v, d)
                 \/ DiscardRecovery(v, d) \/ Autosave(v, d) \/ Kill(v, d)
        PROVE  at'[w].op # "backed"
    <3>1. at' = at \/ Enter(v, "loading", d, d, FALSE) \/ Enter(v, "noting", d, d, FALSE)
      BY <2>5 DEF Visit, NewDraft, Type, OpenRecovery, DiscardRecovery, Autosave, Kill
    <3> QED
      BY <3>1, <2>1 DEF Enter
  <2>6. ASSUME NEW v \in Windows, NEW d \in Docs, NEW t \in Paths, NEW over \in BOOLEAN,
               BeginSave(v, d, t, over)
        PROVE  v = w
    BY <2>1, <2>6 DEF BeginSave, Enter
  <2>7. ASSUME NEW t \in Paths, OtherWrites(t) \/ OtherDeletes(t) PROVE at' = at
    BY <2>7 DEF OtherWrites, OtherDeletes
  <2> QED
    BY <2>1, <2>2, <2>3, <2>4, <2>5, <2>6, <2>7 DEF Next
<1>2. at'[w] = [op |-> "backed", doc |-> d, to |-> t, over |-> over]
  BY <1>1 DEF BeginSave, Enter, IInv, Types, AtOK
<1>3. d = t /\ ~over /\ d \notin Drafts /\ d \in Open(w)
  BY <1>1, <1>2, NamesAssumption DEF BeginSave, Asks
<1>4. buf[w][d].seen # "stale"
  BY <1>1, <1>3 DEF BeginSave, Asks, MaySave
<1>5. buf[w][d].seen \in {"unknown", "current", "stale"}
  BY <1>3 DEF IInv, Types, BufferOK, BufferSoFar
<1> QED
  BY <1>2, <1>3, <1>4, <1>5 DEF IInv, SeenInv

THEOREM NoSaveIsBlind == Spec => NoBlindSave
<1>1. IInv /\ [Next]_vars =>
        \A w \in Windows :
          at[w] = Idle /\ at'[w].op = "backed" /\ ~at'[w].over /\ at'[w].doc = at'[w].to =>
            LET d == at'[w].doc IN
            buf[w][d].raced \/ buf[w][d].seen = "unknown" \/ file[d] = {buf[w][d].base}
  BY SaveIsNotBlind
<1> QED
  BY <1>1, Invariant, PTL DEF Spec, NoBlindSave
=============================================================================
