-------------------------- MODULE MediaFilesProofs --------------------------
(***************************************************************************)
(* Theorems about MediaFiles, for any number of requests, names, contents  *)
(* and inodes.                                                             *)
(***************************************************************************)
EXTENDS MediaFiles, SequenceTheorems, TLAPS

-----------------------------------------------------------------------------
(* The invariant.                                                          *)

\* What a writer of content c has written when nobody disturbed it.
Begun(c, n) == [k \in 1..n |-> c]

\* A request has the file or folder in hand that it works on.
HasFile(r) ==
    /\ req[r].pc \in {"write", "process", "folder", "make"} => req[r].todo # <<>>
    /\ req[r].pc = "write" => req[r].at <= Length[HeadContent(r)]

\* An inode that is not torn has one writer, whose chunks it holds, or none and is
\* whole.
Kept(i) ==
    data[i].meant # Torn =>
        /\ \A q, r \in Slot : Writes(q, i) /\ Writes(r, i) => q = r
        /\ \A r \in Slot : Writes(r, i) =>
              /\ HeadContent(r) = data[i].meant
              /\ data[i].bytes = Begun(data[i].meant, req[r].at)
        /\ (\A r \in Slot : ~Writes(r, i)) => data[i].bytes = Whole(data[i].meant)

IInv == TypeOK /\ (\A r \in Slot : HasFile(r)) /\ (\A i \in InUse : Kept(i))

-----------------------------------------------------------------------------
(* What a request is, by its place in its handler.                         *)

LEMMA ByPlace ==
    ASSUME NEW s \in Request
    PROVE  /\ s.pc = "save" \/ s.pc = "process" =>
                 s \in [pc : {"save", "process"}, op : Saver, todo : Seq(Sent)]
           /\ s.pc = "write" =>
                 s \in [pc : {"write"}, op : Saver, todo : Seq(Sent), inode : Inode, at : Nat]
           /\ s.pc = "delete" => s \in [pc : {"delete"}, op : {"delete"}, file : File]
           /\ s.pc = "serve" => s \in [pc : {"serve"}, op : {"serve"}, file : File]
           /\ s.pc = "open" => s \in [pc : {"open"}, op : {"serve"}, file : File, size : Nat]
           /\ s.pc = "read" => s \in [pc : {"read"}, op : {"serve"}, inode : Inode,
                                      size : Nat, got : Bytes]
           /\ s.pc = "folder" \/ s.pc = "make" =>
                 s \in [pc : {"folder", "make"}, op : {"list"}, todo : Seq(Folder)]
           /\ s.pc = "scan" => s \in [pc : {"scan"}, op : {"list"}, todo : Seq(Folder),
                                      shown : SUBSET File]
           /\ s.pc = "names" => s \in [pc : {"names"}, op : {"list"}, todo : Seq(Folder),
                                       shown : SUBSET File, names : SUBSET File]
  BY DEF Request, Idle

LEMMA Typed ==
    ASSUME IInv, NEW r \in Slot
    PROVE  /\ req \in [Slot -> Request] /\ req[r] \in Request
           /\ name \in [File -> Inode \cup {NoInode}] /\ DOMAIN data = InUse
           /\ folders \subseteq Folder
           /\ NoInode \notin Inode /\ InUse \subseteq Inode
           /\ Present \subseteq File /\ \A f \in Present : name[f] \in InUse
           /\ \A i \in InUse : data[i] \in [bytes : Bytes, meant : Content \cup {Torn}]
  BY MediaAssumption DEF IInv, TypeOK, InUse, Present

\* The history variables keep their types in every step.
LEMMA Observed ==
    ASSUME IInv, Observe
    PROVE  calm' \in [Slot -> BOOLEAN] /\ steady' \in [Slot -> SUBSET File]
  <1>1. calm' \in [Slot -> BOOLEAN]
    <2>1. \A r \in Slot : Still(r)' \in BOOLEAN
      BY DEF Still, AtRest
    <2>2. calm \in [Slot -> BOOLEAN]
      BY DEF IInv, TypeOK
    <2>3. \A r \in Slot : ((InHand(r) => calm[r]) /\ Still(r)') \in BOOLEAN
      OBVIOUS
    <2> QED
      BY <2>3 DEF Observe
  <1>2. steady' \in [Slot -> SUBSET File]
    <2>1. Present' \subseteq File
      BY DEF Present
    <2> HIDE DEF Present
    <2> QED
      BY <2>1 DEF Observe
  <1> QED
    BY <1>1, <1>2

-----------------------------------------------------------------------------
(* A step that opens and closes nothing.                                   *)

Becomes(r, s) ==
    /\ s \in Request /\ req' = [req EXCEPT ![r] = s]
    /\ UNCHANGED <<name, data>> /\ folders' \subseteq Folder

Quiet(r, s) ==
    /\ Becomes(r, s)
    /\ s.pc \notin {"read", "write"} /\ req[r].pc \notin {"read", "write"}
    /\ s.pc \in {"process", "folder", "make"} => s.todo # <<>>

LEMMA QuietKeeps ==
    ASSUME IInv, NEW r \in Slot, NEW s, Quiet(r, s), Observe
    PROVE  IInv'
  <1>1. req \in [Slot -> Request] /\ s \in Request /\ name' = name /\ data' = data
    BY Typed DEF Quiet, Becomes
  <1>2. /\ req' \in [Slot -> Request] /\ req'[r] = s
        /\ \A q \in Slot \ {r} : req'[q] = req[q]
    BY <1>1 DEF Quiet, Becomes
  <1>3. \A q \in Slot, i \in Inode : /\ Writes(q, i)' = Writes(q, i)
                                     /\ Reads(q, i)' = Reads(q, i)
    BY <1>2 DEF Quiet, Writes, Reads
  <1>4. InUse' = InUse
    BY <1>1, <1>3 DEF InUse
  <1>5. TypeOK'
    BY <1>1, <1>2, <1>4, Observed DEF IInv, TypeOK, Quiet, Becomes
  <1>6. \A q \in Slot : HasFile(q)'
    BY <1>2 DEF IInv, HasFile, Quiet, HeadContent
  <1>7. ASSUME NEW i \in InUse PROVE Kept(i)'
    <2>1. i \in Inode /\ Kept(i)
      BY Typed, <1>7 DEF IInv, InUse
    <2>2. \A q \in Slot : Writes(q, i) => req'[q] = req[q]
      BY <1>2 DEF Quiet, Writes
    <2> QED
      BY <1>1, <1>3, <2>1, <2>2 DEF Kept, Begun, Whole, HeadContent
  <1> QED
    BY <1>4, <1>5, <1>6, <1>7 DEF IInv

\* What a request becomes that goes on, or ends.
LEMMA Places ==
    /\ Idle \in Request /\ Idle.pc = "idle"
    /\ \A op \in Saver, todo \in Seq(Sent) :
          [pc |-> "save", op |-> op, todo |-> todo] \in Request
    /\ \A op \in Saver \cup {"delete", "list", "serve"}, ok \in BOOLEAN, shown \in SUBSET File :
          [pc |-> "reply", op |-> op, ok |-> ok, shown |-> shown] \in Request
  BY DEF Request, Idle

\* A reply, and the next file of an upload, are quiet for who has no file open.
LEMMA Replies ==
    ASSUME IInv, NEW r \in Slot, NEW ok \in BOOLEAN, NEW shown \in SUBSET File,
           Reply(r, ok, shown), UNCHANGED <<folders, name, data>>,
           req[r].pc \notin {"idle", "read", "write"},
           req[r].op \in Saver \cup {"delete", "list", "serve"}
    PROVE  \E s : Quiet(r, s)
  <1> DEFINE s == [pc |-> "reply", op |-> req[r].op, ok |-> ok, shown |-> shown]
  <1>1. s \in Request
    BY Places
  <1>2. req' = [req EXCEPT ![r] = s]
    BY DEF Reply, Become
  <1>3. s.pc = "reply"
    OBVIOUS
  <1> HIDE DEF s
  <1> QED
    BY <1>1, <1>2, <1>3, Typed DEF Quiet, Becomes

LEMMA Nexts ==
    ASSUME IInv, NEW r \in Slot, NextFile(r), UNCHANGED <<folders, name, data>>,
           req[r].pc \in {"save", "process"}, req[r].todo # <<>>
    PROVE  \E s : Quiet(r, s)
  <1> DEFINE s == [pc |-> "save", op |-> req[r].op, todo |-> Tail(req[r].todo)]
  <1>1. req[r].op \in Saver /\ req[r].todo \in Seq(Sent)
    BY Typed, ByPlace
  <1>2. Tail(req[r].todo) \in Seq(Sent)
    BY <1>1
  <1>3. s \in Request
    BY <1>1, <1>2, Places
  <1>4. req' = [req EXCEPT ![r] = s]
    BY DEF NextFile, Become
  <1>5. s.pc = "save"
    OBVIOUS
  <1> HIDE DEF s
  <1> QED
    BY <1>3, <1>4, <1>5, Typed DEF Quiet, Becomes

-----------------------------------------------------------------------------
(* The actions that are quiet.                                             *)

LEMMA SendQuiet ==
    ASSUME IInv, NEW r \in Slot, Send(r)
    PROVE  \E s : Quiet(r, s)
  <1>1. PICK in \in Inputs :
          req' = [req EXCEPT ![r] =
                    CASE in.op = "list" -> [pc |-> "folder", op |-> "list", todo |-> Folders]
                      [] in.op \in {"delete", "serve"} ->
                           [pc |-> in.op, op |-> in.op, file |-> in.file]
                      [] OTHER -> [pc |-> "save", op |-> in.op, todo |-> in.files]]
    BY DEF Send, Become
  <1>2. UNCHANGED <<name, data>> /\ folders' \subseteq Folder /\ req[r].pc = "idle"
    BY Typed DEF Send, Busy
  <1>3. CASE in.op = "list"
    <2> DEFINE s == [pc |-> "folder", op |-> "list", todo |-> Folders]
    <2>1. req' = [req EXCEPT ![r] = s]
      BY <1>1, <1>3
    <2>2. Folders \in Seq(Folder) /\ Folders # <<>>
      BY DEF Folders, Folder
    <2>3. s \in Request /\ s.pc = "folder" /\ s.todo # <<>>
      BY <2>2 DEF Request
    <2> HIDE DEF s
    <2> QED
      BY <1>2, <2>1, <2>3 DEF Quiet, Becomes
  <1>4. CASE in.op = "delete" \/ in.op = "serve"
    <2> DEFINE s == [pc |-> in.op, op |-> in.op, file |-> in.file]
    <2>1. req' = [req EXCEPT ![r] = s]
      BY <1>1, <1>4
    <2>2. in.file \in File
      BY <1>4 DEF Inputs, Folder
    <2>3. s \in Request /\ (s.pc = "delete" \/ s.pc = "serve")
      BY <1>4, <2>2 DEF Request
    <2> HIDE DEF s
    <2> QED
      BY <1>2, <2>1, <2>3 DEF Quiet, Becomes
  <1>5. CASE in.op \notin {"list", "delete", "serve"}
    <2> DEFINE s == [pc |-> "save", op |-> in.op, todo |-> in.files]
    <2>1. req' = [req EXCEPT ![r] = s]
      BY <1>1, <1>5
    <2>2. in.op \in Saver /\ in.files \in Seq(Sent)
      <3>1. \A n \in Nat : \A t \in [1..n -> Sent] : t \in Seq(Sent)
        BY SeqDef
      <3>2. 0..MaxFiles \subseteq Nat /\ <<>> \in Seq(Sent)
        BY MediaAssumption
      <3> QED
        BY <1>5, <3>1, <3>2 DEF Inputs, Saver
    <2>3. s \in Request /\ s.pc = "save"
      BY <2>2, Places
    <2> HIDE DEF s
    <2> QED
      BY <1>2, <2>1, <2>3 DEF Quiet, Becomes
  <1> QED
    BY <1>3, <1>4, <1>5

LEMMA LoginRequiredQuiet ==
    ASSUME IInv, NEW r \in Slot, LoginRequired(r)
    PROVE  \E s : Quiet(r, s)
  <1>1. PICK op \in Folder \cup {"replace", "delete", "list"} :
          req' = [req EXCEPT ![r] = [pc |-> "reply", op |-> op, ok |-> FALSE, shown |-> {}]]
    BY DEF LoginRequired, Become
  <1> DEFINE s == [pc |-> "reply", op |-> op, ok |-> FALSE, shown |-> {}]
  <1>2. s \in Request /\ s.pc = "reply"
    BY Places DEF Saver
  <1>3. req' = [req EXCEPT ![r] = s]
    BY <1>1
  <1> HIDE DEF s
  <1> QED
    BY <1>2, <1>3, Typed DEF LoginRequired, Busy, Quiet, Becomes

LEMMA AnswerQuiet ==
    ASSUME IInv, NEW r \in Slot, Answer(r)
    PROVE  \E s : Quiet(r, s)
  BY Typed, Places DEF Answer, Become, Quiet, Becomes

LEMMA SaveQuiet ==
    ASSUME IInv, NEW r \in Slot,
           NotAllowed(r) \/ OpenFails(r) \/ Process(r) \/ AllSaved(r) \/ DeleteFails(r)
    PROVE  \E s : Quiet(r, s)
  <1>1. /\ req[r].pc \in {"save", "process"} => req[r].op \in Saver
        /\ req[r].pc = "delete" => req[r].op = "delete"
    BY Typed, ByPlace
  <1>2. req[r].pc = "process" => req[r].todo # <<>>
    BY DEF IInv, HasFile
  <1>3. CASE NotAllowed(r)
    BY <1>3, Nexts DEF NotAllowed, Saving
  <1>4. CASE OpenFails(r)
    BY <1>1, <1>4, Replies DEF OpenFails, AllowedNow, Saving
  <1>5. CASE Process(r)
    BY <1>1, <1>2, <1>5, Nexts, Replies DEF Process
  <1>6. CASE AllSaved(r)
    BY <1>1, <1>6, Replies DEF AllSaved
  <1>7. CASE DeleteFails(r)
    BY <1>1, <1>7, Replies DEF DeleteFails
  <1> QED
    BY <1>3, <1>4, <1>5, <1>6, <1>7

\* The next folder of a list, or the look through them.
LEMMA NextFolders ==
    ASSUME IInv, NEW r \in Slot, NextFolder(r), UNCHANGED <<name, data>>,
           folders' \subseteq Folder, req[r].pc \in {"folder", "make"}
    PROVE  \E s : Quiet(r, s)
  <1>1. /\ req[r] \in [pc : {"folder", "make"}, op : {"list"}, todo : Seq(Folder)]
        /\ req[r].todo # <<>>
    BY Typed, ByPlace DEF IInv, HasFile
  <1>2. Tail(req[r].todo) \in Seq(Folder)
    BY <1>1
  <1>3. CASE Tail(req[r].todo) # <<>>
    <2> DEFINE s == [req[r] EXCEPT !.pc = "folder", !.todo = Tail(@)]
    <2>1. req' = [req EXCEPT ![r] = s]
      BY <1>3 DEF NextFolder, Become
    <2>2. s \in [pc : {"folder", "make"}, op : {"list"}, todo : Seq(Folder)]
      BY <1>1, <1>2
    <2>3. s \in Request /\ s.pc = "folder" /\ s.todo # <<>>
      BY <1>1, <1>3, <2>2 DEF Request
    <2> HIDE DEF s
    <2> QED
      BY <2>1, <2>3 DEF Quiet, Becomes
  <1>4. CASE ~(Tail(req[r].todo) # <<>>)
    <2> DEFINE s == [pc |-> "scan", op |-> "list", todo |-> Folders, shown |-> {}]
    <2>1. req' = [req EXCEPT ![r] = s]
      BY <1>4 DEF NextFolder, Become
    <2>2. Folders \in Seq(Folder)
      BY DEF Folders, Folder
    <2>3. s \in Request /\ s.pc = "scan"
      BY <2>2 DEF Request
    <2> HIDE DEF s
    <2> QED
      BY <2>1, <2>3 DEF Quiet, Becomes
  <1> QED
    BY <1>3, <1>4

LEMMA FolderQuiet ==
    ASSUME IInv, NEW r \in Slot, CheckFolder(r) \/ MakeFolder(r)
    PROVE  \E s : Quiet(r, s)
  <1>1. req[r].pc \in {"folder", "make"}
    BY DEF CheckFolder, MakeFolder
  <1>2. /\ req[r] \in [pc : {"folder", "make"}, op : {"list"}, todo : Seq(Folder)]
        /\ req[r].todo # <<>> /\ folders \subseteq Folder
    BY <1>1, Typed, ByPlace DEF IInv, HasFile
  <1>3. Head(req[r].todo) \in Folder
    BY <1>2
  <1>4. CASE CheckFolder(r) /\ Head(req[r].todo) \in folders
    BY <1>1, <1>2, <1>4, NextFolders DEF CheckFolder
  <1>5. CASE CheckFolder(r) /\ Head(req[r].todo) \notin folders
    <2> DEFINE s == [req[r] EXCEPT !.pc = "make"]
    <2>1. req' = [req EXCEPT ![r] = s] /\ UNCHANGED <<folders, name, data>>
      BY <1>5 DEF CheckFolder, Become
    <2>2. s \in [pc : {"folder", "make"}, op : {"list"}, todo : Seq(Folder)]
      BY <1>2
    <2>3. s \in Request /\ s.pc = "make" /\ s.todo # <<>>
      BY <1>2, <2>2 DEF Request
    <2> HIDE DEF s
    <2> QED
      BY <1>1, <1>2, <2>1, <2>3 DEF Quiet, Becomes
  <1>6. CASE MakeFolder(r) /\ Head(req[r].todo) \in folders
    BY <1>1, <1>2, <1>6, Replies DEF MakeFolder
  <1>7. CASE MakeFolder(r) /\ Head(req[r].todo) \notin folders
    <2>1. NextFolder(r) /\ folders' = folders \cup {Head(req[r].todo)}
          /\ UNCHANGED <<name, data>>
      BY <1>7 DEF MakeFolder
    <2> QED
      BY <1>1, <1>2, <1>3, <2>1, NextFolders
  <1> QED
    BY <1>4, <1>5, <1>6, <1>7

LEMMA ScanQuiet ==
    ASSUME IInv, NEW r \in Slot, ListFolder(r) \/ CheckName(r) \/ Listed(r)
    PROVE  \E s : Quiet(r, s)
  <1>1. req[r].pc \in {"scan", "names"} /\ UNCHANGED <<folders, name, data>>
    BY DEF ListFolder, CheckName, Listed
  <1>2. /\ req[r].pc = "scan" =>
              req[r] \in [pc : {"scan"}, op : {"list"}, todo : Seq(Folder), shown : SUBSET File]
        /\ req[r].pc = "names" =>
              req[r] \in [pc : {"names"}, op : {"list"}, todo : Seq(Folder),
                          shown : SUBSET File, names : SUBSET File]
        /\ folders \subseteq Folder /\ Present \subseteq File
    BY Typed, ByPlace
  <1>3. CASE ListFolder(r)
    <2> DEFINE s == [pc |-> "names", op |-> "list", todo |-> Tail(req[r].todo),
                     shown |-> req[r].shown, names |-> NamesIn(Head(req[r].todo))]
    <2>1. req' = [req EXCEPT ![r] = s]
      BY <1>3 DEF ListFolder, Become
    <2>2. /\ req[r].todo \in Seq(Folder) /\ req[r].todo # <<>>
          /\ req[r].shown \in SUBSET File
      BY <1>2, <1>3 DEF ListFolder
    <2>3. Tail(req[r].todo) \in Seq(Folder) /\ NamesIn(Head(req[r].todo)) \in SUBSET File
      BY <1>2, <2>2 DEF NamesIn
    <2>4. s \in Request /\ s.pc = "names"
      BY <2>2, <2>3 DEF Request
    <2> HIDE DEF s
    <2> QED
      BY <1>1, <1>2, <2>1, <2>4 DEF Quiet, Becomes
  <1>4. CASE CheckName(r) /\ \E f \in req[r].names :
               req' = [req EXCEPT ![r].names = @ \ {f}, ![r].shown = @ \cup ({f} \cap Present)]
    <2>1. PICK f \in req[r].names :
            req' = [req EXCEPT ![r].names = @ \ {f}, ![r].shown = @ \cup ({f} \cap Present)]
      BY <1>4
    <2> DEFINE s == [req[r] EXCEPT !.names = @ \ {f}, !.shown = @ \cup ({f} \cap Present)]
    <2>2. req[r] \in [pc : {"names"}, op : {"list"}, todo : Seq(Folder),
                      shown : SUBSET File, names : SUBSET File]
      BY <1>2, <1>4 DEF CheckName
    <2>3. req' = [req EXCEPT ![r] = s]
      BY <2>1, <2>2, Typed
    <2>4. s \in [pc : {"names"}, op : {"list"}, todo : Seq(Folder),
                 shown : SUBSET File, names : SUBSET File]
      BY <1>2, <2>2
    <2>5. s \in Request /\ s.pc = "names"
      BY <2>4 DEF Request
    <2> HIDE DEF s
    <2> QED
      BY <1>1, <1>2, <2>3, <2>5 DEF Quiet, Becomes
  <1>5. CASE CheckName(r) /\ Become(r, [pc |-> "scan", op |-> "list", todo |-> req[r].todo,
                                        shown |-> req[r].shown])
    <2> DEFINE s == [pc |-> "scan", op |-> "list", todo |-> req[r].todo, shown |-> req[r].shown]
    <2>1. req' = [req EXCEPT ![r] = s]
      BY <1>5 DEF Become
    <2>2. s \in Request /\ s.pc = "scan"
      BY <1>2, <1>5 DEF CheckName, Request
    <2> HIDE DEF s
    <2> QED
      BY <1>1, <1>2, <2>1, <2>2 DEF Quiet, Becomes
  <1>6. CASE Listed(r)
    BY <1>1, <1>2, <1>6, Replies DEF Listed
  <1> QED
    BY <1>3, <1>4, <1>5, <1>6 DEF CheckName

LEMMA ServeQuiet ==
    ASSUME IInv, NEW r \in Slot,
           Stat(r) \/ (OpenToRead(r) /\ req[r].file \notin Present)
    PROVE  \E s : Quiet(r, s)
  <1>1. /\ req[r].pc \in {"serve", "open"} /\ UNCHANGED <<folders, name, data>>
        /\ req[r].op = "serve" /\ req[r].file \in File /\ folders \subseteq Folder
    BY Typed, ByPlace DEF Stat, OpenToRead
  <1>2. CASE req[r].file \notin Present
    BY <1>1, <1>2, Replies DEF Stat, OpenToRead
  <1>3. CASE Stat(r) /\ req[r].file \in Present
    <2> DEFINE f == req[r].file
               s == [pc |-> "open", op |-> "serve", file |-> f,
                     size |-> Len(data[name[f]].bytes)]
    <2>1. req' = [req EXCEPT ![r] = s]
      BY <1>3 DEF Stat, Become
    <2>2. data[name[f]].bytes \in Bytes
      BY <1>3, Typed
    <2>3. Len(data[name[f]].bytes) \in Nat
      BY <2>2, LenProperties DEF Bytes
    <2>4. s \in Request /\ s.pc = "open"
      BY <1>1, <2>3 DEF Request
    <2> HIDE DEF s
    <2> QED
      BY <1>1, <1>3, <2>1, <2>4 DEF Quiet, Becomes, Stat
  <1> QED
    BY <1>2, <1>3

-----------------------------------------------------------------------------
(* The steps that read, and the ones that let an inode go.                 *)

LEMMA ReadingKeeps ==
    ASSUME IInv, NEW r \in Slot, NEW s, Becomes(r, s), Observe, s.pc = "read",
           \/ req[r].pc = "open" /\ s.inode \in InUse
           \/ req[r].pc = "read" /\ s.inode = req[r].inode
    PROVE  IInv'
  <1>1. req \in [Slot -> Request] /\ s \in Request /\ name' = name /\ data' = data
    BY Typed DEF Becomes
  <1>2. /\ req' \in [Slot -> Request] /\ req'[r] = s
        /\ \A q \in Slot \ {r} : req'[q] = req[q]
    BY <1>1 DEF Becomes
  <1>3. \A q \in Slot, i \in Inode : /\ Writes(q, i)' = Writes(q, i)
                                     /\ Writes(q, i) => req'[q] = req[q]
    BY <1>2 DEF Writes
  <1>4. InUse' = InUse
    <2>1. \A q \in Slot \ {r}, i \in Inode : Reads(q, i)' = Reads(q, i)
      BY <1>2 DEF Reads
    <2>2. \A i \in Inode : Reads(r, i)' <=> s.inode = i
      BY <1>2 DEF Reads
    <2>3. \A i \in Inode : Reads(r, i) => Reads(r, i)'
      BY <1>2 DEF Reads
    <2>4. s.inode \in InUse
      <3>1. CASE req[r].pc = "read"
        BY <3>1, Typed, ByPlace DEF InUse, Reads
      <3> QED
        BY <3>1
    <2>5. InUse' \subseteq InUse
      BY <1>1, <1>3, <2>1, <2>2, <2>4 DEF InUse
    <2>6. InUse \subseteq InUse'
      BY <1>1, <1>3, <2>1, <2>3 DEF InUse
    <2> QED
      BY <2>5, <2>6
  <1>5. TypeOK'
    BY <1>1, <1>2, <1>4, Observed DEF IInv, TypeOK, Becomes
  <1>6. \A q \in Slot : HasFile(q)'
    BY <1>2 DEF IInv, HasFile, HeadContent
  <1>7. ASSUME NEW i \in InUse PROVE Kept(i)'
    <2>1. i \in Inode /\ Kept(i)
      BY Typed, <1>7 DEF IInv, InUse
    <2> QED
      BY <1>1, <1>3, <2>1 DEF Kept, Begun, Whole, HeadContent
  <1> QED
    BY <1>4, <1>5, <1>6, <1>7 DEF IInv

\* A reader opens what a name leads to, and reads what the inode holds.
LEMMA OpenToReadKeeps ==
    ASSUME IInv, NEW r \in Slot, OpenToRead(r), req[r].file \in Present, Observe
    PROVE  IInv'
  <1> DEFINE s == [pc |-> "read", op |-> "serve", inode |-> name[req[r].file],
                   size |-> req[r].size, got |-> <<>>]
  <1>1. req' = [req EXCEPT ![r] = s] /\ UNCHANGED <<folders, name, data>> /\ req[r].pc = "open"
    BY DEF OpenToRead, Become
  <1>2. /\ req[r].size \in Nat /\ name[req[r].file] \in InUse
        /\ folders \subseteq Folder /\ InUse \subseteq Inode
    BY <1>1, Typed, ByPlace
  <1>3. <<>> \in Bytes
    BY DEF Bytes
  <1>4. s \in Request /\ s.pc = "read" /\ s.inode \in InUse
    BY <1>2, <1>3 DEF Request
  <1> HIDE DEF s
  <1> QED
    BY <1>1, <1>2, <1>4, ReadingKeeps DEF Becomes

LEMMA ReadChunkKeeps ==
    ASSUME IInv, NEW r \in Slot, ReadChunk(r), Observe
    PROVE  IInv'
  <1> DEFINE b == data[req[r].inode].bytes
             g == req[r].got
             s == [req[r] EXCEPT !.got = Append(g, b[Len(g) + 1])]
  <1>1. /\ req[r].pc = "read" /\ UNCHANGED <<folders, name, data>>
        /\ req' = [req EXCEPT ![r].got = Append(g, b[Len(g) + 1])]
        /\ Len(g) < Len(b)
    BY DEF ReadChunk, MoreToRead
  <1>2. /\ req[r] \in [pc : {"read"}, op : {"serve"}, inode : Inode, size : Nat, got : Bytes]
        /\ folders \subseteq Folder
    BY <1>1, Typed, ByPlace
  <1>3. req[r].inode \in InUse
    BY <1>1, <1>2 DEF InUse, Reads
  <1>4. b \in Bytes /\ g \in Bytes
    BY <1>2, <1>3, Typed
  <1>5. b[Len(g) + 1] \in Content \cup {Hole}
    BY <1>1, <1>4, LenProperties, ElementOfSeq DEF Bytes
  <1>6. Append(g, b[Len(g) + 1]) \in Bytes
    BY <1>4, <1>5, AppendProperties DEF Bytes
  <1>7. req' = [req EXCEPT ![r] = s]
    BY <1>1, <1>2, Typed
  <1>8. s \in [pc : {"read"}, op : {"serve"}, inode : Inode, size : Nat, got : Bytes]
    BY <1>2, <1>6
  <1>9. s \in Request /\ s.pc = "read" /\ s.inode = req[r].inode
    BY <1>2, <1>8 DEF Request
  <1> HIDE DEF s
  <1> QED
    BY <1>1, <1>2, <1>7, <1>9, ReadingKeeps DEF Becomes

\* A step after which an inode may be free: no writer leaves before its last chunk.
Releases(r, s) ==
    /\ s \in Request /\ req' = [req EXCEPT ![r] = s]
    /\ s.pc \notin {"read", "write"}
    /\ s.pc \in {"process", "folder", "make"} => s.todo # <<>>
    /\ req[r].pc = "write" => req[r].at = Length[HeadContent(r)]
    /\ name' \in [File -> Inode \cup {NoInode}]
    /\ \A f \in File : name'[f] \in {name[f], NoInode}
    /\ folders' = folders
    /\ data' = [j \in InUse' |-> data[j]]

LEMMA ReleaseKeeps ==
    ASSUME IInv, NEW r \in Slot, NEW s, Releases(r, s), Observe
    PROVE  IInv'
  <1>1. /\ req' \in [Slot -> Request] /\ req'[r] = s
        /\ \A q \in Slot \ {r} : req'[q] = req[q]
    BY Typed DEF Releases
  <1>2. \A q \in Slot, i \in Inode : /\ Writes(q, i)' => q # r /\ Writes(q, i) /\ req'[q] = req[q]
                                     /\ Reads(q, i)' => Reads(q, i)
                                     /\ Writes(q, i) /\ q # r => Writes(q, i)'
    BY <1>1 DEF Releases, Writes, Reads
  <1>3. InUse' \subseteq InUse
    BY <1>2, MediaAssumption DEF InUse, Releases
  <1>4. DOMAIN data' = InUse' /\ \A i \in InUse' : data'[i] = data[i]
    BY DEF Releases
  <1>5. TypeOK'
    BY <1>1, <1>3, <1>4, Observed DEF IInv, TypeOK, Releases
  <1>6. \A q \in Slot : HasFile(q)'
    BY <1>1 DEF IInv, HasFile, HeadContent, Releases
  <1>7. ASSUME NEW i \in InUse' PROVE Kept(i)'
    <2>1. i \in Inode /\ i \in InUse /\ Kept(i) /\ data'[i] = data[i]
      BY Typed, <1>3, <1>4, <1>7 DEF IInv, InUse
    <2>2. CASE Writes(r, i) /\ data[i].meant # Torn
      <3>1. \A q \in Slot : ~Writes(q, i)'
        BY <1>2, <2>1, <2>2 DEF Kept
      <3>2. data[i].bytes = Whole(data[i].meant)
        <4>1. HeadContent(r) = data[i].meant /\ data[i].bytes = Begun(data[i].meant, req[r].at)
          BY <2>1, <2>2 DEF Kept
        <4>2. req[r].at = Length[HeadContent(r)]
          BY <2>2 DEF Releases, Writes
        <4> QED
          BY <4>1, <4>2 DEF Begun, Whole
      <3> QED
        BY <2>1, <3>1, <3>2 DEF Kept, Whole
    <2>3. CASE ~Writes(r, i) /\ data[i].meant # Torn
      <3>1. \A q \in Slot : Writes(q, i)' = Writes(q, i)
        BY <1>2, <2>1, <2>3 DEF Writes
      <3> QED
        BY <1>2, <2>1, <3>1 DEF Kept, Begun, Whole, HeadContent
    <2>4. CASE data[i].meant = Torn
      BY <2>1, <2>4 DEF Kept
    <2> QED
      BY <2>2, <2>3, <2>4
  <1> QED
    BY <1>5, <1>6, <1>7 DEF IInv

LEMMA FreedOnly ==
    ASSUME IInv, InUse' \subseteq InUse, Collect(NoInode, {})
    PROVE  data' = [j \in InUse' |-> data[j]]
  <1>1. \A j \in InUse' : j # NoInode
    BY MediaAssumption DEF InUse
  <1>2. data' = [j \in InUse' |-> IF j = NoInode THEN {} ELSE data[j]]
    BY DEF Collect
  <1> QED
    BY <1>1, <1>2

LEMMA CloseKeeps ==
    ASSUME IInv, NEW r \in Slot, Close(r), Observe
    PROVE  IInv'
  <1>1. /\ req[r].pc = "write" /\ req[r].at = Length[HeadContent(r)]
        /\ UNCHANGED <<folders, name>> /\ Collect(NoInode, {})
    BY DEF Close, Written
  <1>2. /\ req[r].op \in Saver /\ req[r].todo \in Seq(Sent) /\ req[r].todo # <<>>
        /\ Tail(req[r].todo) \in Seq(Sent)
    BY <1>1, Typed, ByPlace DEF IInv, HasFile
  <1>3. PICK s \in Request :
          /\ req' = [req EXCEPT ![r] = s] /\ s.pc \in {"process", "save"}
          /\ s.pc = "process" => s.todo # <<>>
    <2>1. CASE req[r].op = "text"
      <3> DEFINE s == [pc |-> "process", op |-> "text", todo |-> req[r].todo]
      <3>1. s \in Request
        BY <1>2 DEF Request, Saver, Folder
      <3> QED
        BY <1>2, <2>1, <3>1 DEF Close, Become
    <2>2. CASE req[r].op # "text"
      <3> DEFINE s == [pc |-> "save", op |-> req[r].op, todo |-> Tail(req[r].todo)]
      <3>1. s \in Request
        BY <1>2, Places
      <3> QED
        BY <2>2, <3>1 DEF Close, NextFile, Become
    <2> QED
      BY <2>1, <2>2
  <1>4. InUse' \subseteq InUse
    BY <1>1, <1>3, Typed DEF InUse, Writes, Reads
  <1>5. data' = [j \in InUse' |-> data[j]]
    BY <1>1, <1>4, FreedOnly
  <1> QED
    BY <1>1, <1>3, <1>5, Typed, ReleaseKeeps DEF Releases

LEMMA EndOfFileKeeps ==
    ASSUME IInv, NEW r \in Slot, EndOfFile(r), Observe
    PROVE  IInv'
  <1> DEFINE s == [pc |-> "served", op |-> "serve", got |-> req[r].got]
  <1>1. /\ req[r].pc = "read" /\ req' = [req EXCEPT ![r] = s]
        /\ UNCHANGED <<folders, name>> /\ Collect(NoInode, {})
    BY DEF EndOfFile, Become
  <1>2. req[r].got \in Bytes
    BY <1>1, Typed, ByPlace
  <1>3. s \in Request /\ s.pc = "served"
    BY <1>2 DEF Request
  <1> HIDE DEF s
  <1>4. InUse' \subseteq InUse
    BY <1>1, <1>3, Typed DEF InUse, Writes, Reads
  <1>5. data' = [j \in InUse' |-> data[j]]
    BY <1>1, <1>4, FreedOnly
  <1> QED
    BY <1>1, <1>3, <1>5, Typed, ReleaseKeeps DEF Releases

LEMMA DeleteKeeps ==
    ASSUME IInv, NEW r \in Slot, Delete(r), Observe
    PROVE  IInv'
  <1> DEFINE s == [pc |-> "reply", op |-> req[r].op, ok |-> req[r].file \in Present,
                   shown |-> {}]
  <1>1. /\ req[r].pc = "delete" /\ req' = [req EXCEPT ![r] = s]
        /\ name' = [name EXCEPT ![req[r].file] = NoInode]
        /\ folders' = folders /\ Collect(NoInode, {})
    BY DEF Delete, Reply, Become
  <1>2. req[r].op = "delete" /\ req[r].file \in File
    BY <1>1, Typed, ByPlace
  <1>3. s \in Request /\ s.pc = "reply"
    BY <1>2 DEF Request
  <1> HIDE DEF s
  <1>4. /\ name' \in [File -> Inode \cup {NoInode}]
        /\ \A f \in File : name'[f] \in {name[f], NoInode}
    BY <1>1, <1>2, Typed
  <1>5. InUse' \subseteq InUse
    BY <1>1, <1>3, <1>4, Typed DEF InUse, Writes, Reads
  <1>6. data' = [j \in InUse' |-> data[j]]
    BY <1>1, <1>5, FreedOnly
  <1> QED
    BY <1>1, <1>3, <1>4, <1>6, ReleaseKeeps DEF Releases

-----------------------------------------------------------------------------
(* The steps that write.                                                   *)

LEMMA WriteFailsKeeps ==
    ASSUME IInv, NEW r \in Slot, WriteFails(r), Observe
    PROVE  IInv'
  <1> DEFINE s == [pc |-> "reply", op |-> req[r].op, ok |-> FALSE, shown |-> {}]
             w == req[r].inode
  <1>1. /\ req[r].pc = "write" /\ req' = [req EXCEPT ![r] = s]
        /\ UNCHANGED <<folders, name>>
        /\ data' = [j \in InUse' |-> IF j = w THEN [data[w] EXCEPT !.meant = Torn] ELSE data[j]]
    BY DEF WriteFails, Reply, Become, Collect
  <1>2. req[r].op \in Saver /\ w \in Inode /\ w \in InUse
    BY <1>1, Typed, ByPlace DEF InUse, Writes
  <1>3. s \in Request /\ s.pc = "reply"
    BY <1>2, Places
  <1> HIDE DEF s
  <1>4. /\ req' \in [Slot -> Request] /\ req'[r] = s
        /\ \A q \in Slot \ {r} : req'[q] = req[q]
    BY <1>1, <1>3, Typed
  <1>5. \A q \in Slot, i \in Inode : /\ Writes(q, i)' => Writes(q, i)
                                     /\ Reads(q, i)' => Reads(q, i)
    BY <1>3, <1>4 DEF Writes, Reads
  <1>6. InUse' \subseteq InUse
    <2>1. name' = name
      BY <1>1
    <2> QED
      BY <1>5, <2>1 DEF InUse
  <1>7. TypeOK'
    <2>1. ASSUME NEW i \in InUse'
          PROVE  data'[i] \in [bytes : Bytes, meant : Content \cup {Torn}]
      BY <1>1, <1>2, <1>6, <2>1, Typed
    <2> QED
      BY <1>1, <1>4, <2>1, Observed DEF IInv, TypeOK
  <1>8. \A q \in Slot : HasFile(q)'
    BY <1>3, <1>4 DEF IInv, HasFile, HeadContent
  <1>9. ASSUME NEW i \in InUse' PROVE Kept(i)'
    <2>1. i \in Inode /\ Kept(i)
      BY Typed, <1>6, <1>9 DEF IInv, InUse
    <2>2. CASE i = w
      <3>1. data'[i].meant = Torn
        BY <1>1, <1>2, <1>9, <2>2, Typed
      <3> QED
        BY <3>1 DEF Kept
    <2>3. CASE i # w
      <3>1. data'[i] = data[i]
        BY <1>1, <1>9, <2>3
      <3> QED
        <4>1. \A q \in Slot : /\ Writes(q, i)' = Writes(q, i)
                              /\ Writes(q, i) => req'[q] = req[q]
          BY <1>1, <1>3, <1>4, <2>3 DEF Writes
        <4> HIDE DEF w
        <4> QED
          BY <2>1, <3>1, <4>1 DEF Kept, Begun, Whole, HeadContent
    <2> QED
      BY <2>2, <2>3
  <1> QED
    BY <1>7, <1>8, <1>9 DEF IInv

\* An inode with one writer, whose chunks it holds.
LEMMA KeptByOne ==
    ASSUME NEW i, NEW r \in Slot, NEW c, NEW n,
           data'[i].meant = c, data'[i].bytes = Begun(c, n),
           HeadContent(r)' = c, req'[r].at = n, \A q \in Slot : Writes(q, i)' <=> q = r
    PROVE  Kept(i)'
  BY DEF Kept, Begun

LEMMA PutIsBytes ==
    ASSUME NEW b \in Bytes, NEW k \in Nat \ {0}, NEW c \in Content
    PROVE  Put(b, k, c) \in Bytes
  <1> DEFINE n == IF k > Len(b) THEN k ELSE Len(b)
  <1>1. Len(b) \in Nat /\ \A j \in 1..Len(b) : b[j] \in Content \cup {Hole}
    BY LenProperties, ElementOfSeq DEF Bytes
  <1>2. n \in Nat
    BY <1>1
  <1>3. Put(b, k, c) \in [1..n -> Content \cup {Hole}]
    <2>1. Put(b, k, c) = [j \in 1..n |->
                            IF j = k THEN c ELSE IF j <= Len(b) THEN b[j] ELSE Hole]
      BY DEF Put
    <2>2. \A j \in 1..n : (IF j = k THEN c ELSE IF j <= Len(b) THEN b[j] ELSE Hole)
                             \in Content \cup {Hole}
      BY <1>1
    <2> QED
      BY <2>1, <2>2
  <1> HIDE DEF n
  <1> QED
    BY <1>2, <1>3, SeqDef DEF Bytes

LEMMA PutGoesOn ==
    ASSUME NEW c, NEW n \in Nat
    PROVE  Put(Begun(c, n), n + 1, c) = Begun(c, n + 1)
  <1>1. Begun(c, n) = [k \in 1..n |-> c]
    BY DEF Begun
  <1>2. Len(Begun(c, n)) = n
    BY <1>1
  <1>3. Put(Begun(c, n), n + 1, c)
          = [j \in 1..(n + 1) |-> IF j = n + 1 THEN c
                                 ELSE IF j <= n THEN Begun(c, n)[j] ELSE Hole]
    BY <1>2 DEF Put
  <1>4. \A j \in 1..(n + 1) :
          (IF j = n + 1 THEN c ELSE IF j <= n THEN Begun(c, n)[j] ELSE Hole) = c
    BY <1>1
  <1> QED
    BY <1>3, <1>4 DEF Begun

LEMMA WriteChunkKeeps ==
    ASSUME IInv, NEW r \in Slot, WriteChunk(r), Observe
    PROVE  IInv'
  <1> DEFINE w == req[r].inode
             c == HeadContent(r)
             n == req[r].at
             s == [req[r] EXCEPT !.at = n + 1]
  <1>1. /\ req[r].pc = "write" /\ n < Length[c]
        /\ req' = [req EXCEPT ![r].at = n + 1]
        /\ data' = [data EXCEPT ![w].bytes = Put(@, n + 1, c)]
        /\ UNCHANGED <<folders, name>>
    BY DEF WriteChunk
  <1>2. req[r] \in [pc : {"write"}, op : Saver, todo : Seq(Sent), inode : Inode, at : Nat]
    BY <1>1, Typed, ByPlace
  <1>3. w \in Inode /\ w \in InUse
    BY <1>1, <1>2 DEF InUse, Writes
  <1>4. req[r].todo # <<>> /\ c \in Content /\ Length[c] \in Nat
    <2>1. req[r].todo \in Seq(Sent) /\ req[r].todo # <<>>
      BY <1>1, <1>2 DEF IInv, HasFile
    <2>2. Head(req[r].todo) \in Sent
      BY <2>1
    <2> QED
      BY <2>1, <2>2, MediaAssumption DEF HeadContent, Sent
  <1>5. s \in Request /\ s.pc = "write" /\ s.inode = w /\ s.todo = req[r].todo /\ s.at = n + 1
    <2>1. s \in [pc : {"write"}, op : Saver, todo : Seq(Sent), inode : Inode, at : Nat]
      BY <1>2
    <2> QED
      BY <1>2, <2>1 DEF Request
  <1>6. req' = [req EXCEPT ![r] = s]
    BY <1>1, <1>2, Typed
  <1> HIDE DEF s
  <1>7. /\ req' \in [Slot -> Request] /\ req'[r] = s
        /\ \A q \in Slot \ {r} : req'[q] = req[q]
    BY <1>5, <1>6, Typed
  <1>8. \A q \in Slot, i \in Inode : Writes(q, i)' = Writes(q, i) /\ Reads(q, i)' = Reads(q, i)
    BY <1>1, <1>5, <1>7 DEF Writes, Reads
  <1>9. InUse' = InUse
    BY <1>1, <1>8 DEF InUse
  <1>10. /\ DOMAIN data' = InUse
         /\ \A i \in InUse \ {w} : data'[i] = data[i]
         /\ data'[w] = [data[w] EXCEPT !.bytes = Put(data[w].bytes, n + 1, c)]
         /\ data[w] \in [bytes : Bytes, meant : Content \cup {Torn}]
    BY <1>1, <1>3, Typed
  <1>11. Put(data[w].bytes, n + 1, c) \in Bytes
    <2>1. data[w].bytes \in Bytes /\ n + 1 \in Nat \ {0} /\ c \in Content
      BY <1>2, <1>4, <1>10
    <2> HIDE DEF c, n, w
    <2> QED
      BY <2>1, PutIsBytes
  <1>12. /\ data'[w] \in [bytes : Bytes, meant : Content \cup {Torn}]
         /\ data'[w].meant = data[w].meant /\ data'[w].bytes = Put(data[w].bytes, n + 1, c)
    BY <1>10, <1>11
  <1>13. TypeOK'
    <2>1. \A i \in InUse' : data'[i] \in [bytes : Bytes, meant : Content \cup {Torn}]
      BY <1>9, <1>10, <1>12, Typed
    <2> QED
      BY <1>1, <1>7, <1>9, <1>10, <2>1, Observed DEF IInv, TypeOK
  <1>14. \A q \in Slot : HasFile(q)'
    BY <1>1, <1>2, <1>4, <1>5, <1>7 DEF IInv, HasFile, HeadContent
  <1>15. ASSUME NEW i \in InUse' PROVE Kept(i)'
    <2>1. i \in Inode /\ Kept(i)
      BY Typed, <1>9, <1>15 DEF IInv, InUse
    <2>2. CASE i = w /\ data[w].meant # Torn
      <3>1. Writes(r, i)
        BY <1>1, <2>2 DEF Writes
      <3>2. /\ \A q \in Slot : Writes(q, i) => q = r
            /\ c = data[w].meant /\ data[w].bytes = Begun(c, n)
        BY <2>1, <2>2, <3>1 DEF Kept
      <3>3. data'[w].bytes = Begun(c, n + 1)
        BY <1>2, <1>12, <3>2, PutGoesOn
      <3>4. HeadContent(r)' = c /\ req'[r].at = n + 1
        BY <1>5, <1>7 DEF HeadContent
      <3>5. \A q \in Slot : Writes(q, i)' <=> q = r
        BY <1>8, <2>1, <3>1, <3>2
      <3>6. data'[i].meant = c /\ data'[i].bytes = Begun(c, n + 1)
        BY <1>12, <2>2, <3>2, <3>3
      <3> HIDE DEF c, n
      <3> QED
        BY <3>4, <3>5, <3>6, KeptByOne
    <2>3. CASE i = w /\ data[w].meant = Torn
      BY <1>12, <2>3 DEF Kept
    <2>4. CASE i # w
      <3>1. data'[i] = data[i]
        BY <1>9, <1>10, <1>15, <2>4
      <3>2. \A q \in Slot : Writes(q, i) => q # r /\ req'[q] = req[q]
        BY <1>7, <2>4 DEF Writes
      <3> QED
        BY <1>8, <2>1, <3>1, <3>2 DEF Kept, Begun, Whole, HeadContent
    <2> QED
      BY <2>2, <2>3, <2>4
  <1> QED
    BY <1>13, <1>14, <1>15 DEF IInv

LEMMA OpenKeeps ==
    ASSUME IInv, NEW r \in Slot, Open(r), Observe
    PROVE  IInv'
  <1> DEFINE f == HeadFile(r)
             c == HeadContent(r)
             w == IF f \in Present THEN name[f] ELSE CHOOSE j \in Inode : j \notin DOMAIN data
             d == [bytes |-> Opened(w),
                   meant |-> IF \E q \in Slot : Writes(q, w) THEN Torn ELSE c]
             s == [pc |-> "write", op |-> req[r].op, todo |-> req[r].todo, inode |-> w, at |-> 0]
  <1>1. /\ req[r].pc = "save" /\ req[r].todo # <<>>
        /\ f \in Present \/ Inode \ DOMAIN data # {}
        /\ name' = [name EXCEPT ![f] = w] /\ req' = [req EXCEPT ![r] = s]
        /\ data' = [j \in InUse' |-> IF j = w THEN d ELSE data[j]]
        /\ folders' = folders
    BY DEF Open, AllowedNow, Saving, Become, Collect
  <1>2. req[r].op \in Saver /\ req[r].todo \in Seq(Sent) /\ f \in File /\ c \in Content
    <2>1. req[r] \in [pc : {"save", "process"}, op : Saver, todo : Seq(Sent)]
      BY <1>1, Typed, ByPlace
    <2>2. Head(req[r].todo) \in Sent
      BY <1>1, <2>1
    <2> QED
      BY <2>1, <2>2 DEF HeadFile, HeadContent, Sent
  <1>3. w \in Inode
    <2>1. CASE f \in Present
      BY <2>1, Typed
    <2>2. CASE f \notin Present
      BY <1>1, <2>2
    <2> QED
      BY <2>1, <2>2
  <1>4. d.bytes = <<>> /\ d \in [bytes : Bytes, meant : Content \cup {Torn}]
    BY <1>2 DEF Opened, Bytes
  <1>5. s \in Request /\ s.pc = "write" /\ s.inode = w /\ s.at = 0 /\ s.todo = req[r].todo
    <2>1. 0 \in Nat
      OBVIOUS
    <2> QED
      BY <1>2, <1>3, <2>1 DEF Request
  <1>6. d.meant # Torn => ~(\E q \in Slot : Writes(q, w)) /\ d.meant = c
    OBVIOUS
  <1> HIDE DEF w, d, s, c, f
  <1>7. /\ req' \in [Slot -> Request] /\ req'[r] = s
        /\ \A q \in Slot \ {r} : req'[q] = req[q]
    BY <1>1, <1>5, Typed
  <1>8. /\ name' \in [File -> Inode \cup {NoInode}]
        /\ \A g \in File \ {f} : name'[g] = name[g]
    BY <1>1, <1>2, <1>3, Typed
  <1>9. /\ \A q \in Slot \ {r}, i \in Inode : /\ Writes(q, i)' = Writes(q, i)
                                              /\ Reads(q, i)' = Reads(q, i)
        /\ \A i \in Inode : ~Reads(r, i)' /\ ~Writes(r, i) /\ (Writes(r, i)' <=> i = w)
    BY <1>1, <1>5, <1>7 DEF Writes, Reads
  <1>10. InUse' \subseteq InUse \cup {w}
    BY <1>1, <1>2, <1>3, <1>8, <1>9, Typed DEF InUse
  <1>11. \A i \in InUse' : i # w => i \in InUse /\ data'[i] = data[i]
    BY <1>1, <1>10
  <1>12. w \in InUse' /\ data'[w] = d
    <2>1. w \in InUse'
      BY <1>3, <1>9 DEF InUse
    <2> QED
      BY <1>1, <2>1
  <1>13. TypeOK'
    <2>1. \A i \in InUse' : data'[i] \in [bytes : Bytes, meant : Content \cup {Torn}]
      BY <1>4, <1>11, <1>12, Typed
    <2>2. DOMAIN data' = InUse' /\ folders' \subseteq Folder
      BY <1>1, Typed
    <2> QED
      BY <1>7, <1>8, <2>1, <2>2, Observed DEF IInv, TypeOK
  <1>14. HeadContent(r)' = c
    BY <1>5, <1>7 DEF HeadContent, c
  <1>15. \A q \in Slot : HasFile(q)'
    <2>1. \A q \in Slot \ {r} : HasFile(q)'
      BY <1>7 DEF IInv, HasFile, HeadContent
    <2>2. Length[c] \in Nat
      BY <1>2, MediaAssumption
    <2>3. HasFile(r)'
      BY <1>1, <1>5, <1>7, <1>14, <2>2 DEF HasFile
    <2> QED
      BY <2>1, <2>3
  <1>16. ASSUME NEW i \in InUse' PROVE Kept(i)'
    <2>1. i \in Inode
      BY DEF InUse
    <2>2. CASE i = w /\ d.meant # Torn
      <3>1. \A q \in Slot : Writes(q, i)' <=> q = r
        BY <1>6, <1>9, <2>1, <2>2
      <3>2. data'[i].bytes = Begun(c, 0) /\ data'[i].meant = c
        BY <1>4, <1>6, <1>12, <2>2 DEF Begun
      <3>3. req'[r].at = 0
        BY <1>5, <1>7
      <3> QED
        BY <1>14, <3>1, <3>2, <3>3, KeptByOne
    <2>3. CASE i = w /\ d.meant = Torn
      BY <1>12, <2>3 DEF Kept
    <2>4. CASE i # w
      <3>1. i \in InUse /\ data'[i] = data[i] /\ Kept(i)
        BY <1>11, <2>4 DEF IInv
      <3>2. \A q \in Slot : Writes(q, i)' = Writes(q, i) /\ (Writes(q, i) => req'[q] = req[q])
        <4>1. ~Writes(r, i) /\ ~Writes(r, i)'
          BY <1>9, <2>1, <2>4
        <4>2. \A q \in Slot \ {r} : Writes(q, i)' = Writes(q, i) /\ req'[q] = req[q]
          BY <1>7, <1>9, <2>1
        <4>3. Writes(r, i) \in BOOLEAN /\ Writes(r, i)' \in BOOLEAN
          BY DEF Writes
        <4> QED
          BY <4>1, <4>2, <4>3
      <3> QED
        BY <3>1, <3>2 DEF Kept, Begun, Whole, HeadContent
    <2> QED
      BY <2>2, <2>3, <2>4
  <1> QED
    BY <1>13, <1>15, <1>16 DEF IInv

-----------------------------------------------------------------------------
(* The theorems.                                                           *)

LEMMA InitKeeps ==
    ASSUME Init
    PROVE  IInv
  <1>1. \A r \in Slot : req[r] = Idle /\ req[r].pc = "idle"
    BY DEF Init, Idle
  <1>2. \A r \in Slot, i \in Inode : ~Writes(r, i) /\ ~Reads(r, i)
    BY <1>1 DEF Writes, Reads
  <1>3. InUse = {}
    BY <1>2, MediaAssumption DEF Init, InUse
  <1>4. TypeOK
    <2>1. req \in [Slot -> Request]
      BY <1>1, Places DEF Init
    <2>2. name \in [File -> Inode \cup {NoInode}] /\ folders \subseteq Folder
      BY DEF Init
    <2>3. DOMAIN data = InUse
      BY <1>3 DEF Init
    <2>4. calm \in [Slot -> BOOLEAN] /\ steady \in [Slot -> SUBSET File]
      BY DEF Init
    <2> QED
      BY <1>3, <2>1, <2>2, <2>3, <2>4 DEF TypeOK
  <1>5. \A r \in Slot : HasFile(r)
    BY <1>1 DEF HasFile
  <1> QED
    BY <1>3, <1>4, <1>5 DEF IInv

LEMMA NextKeeps ==
    ASSUME IInv, [Next]_vars
    PROVE  IInv'
  <1>1. CASE Next
    <2>1. PICK r \in Slot : Proceed(r)
      BY <1>1 DEF Next
    <2>2. Observe
      BY <1>1 DEF Next
    <2>3. CASE \E s : Quiet(r, s)
      BY <2>2, <2>3, QuietKeeps
    <2>4. CASE Send(r) \/ LoginRequired(r) \/ Answer(r)
      BY <2>3, <2>4, SendQuiet, LoginRequiredQuiet, AnswerQuiet
    <2>5. CASE NotAllowed(r) \/ OpenFails(r) \/ Process(r) \/ AllSaved(r) \/ DeleteFails(r)
      BY <2>3, <2>5, SaveQuiet
    <2>6. CASE CheckFolder(r) \/ MakeFolder(r) \/ ListFolder(r) \/ CheckName(r) \/ Listed(r)
      BY <2>3, <2>6, FolderQuiet, ScanQuiet
    <2>7. CASE Stat(r) \/ OpenToRead(r)
      BY <2>2, <2>3, <2>7, ServeQuiet, OpenToReadKeeps
    <2>8. CASE ReadChunk(r) \/ EndOfFile(r) \/ Close(r) \/ Delete(r)
      BY <2>2, <2>8, ReadChunkKeeps, EndOfFileKeeps, CloseKeeps, DeleteKeeps
    <2>9. CASE Open(r) \/ WriteChunk(r) \/ WriteFails(r)
      BY <2>2, <2>9, OpenKeeps, WriteChunkKeeps, WriteFailsKeeps
    <2> QED
      BY <2>1, <2>4, <2>5, <2>6, <2>7, <2>8, <2>9 DEF Proceed
  <1>2. CASE UNCHANGED vars
    <2>1. /\ folders' = folders /\ name' = name /\ data' = data
          /\ req' = req /\ calm' = calm /\ steady' = steady
      BY <1>2 DEF vars
    <2>2. InUse' = InUse
      BY <2>1 DEF InUse, Writes, Reads
    <2> QED
      BY <2>1, <2>2
         DEF IInv, TypeOK, HasFile, Kept, Writes, HeadContent, Begun, Whole
  <1> QED
    BY <1>1, <1>2

\* The inductive invariant holds in every state.
THEOREM Inductive == Spec => []IInv
  BY InitKeeps, NextKeeps, PTL DEF Spec

\* The variables keep their types: in particular the inodes that hold bytes are
\* those a name leads to or a request has open, through every delete and rewrite.
THEOREM TypeCorrect == Spec => []TypeOK
  <1>1. IInv => TypeOK
    BY DEF IInv
  <1> QED
    BY <1>1, Inductive, PTL

\* A file nobody is writing holds one upload, whole, and the one that opened it last,
\* after any interleaving of uploads, replacements, deletions and failed opens.
THEOREM AtRestWholeHolds == Spec => []AtRestWhole
  <1>1. IInv => AtRestWhole
    <2> SUFFICES ASSUME IInv, NEW f \in Present, AtRest(name[f])
                 PROVE  data[name[f]].bytes = Whole(data[name[f]].meant)
      BY DEF AtRestWhole
    <2>1. name[f] \in InUse
      BY MediaAssumption DEF IInv, TypeOK, InUse, Present
    <2>2. Kept(name[f])
      BY <2>1 DEF IInv
    <2> QED
      BY <2>2 DEF Kept, AtRest
  <1> QED
    BY <1>1, Inductive, PTL

-----------------------------------------------------------------------------
(* The listing.                                                            *)

\* A name that was there all the time is shown, is still to be checked, or is in a
\* folder still to be listed.
ToCome(r, f) == \E k \in 1..Len(req[r].todo) : req[r].todo[k] = FolderOf(f)
Covered(r) ==
    /\ steady[r] \subseteq Present
    /\ req[r].pc = "scan" => \A f \in steady[r] : f \in req[r].shown \/ ToCome(r, f)
    /\ req[r].pc = "names" =>
          \A f \in steady[r] : f \in req[r].shown \/ f \in req[r].names \/ ToCome(r, f)
    /\ req[r].pc = "reply" /\ req[r].op = "list" /\ req[r].ok => steady[r] \subseteq req[r].shown

\* What a step does to the request that takes it, as far as listings go.
Elsewhere(r) ==
    /\ req'[r].pc \notin {"scan", "names"}
    /\ ~(req'[r].pc = "reply" /\ req'[r].op = "list" /\ req'[r].ok)

LEMMA SendElsewhere ==
    ASSUME IInv, NEW r \in Slot, Send(r)
    PROVE  /\ Elsewhere(r) /\ \A q \in Slot \ {r} : req'[q] = req[q]
           /\ req'[r].pc \in {"folder", "delete", "serve", "save"}
  <1>1. PICK in \in Inputs :
          req' = [req EXCEPT ![r] =
                    CASE in.op = "list" -> [pc |-> "folder", op |-> "list", todo |-> Folders]
                      [] in.op \in {"delete", "serve"} ->
                           [pc |-> in.op, op |-> in.op, file |-> in.file]
                      [] OTHER -> [pc |-> "save", op |-> in.op, todo |-> in.files]]
    BY DEF Send, Become
  <1>2. CASE in.op = "list"
    BY <1>1, <1>2, Typed DEF Elsewhere
  <1>3. CASE in.op = "delete" \/ in.op = "serve"
    BY <1>1, <1>3, Typed DEF Elsewhere
  <1>4. CASE in.op \notin {"list", "delete", "serve"}
    BY <1>1, <1>4, Typed DEF Elsewhere
  <1> QED
    BY <1>2, <1>3, <1>4 DEF Elsewhere

LEMMA OpensElsewhere ==
    ASSUME IInv, NEW r \in Slot, Open(r)
    PROVE  Elsewhere(r) /\ \A q \in Slot \ {r} : req'[q] = req[q]
  BY Typed DEF Open, Become, Elsewhere

LEMMA MovesElsewhere ==
    ASSUME IInv, NEW r \in Slot,
           \/ LoginRequired(r) \/ Answer(r) \/ NotAllowed(r) \/ WriteChunk(r) \/ Close(r)
           \/ OpenFails(r) \/ WriteFails(r) \/ Process(r) \/ AllSaved(r)
           \/ Delete(r) \/ DeleteFails(r)
           \/ Stat(r) \/ OpenToRead(r) \/ ReadChunk(r) \/ EndOfFile(r)
    PROVE  Elsewhere(r) /\ \A q \in Slot \ {r} : req'[q] = req[q]
  <1>1. /\ req \in [Slot -> Request]
        /\ req[r].pc \in {"save", "process", "write"} => req[r].op \in Saver
        /\ req[r].pc = "delete" => req[r].op = "delete"
        /\ req[r].pc \in {"serve", "open", "read"} => req[r].op = "serve"
    BY Typed, ByPlace
  <1>2. CASE LoginRequired(r) \/ Answer(r)
    BY <1>1, <1>2 DEF LoginRequired, Answer, Become, Idle, Elsewhere
  <1>3. CASE NotAllowed(r) \/ Close(r)
    BY <1>1, <1>3 DEF NotAllowed, Close, NextFile, Become, Elsewhere
  <1>4. CASE WriteChunk(r)
    <2>1. req[r] \in [pc : {"write"}, op : Saver, todo : Seq(Sent), inode : Inode, at : Nat]
      BY <1>4, Typed, ByPlace DEF WriteChunk
    <2> QED
      BY <1>1, <1>4, <2>1 DEF WriteChunk, Elsewhere
  <1>5. CASE OpenFails(r) \/ WriteFails(r) \/ AllSaved(r) \/ Process(r)
    BY <1>1, <1>5
       DEF OpenFails, WriteFails, AllSaved, Process, AllowedNow, Saving, NextFile, Reply, Become,
           Elsewhere, Saver, Folder
  <1>6. CASE Delete(r) \/ DeleteFails(r)
    BY <1>1, <1>6 DEF Delete, DeleteFails, Reply, Become, Elsewhere
  <1>7. CASE Stat(r) \/ OpenToRead(r) \/ EndOfFile(r)
    BY <1>1, <1>7 DEF Stat, OpenToRead, EndOfFile, Reply, Become, Elsewhere
  <1>8. CASE ReadChunk(r)
    <2>1. req[r] \in [pc : {"read"}, op : {"serve"}, inode : Inode, size : Nat, got : Bytes]
      BY <1>8, Typed, ByPlace DEF ReadChunk
    <2> QED
      BY <1>1, <1>8, <2>1 DEF ReadChunk, Elsewhere
  <1> QED
    BY <1>2, <1>3, <1>4, <1>5, <1>6, <1>7, <1>8

\* A name never becomes steady while a listing is under way.
LEMMA SteadyShrinks ==
    ASSUME IInv, Observe, NEW q \in Slot
    PROVE  /\ steady'[q] \subseteq Present'
           /\ Listing(q) => steady'[q] \subseteq steady[q]
  BY DEF Observe

\* A request that is not looking, and one that waits its turn, leave nothing out.
LEMMA ElsewhereCovers ==
    ASSUME IInv, Observe, NEW r \in Slot, Elsewhere(r)
    PROVE  Covered(r)'
  BY SteadyShrinks DEF Elsewhere, Covered

LEMMA WaitingCovers ==
    ASSUME IInv, Observe, NEW q \in Slot, Covered(q), req'[q] = req[q]
    PROVE  Covered(q)'
  <1>1. steady'[q] \subseteq Present'
    BY SteadyShrinks
  <1>2. CASE Listing(q)
    <2>1. steady'[q] \subseteq steady[q]
      BY <1>2, SteadyShrinks
    <2>2. \A f : ToCome(q, f)' <=> ToCome(q, f)
      BY DEF ToCome
    <2> QED
      BY <1>1, <2>1, <2>2 DEF Covered
  <1>3. CASE ~Listing(q)
    BY <1>1, <1>3 DEF Covered, Listing
  <1> QED
    BY <1>2, <1>3

LEMMA FolderInFolders ==
    ASSUME NEW f
    PROVE  /\ Len(Folders) = 2
           /\ \E k \in 1..2 : Folders[k] = FolderOf(f)
  BY DEF Folders, FolderOf

LEMMA NextFolderCovers ==
    ASSUME IInv, Observe, NEW r \in Slot, NextFolder(r), req[r].pc \in {"folder", "make"}
    PROVE  Covered(r)' /\ \A q \in Slot \ {r} : req'[q] = req[q]
  <1>1. /\ req \in [Slot -> Request]
        /\ req[r] \in [pc : {"folder", "make"}, op : {"list"}, todo : Seq(Folder)]
    BY Typed, ByPlace
  <1>2. CASE Tail(req[r].todo) # <<>>
    <2>1. req' = [req EXCEPT ![r] = [req[r] EXCEPT !.pc = "folder", !.todo = Tail(@)]]
      BY <1>2 DEF NextFolder, Become
    <2>2. Elsewhere(r) /\ \A q \in Slot \ {r} : req'[q] = req[q]
      BY <1>1, <2>1 DEF Elsewhere
    <2> QED
      BY <2>2, ElsewhereCovers
  <1>3. CASE ~(Tail(req[r].todo) # <<>>)
    <2> DEFINE s == [pc |-> "scan", op |-> "list", todo |-> Folders, shown |-> {}]
    <2>1. req' = [req EXCEPT ![r] = s]
      BY <1>3 DEF NextFolder, Become
    <2>2. req'[r] = s /\ \A q \in Slot \ {r} : req'[q] = req[q]
      BY <1>1, <2>1
    <2>3. s.pc = "scan" /\ s.todo = Folders
      OBVIOUS
    <2> HIDE DEF s
    <2>4. \A f : ToCome(r, f)'
      BY <2>2, <2>3, FolderInFolders DEF ToCome, FolderOf
    <2> QED
      BY <2>2, <2>3, <2>4, SteadyShrinks DEF Covered
  <1> QED
    BY <1>2, <1>3

LEMMA FolderCovers ==
    ASSUME IInv, Observe, NEW r \in Slot, CheckFolder(r) \/ MakeFolder(r)
    PROVE  Covered(r)' /\ \A q \in Slot \ {r} : req'[q] = req[q]
  <1>1. req[r].pc \in {"folder", "make"}
    BY DEF CheckFolder, MakeFolder
  <1>2. /\ req \in [Slot -> Request]
        /\ req[r] \in [pc : {"folder", "make"}, op : {"list"}, todo : Seq(Folder)]
    BY <1>1, Typed, ByPlace
  <1>3. CASE NextFolder(r)
    BY <1>1, <1>3, NextFolderCovers
  <1>4. CASE ~NextFolder(r) /\ CheckFolder(r)
    <2>1. req' = [req EXCEPT ![r] = [req[r] EXCEPT !.pc = "make"]]
      BY <1>4 DEF CheckFolder, Become
    <2>2. Elsewhere(r) /\ \A q \in Slot \ {r} : req'[q] = req[q]
      BY <1>2, <2>1 DEF Elsewhere
    <2> QED
      BY <2>2, ElsewhereCovers
  <1>5. CASE ~NextFolder(r) /\ MakeFolder(r)
    <2>1. Reply(r, FALSE, {})
      BY <1>5 DEF MakeFolder
    <2>2. Elsewhere(r) /\ \A q \in Slot \ {r} : req'[q] = req[q]
      BY <1>2, <2>1 DEF Reply, Become, Elsewhere
    <2> QED
      BY <2>2, ElsewhereCovers
  <1> QED
    BY <1>3, <1>4, <1>5

LEMMA ListFolderCovers ==
    ASSUME IInv, Observe, NEW r \in Slot, ListFolder(r), Covered(r)
    PROVE  Covered(r)' /\ \A q \in Slot \ {r} : req'[q] = req[q]
  <1> DEFINE todo == req[r].todo
             s == [pc |-> "names", op |-> "list", todo |-> Tail(todo), shown |-> req[r].shown,
                   names |-> NamesIn(Head(todo))]
  <1>1. req[r].pc = "scan" /\ todo # <<>> /\ req' = [req EXCEPT ![r] = s]
    BY DEF ListFolder, Become
  <1>2. req \in [Slot -> Request] /\ todo \in Seq(Folder)
    BY <1>1, Typed, ByPlace
  <1>3. req'[r] = s /\ \A q \in Slot \ {r} : req'[q] = req[q]
    BY <1>1, <1>2
  <1>4. steady'[r] \subseteq steady[r] /\ steady'[r] \subseteq Present'
    BY <1>1, SteadyShrinks DEF Listing
  <1>5. ASSUME NEW f \in steady[r]
        PROVE  f \in req[r].shown \/ f \in NamesIn(Head(todo)) \/ ToCome(r, f)'
    <2>1. f \in Present /\ (f \in req[r].shown \/ ToCome(r, f))
      BY <1>1, <1>5 DEF Covered
    <2>2. ASSUME NEW k \in 1..Len(todo), todo[k] = FolderOf(f)
          PROVE  f \in NamesIn(Head(todo)) \/ ToCome(r, f)'
      <3>1. CASE k = 1
        <4>1. Head(todo) = FolderOf(f)
          BY <2>2, <3>1
        <4> QED
          BY <2>1, <4>1 DEF NamesIn
      <3>2. CASE k # 1
        <4>1. /\ k - 1 \in 1..Len(Tail(todo)) /\ Tail(todo)[k - 1] = todo[k]
          BY <1>1, <1>2, <3>2
        <4>2. req'[r].todo = Tail(todo)
          BY <1>3
        <4> QED
          BY <2>2, <4>1, <4>2 DEF ToCome, FolderOf
      <3> QED
        BY <3>1, <3>2
    <2> QED
      BY <2>1, <2>2 DEF ToCome
  <1>6. /\ req'[r].pc = "names" /\ req'[r].shown = req[r].shown
        /\ req'[r].names = NamesIn(Head(todo))
    BY <1>3
  <1> QED
    BY <1>3, <1>4, <1>5, <1>6 DEF Covered

LEMMA CheckNameCovers ==
    ASSUME IInv, Observe, NEW r \in Slot, CheckName(r), Covered(r)
    PROVE  Covered(r)' /\ \A q \in Slot \ {r} : req'[q] = req[q]
  <1>1. /\ req \in [Slot -> Request] /\ req[r].pc = "names"
        /\ req[r] \in [pc : {"names"}, op : {"list"}, todo : Seq(Folder),
                       shown : SUBSET File, names : SUBSET File]
    BY Typed, ByPlace DEF CheckName
  <1>2. steady'[r] \subseteq steady[r] /\ steady'[r] \subseteq Present'
    BY <1>1, SteadyShrinks DEF Listing
  <1>3. /\ steady[r] \subseteq Present
        /\ \A f \in steady[r] : f \in req[r].shown \/ f \in req[r].names \/ ToCome(r, f)
    BY <1>1 DEF Covered
  <1>4. CASE \E f \in req[r].names :
               req' = [req EXCEPT ![r].names = @ \ {f}, ![r].shown = @ \cup ({f} \cap Present)]
    <2>1. PICK f \in req[r].names :
            req' = [req EXCEPT ![r].names = @ \ {f}, ![r].shown = @ \cup ({f} \cap Present)]
      BY <1>4
    <2>2. /\ req'[r].pc = "names" /\ req'[r].names = req[r].names \ {f}
          /\ req'[r].shown = req[r].shown \cup ({f} \cap Present)
          /\ req'[r].todo = req[r].todo
          /\ \A q \in Slot \ {r} : req'[q] = req[q]
      BY <1>1, <2>1
    <2>3. \A g : ToCome(r, g)' <=> ToCome(r, g)
      BY <2>2 DEF ToCome
    <2> QED
      BY <1>2, <1>3, <2>2, <2>3 DEF Covered
  <1>5. CASE /\ req[r].names = {}
             /\ Become(r, [pc |-> "scan", op |-> "list", todo |-> req[r].todo,
                           shown |-> req[r].shown])
    <2>1. /\ req'[r].pc = "scan" /\ req'[r].shown = req[r].shown /\ req'[r].todo = req[r].todo
          /\ \A q \in Slot \ {r} : req'[q] = req[q]
      BY <1>1, <1>5 DEF Become
    <2>2. \A g : ToCome(r, g)' <=> ToCome(r, g)
      BY <2>1 DEF ToCome
    <2> QED
      BY <1>2, <1>3, <1>5, <2>1, <2>2 DEF Covered
  <1> QED
    BY <1>4, <1>5 DEF CheckName

LEMMA ListedCovers ==
    ASSUME IInv, Observe, NEW r \in Slot, Listed(r), Covered(r)
    PROVE  Covered(r)' /\ \A q \in Slot \ {r} : req'[q] = req[q]
  <1>1. /\ req[r].pc = "scan" /\ req[r].todo = <<>> /\ req \in [Slot -> Request]
        /\ req' = [req EXCEPT ![r] = [pc |-> "reply", op |-> req[r].op, ok |-> TRUE,
                                      shown |-> req[r].shown]]
    BY Typed DEF Listed, Reply, Become
  <1>2. /\ req'[r].pc = "reply" /\ req'[r].shown = req[r].shown
        /\ \A q \in Slot \ {r} : req'[q] = req[q]
    BY <1>1
  <1>3. \A f : ~ToCome(r, f)
    BY <1>1 DEF ToCome
  <1>4. steady'[r] \subseteq steady[r] /\ steady'[r] \subseteq Present'
    BY <1>1, SteadyShrinks DEF Listing
  <1>5. \A f \in steady[r] : f \in req[r].shown
    BY <1>1, <1>3 DEF Covered
  <1> QED
    BY <1>2, <1>4, <1>5 DEF Covered

LEMMA ListingAlone ==
    ASSUME IInv, NEW r \in Slot,
           CheckFolder(r) \/ MakeFolder(r) \/ ListFolder(r) \/ CheckName(r) \/ Listed(r)
    PROVE  \A q \in Slot \ {r} : req'[q] = req[q]
  <1>1. CASE CheckFolder(r) \/ MakeFolder(r)
    BY <1>1, Typed DEF CheckFolder, MakeFolder, NextFolder, Reply, Become
  <1>2. CASE ListFolder(r) \/ CheckName(r) \/ Listed(r)
    BY <1>2, Typed DEF ListFolder, CheckName, Listed, Reply, Become
  <1> QED
    BY <1>1, <1>2

LEMMA CoveredKeeps ==
    ASSUME IInv, \A r \in Slot : Covered(r), [Next]_vars
    PROVE  \A r \in Slot : Covered(r)'
  <1>1. CASE Next
    <2>1. PICK r \in Slot : Proceed(r)
      BY <1>1 DEF Next
    <2>2. Observe
      BY <1>1 DEF Next
    <2>3. Covered(r)' /\ \A q \in Slot \ {r} : req'[q] = req[q]
      <3>1. CASE Elsewhere(r) /\ \A q \in Slot \ {r} : req'[q] = req[q]
        BY <2>2, <3>1, ElsewhereCovers
      <3>2. CASE CheckFolder(r) \/ MakeFolder(r) \/ ListFolder(r) \/ CheckName(r) \/ Listed(r)
        BY <2>2, <3>2, FolderCovers, ListFolderCovers, CheckNameCovers, ListedCovers
      <3> QED
        BY <2>1, <3>1, <3>2, SendElsewhere, OpensElsewhere, MovesElsewhere DEF Proceed
    <2>4. \A q \in Slot \ {r} : Covered(q)'
      BY <2>2, <2>3, WaitingCovers
    <2> QED
      BY <2>3, <2>4
  <1>2. CASE UNCHANGED vars
    BY <1>2 DEF vars, Covered, ToCome, Present
  <1> QED
    BY <1>1, <1>2

\* A listing that reports no error shows every file that was there all the time,
\* although folders are made and files come and go while it looks.
THEOREM ListCompleteHolds == Spec => []ListComplete
  <1>1. Init => \A r \in Slot : Covered(r)
    BY DEF Init, Covered, Idle
  <1>2. (\A r \in Slot : Covered(r)) => ListComplete
    BY DEF Covered, ListComplete
  <1>3. IInv /\ IInv' /\ (\A r \in Slot : Covered(r)) /\ [Next]_vars
          => (\A r \in Slot : Covered(r))'
    BY CoveredKeeps
  <1> QED
    BY <1>1, <1>2, <1>3, Inductive, PTL DEF Spec

-----------------------------------------------------------------------------
(* What is served and what is processed.                                   *)

\* While nobody disturbs it, a reader has the first chunks of the file whose size it
\* looked at, and a writer is the one its inode is meant for.
Undisturbed(r) ==
    calm[r] =>
      /\ req[r].pc = "open" =>
            /\ AtRest(name[req[r].file])
            /\ req[r].size = Length[data[name[req[r].file]].meant]
      /\ req[r].pc = "read" =>
            LET c == data[req[r].inode].meant IN
            /\ AtRest(req[r].inode) /\ req[r].size = Length[c]
            /\ \E n \in 0..Length[c] : req[r].got = Begun(c, n)
      /\ req[r].pc = "served" => \E c \in Content : req[r].got = Whole(c)
      /\ req[r].pc = "write" => Still(r) /\ data[req[r].inode].meant = HeadContent(r)
      /\ req[r].pc = "process" => Still(r) /\ data[name[HeadFile(r)]].meant = HeadContent(r)

\* A step changes the bytes of no inode but one it writes, and moves no name that
\* leads somewhere to elsewhere.
LEMMA Untouched ==
    ASSUME IInv, NEW q \in Slot, Proceed(q), NEW i \in InUse', i \in InUse,
           ~Writes(q, i), ~Writes(q, i)'
    PROVE  data'[i] = data[i]
  <1>1. DOMAIN data = InUse /\ req \in [Slot -> Request] /\ NoInode \notin Inode /\ i \in Inode
    BY Typed DEF InUse
  <1>2. CASE UNCHANGED data
    BY <1>2
  <1>3. CASE Collect(NoInode, {})
    BY <1>1, <1>3 DEF Collect
  <1>4. CASE Open(q)
    <2> DEFINE f == HeadFile(q)
               w == IF f \in Present THEN name[f]
                    ELSE CHOOSE j \in Inode : j \notin DOMAIN data
               d == [bytes |-> Opened(w),
                     meant |-> IF \E r \in Slot : Writes(r, w) THEN Torn ELSE HeadContent(q)]
               s == [pc |-> "write", op |-> req[q].op, todo |-> req[q].todo, inode |-> w, at |-> 0]
    <2>1. /\ req' = [req EXCEPT ![q] = s]
          /\ data' = [j \in InUse' |-> IF j = w THEN d ELSE data[j]]
      BY <1>4 DEF Open, Become, Collect
    <2>2. s.pc = "write" /\ s.inode = w
      OBVIOUS
    <2> HIDE DEF w, d, s, f
    <2>3. w # i
      BY <1>1, <2>1, <2>2 DEF Writes
    <2> QED
      BY <2>1, <2>3
  <1>5. CASE WriteChunk(q)
    <2>1. req[q].inode # i
      BY <1>5 DEF WriteChunk, Writes
    <2> QED
      BY <1>1, <1>5, <2>1 DEF WriteChunk
  <1>6. CASE WriteFails(q)
    <2>1. req[q].inode # i
      BY <1>6 DEF WriteFails, Writes
    <2> QED
      BY <1>6, <2>1 DEF WriteFails, Collect
  <1>7. \/ UNCHANGED data \/ Collect(NoInode, {})
        \/ Open(q) \/ WriteChunk(q) \/ WriteFails(q)
    BY DEF Proceed, Send, LoginRequired, Answer, NotAllowed, Close, OpenFails, Process,
           AllSaved, Delete, DeleteFails, CheckFolder, MakeFolder, ListFolder, CheckName,
           Listed, Stat, OpenToRead, ReadChunk, EndOfFile
  <1> QED
    BY <1>2, <1>3, <1>4, <1>5, <1>6, <1>7

LEMMA NameStays ==
    ASSUME IInv, NEW q \in Slot, Proceed(q), NEW f \in Present', f \in Present
    PROVE  name'[f] = name[f]
  <1>1. name \in [File -> Inode \cup {NoInode}] /\ f \in File /\ name'[f] # NoInode
    BY Typed DEF Present
  <1>2. CASE Delete(q)
    BY <1>1, <1>2 DEF Delete
  <1>3. CASE Open(q)
    <2> DEFINE g == HeadFile(q)
               w == IF g \in Present THEN name[g]
                    ELSE CHOOSE j \in Inode : j \notin DOMAIN data
    <2>1. name' = [name EXCEPT ![g] = w]
      BY <1>3 DEF Open
    <2>2. f = g => w = name[f]
      OBVIOUS
    <2> HIDE DEF g, w
    <2> QED
      BY <1>1, <2>1, <2>2
  <1>4. CASE UNCHANGED name
    BY <1>4
  <1>5. UNCHANGED name \/ Delete(q) \/ Open(q)
    BY DEF Proceed, Send, LoginRequired, Answer, NotAllowed, WriteChunk, Close, OpenFails,
           WriteFails, Process, AllSaved, DeleteFails, CheckFolder, MakeFolder, ListFolder,
           CheckName, Listed, Stat, OpenToRead, ReadChunk, EndOfFile
  <1> QED
    BY <1>2, <1>3, <1>4, <1>5

LEMMA ReaderUndisturbed ==
    ASSUME NEW r \in Slot, NEW i, NEW c, req'[r].pc = "read", req'[r].inode = i,
           data'[i].meant = c,
           calm'[r] => /\ AtRest(i)' /\ req'[r].size = Length[c]
                       /\ \E n \in 0..Length[c] : req'[r].got = Begun(c, n)
    PROVE  Undisturbed(r)'
  BY DEF Undisturbed, Begun

\* A request that waits its turn is calm after a step only if it was, and its file is
\* as it was.
LEMMA WaitingUndisturbed ==
    ASSUME IInv, NEW q \in Slot, Proceed(q), Observe,
           NEW r \in Slot, r # q, req'[r] = req[r], Undisturbed(r)
    PROVE  Undisturbed(r)'
  <1> SUFFICES ASSUME calm'[r], InHand(r)
               PROVE  Undisturbed(r)'
    BY DEF Undisturbed, InHand
  <1>1. calm[r] /\ Still(r)'
    BY DEF Observe
  <1>2. HeadFile(r)' = HeadFile(r) /\ HeadContent(r)' = HeadContent(r)
    BY DEF HeadFile, HeadContent
  <1>3. CASE req[r].pc = "open"
    <2> DEFINE f == req[r].file
    <2>1. /\ AtRest(name[f]) /\ req[r].size = Length[data[name[f]].meant]
          /\ f \in File
      BY <1>1, <1>3, Typed, ByPlace DEF Undisturbed
    <2>2. AtRest(name[f])'
      BY <1>1, <1>3 DEF Still
    <2>3. f \in Present /\ f \in Present'
      BY <2>1, <2>2 DEF AtRest, Present
    <2>4. name'[f] = name[f]
      BY <2>3, NameStays
    <2>5. PICK i \in Inode : i = name[f] /\ i = name'[f]
      BY <2>1, <2>3, <2>4, Typed DEF Present
    <2>6. /\ i \in InUse /\ i \in InUse'
          /\ ~Writes(q, i) /\ ~Writes(q, i)'
      BY <2>1, <2>2, <2>5 DEF AtRest, InUse
    <2>7. data'[i] = data[i]
      BY <2>6, Untouched
    <2> QED
      BY <1>3, <2>1, <2>2, <2>5, <2>7 DEF Undisturbed
  <1>4. CASE req[r].pc = "read"
    <2>1. PICK i, c : i \in Inode /\ i = req[r].inode /\ c = data[i].meant
      BY <1>4, Typed, ByPlace
    <2>2. /\ AtRest(i) /\ req[r].size = Length[c]
          /\ \E n \in 0..Length[c] : req[r].got = Begun(c, n)
      BY <1>1, <1>4, <2>1 DEF Undisturbed
    <2>3. AtRest(i)'
      BY <1>1, <1>4, <2>1 DEF Still
    <2>4. i \in InUse /\ i \in InUse'
      BY <1>4, <2>1 DEF InUse, Reads
    <2>5. ~Writes(q, i) /\ ~Writes(q, i)'
      BY <2>2, <2>3 DEF AtRest
    <2>6. data'[i] = data[i]
      BY <2>4, <2>5, Untouched
    <2> QED
      BY <1>4, <2>1, <2>2, <2>3, <2>6, ReaderUndisturbed
  <1>5. CASE req[r].pc = "served"
    BY <1>1, <1>5 DEF Undisturbed, Whole
  <1>6. CASE req[r].pc = "write"
    <2> DEFINE i == req[r].inode
    <2>1. Still(r) /\ data[i].meant = HeadContent(r) /\ i \in Inode
      BY <1>1, <1>6, Typed, ByPlace DEF Undisturbed
    <2>2. i \in InUse /\ i \in InUse'
      BY <1>6, <2>1 DEF InUse, Writes
    <2>3. ~Writes(q, i)
      BY <1>6, <2>1 DEF Still
    <2>4. ~Writes(q, i)'
      BY <1>1, <1>6 DEF Still, Writes
    <2>5. data'[i] = data[i]
      BY <2>2, <2>3, <2>4, Untouched
    <2> QED
      BY <1>1, <1>2, <1>6, <2>1, <2>5 DEF Undisturbed
  <1>7. CASE req[r].pc = "process"
    <2> DEFINE f == HeadFile(r)
    <2>1. /\ f \in Present /\ ~Writes(q, name[f])
          /\ data[name[f]].meant = HeadContent(r)
      BY <1>1, <1>7 DEF Undisturbed, Still
    <2>2. f \in Present'
      BY <1>1, <1>2, <1>7 DEF Still
    <2> HIDE DEF f
    <2>3. name'[f] = name[f]
      BY <2>1, <2>2, NameStays
    <2>4. PICK i \in Inode : i = name[f] /\ i = name'[f]
      BY <2>1, <2>3, Typed DEF Present
    <2>5. ~Writes(q, i) /\ ~Writes(q, i)'
      BY <1>1, <1>2, <1>7, <2>1, <2>4 DEF Still, f
    <2>6. i \in InUse /\ i \in InUse'
      BY <2>1, <2>2, <2>4 DEF InUse, Present
    <2>7. data'[i] = data[i]
      BY <2>5, <2>6, Untouched
    <2> QED
      BY <1>1, <1>2, <1>7, <2>1, <2>4, <2>7 DEF Undisturbed, f
  <1> QED
    BY <1>3, <1>4, <1>5, <1>6, <1>7 DEF InHand

LEMMA OffHand ==
    ASSUME IInv, NEW r \in Slot,
           \/ Send(r) \/ LoginRequired(r) \/ Answer(r) \/ NotAllowed(r)
           \/ OpenFails(r) \/ WriteFails(r) \/ Process(r) \/ AllSaved(r)
           \/ Delete(r) \/ DeleteFails(r)
           \/ CheckFolder(r) \/ MakeFolder(r) \/ ListFolder(r) \/ CheckName(r) \/ Listed(r)
    PROVE  ~InHand(r)'
  <1>1. req \in [Slot -> Request]
    BY Typed
  <1>2. CASE Send(r)
    BY <1>2, SendElsewhere DEF InHand
  <1>3. CASE LoginRequired(r) \/ Answer(r) \/ NotAllowed(r)
    BY <1>1, <1>3 DEF LoginRequired, Answer, NotAllowed, NextFile, Become, Idle, InHand
  <1>4. CASE OpenFails(r) \/ WriteFails(r) \/ AllSaved(r) \/ Delete(r) \/ DeleteFails(r) \/ Listed(r)
    BY <1>1, <1>4
       DEF OpenFails, WriteFails, AllSaved, Delete, DeleteFails, Listed, Reply, Become, InHand
  <1>5. CASE Process(r)
    BY <1>1, <1>5 DEF Process, NextFile, Reply, Become, InHand
  <1>6. CASE CheckFolder(r) \/ MakeFolder(r)
    <2>1. req[r].pc \in {"folder", "make"}
      BY <1>6 DEF CheckFolder, MakeFolder
    <2>2. req[r] \in [pc : {"folder", "make"}, op : {"list"}, todo : Seq(Folder)]
      BY <2>1, Typed, ByPlace
    <2>3. CASE NextFolder(r)
      <3>1. CASE Tail(req[r].todo) # <<>>
        BY <1>1, <2>2, <2>3, <3>1 DEF NextFolder, Become, InHand
      <3>2. CASE ~(Tail(req[r].todo) # <<>>)
        BY <1>1, <2>2, <2>3, <3>2 DEF NextFolder, Become, InHand
      <3> QED
        BY <3>1, <3>2
    <2>4. CASE Become(r, [req[r] EXCEPT !.pc = "make"])
      BY <1>1, <2>2, <2>4 DEF Become, InHand
    <2>5. CASE Reply(r, FALSE, {})
      BY <1>1, <2>5 DEF Reply, Become, InHand
    <2> QED
      BY <1>6, <2>3, <2>4, <2>5 DEF CheckFolder, MakeFolder
  <1>7. CASE ListFolder(r)
    BY <1>1, <1>7 DEF ListFolder, Become, InHand
  <1>8. CASE CheckName(r)
    <2>1. req[r] \in [pc : {"names"}, op : {"list"}, todo : Seq(Folder),
                      shown : SUBSET File, names : SUBSET File]
      BY <1>8, Typed, ByPlace DEF CheckName
    <2>2. CASE Become(r, [pc |-> "scan", op |-> "list", todo |-> req[r].todo,
                          shown |-> req[r].shown])
      BY <1>1, <2>2 DEF Become, InHand
    <2>3. CASE \E f \in req[r].names :
                 req' = [req EXCEPT ![r].names = @ \ {f}, ![r].shown = @ \cup ({f} \cap Present)]
      BY <1>1, <2>1, <2>3 DEF InHand
    <2> QED
      BY <1>8, <2>2, <2>3 DEF CheckName
  <1> QED
    BY <1>2, <1>3, <1>4, <1>5, <1>6, <1>7, <1>8

LEMMA BegunLength ==
    ASSUME NEW c, NEW n \in Nat
    PROVE  Len(Begun(c, n)) = n /\ Begun(c, n) \in Seq({c})
  <1>1. Begun(c, n) = [k \in 1..n |-> c]
    BY DEF Begun
  <1> QED
    BY <1>1

LEMMA AtRestIsWhole ==
    ASSUME IInv, NEW i \in InUse, AtRest(i)
    PROVE  /\ data[i].meant \in Content /\ Length[data[i].meant] \in Nat
           /\ data[i].bytes = Begun(data[i].meant, Length[data[i].meant])
           /\ Len(data[i].bytes) = Length[data[i].meant]
  <1>1. data[i].meant \in Content /\ Length[data[i].meant] \in Nat
    BY MediaAssumption DEF IInv, TypeOK, AtRest
  <1>2. data[i].bytes = Whole(data[i].meant)
    BY DEF IInv, Kept, AtRest
  <1> QED
    BY <1>1, <1>2, BegunLength DEF Whole, Begun

LEMMA StatUndisturbed ==
    ASSUME IInv, NEW r \in Slot, Stat(r), Observe
    PROVE  Undisturbed(r)'
  <1>1. req \in [Slot -> Request] /\ req[r].pc = "serve"
    BY Typed DEF Stat
  <1>2. PICK f \in File : f = req[r].file
    BY <1>1, Typed, ByPlace
  <1>3. CASE f \notin Present
    BY <1>1, <1>2, <1>3 DEF Stat, Reply, Become, Undisturbed
  <1>4. CASE f \in Present
    <2>1. PICK i \in InUse : i = name[f]
      BY <1>4, Typed
    <2> DEFINE s == [pc |-> "open", op |-> "serve", file |-> f, size |-> Len(data[i].bytes)]
    <2>2. req' = [req EXCEPT ![r] = s] /\ UNCHANGED <<folders, name, data>>
      BY <1>2, <1>4, <2>1 DEF Stat, Become
    <2>3. /\ req'[r].pc = "open" /\ req'[r].file = f /\ req'[r].size = Len(data[i].bytes)
          /\ \A q \in Slot : Writes(q, i) => Writes(q, i)'
      BY <1>1, <2>2 DEF Writes
    <2>4. ASSUME calm'[r]
          PROVE  AtRest(i)' /\ Len(data[i].bytes) = Length[data[i].meant]
      <3>1. AtRest(i)'
        BY <2>1, <2>2, <2>3, <2>4 DEF Observe, Still
      <3>2. AtRest(i)
        BY <2>2, <2>3, <3>1 DEF AtRest
      <3> QED
        BY <3>1, <3>2, AtRestIsWhole
    <2> QED
      BY <2>1, <2>2, <2>3, <2>4 DEF Undisturbed
  <1> QED
    BY <1>3, <1>4

LEMMA OpenToReadUndisturbed ==
    ASSUME IInv, NEW r \in Slot, OpenToRead(r), Observe, Undisturbed(r)
    PROVE  Undisturbed(r)'
  <1>1. req \in [Slot -> Request] /\ req[r].pc = "open"
    BY Typed DEF OpenToRead
  <1>2. PICK f \in File : f = req[r].file
    BY <1>1, Typed, ByPlace
  <1>3. CASE f \notin Present
    BY <1>1, <1>2, <1>3 DEF OpenToRead, Reply, Become, Undisturbed
  <1>4. CASE f \in Present
    <2>1. PICK i \in InUse : i = name[f]
      BY <1>4, Typed
    <2> DEFINE s == [pc |-> "read", op |-> "serve", inode |-> i, size |-> req[r].size,
                     got |-> <<>>]
    <2>2. req' = [req EXCEPT ![r] = s] /\ UNCHANGED <<folders, name, data>>
      BY <1>2, <1>4, <2>1 DEF OpenToRead, Become
    <2>3. /\ req'[r].pc = "read" /\ req'[r].inode = i
          /\ req'[r].size = req[r].size /\ req'[r].got = <<>>
      BY <1>1, <2>2
    <2>4. ASSUME calm'[r]
          PROVE  /\ AtRest(i)' /\ req[r].size = Length[data[i].meant]
                 /\ \E n \in 0..Length[data[i].meant] : <<>> = Begun(data[i].meant, n)
      <3>1. calm[r] /\ Still(r)'
        BY <1>1, <2>4 DEF Observe, InHand
      <3>2. AtRest(i)'
        BY <2>3, <3>1 DEF Still
      <3>3. AtRest(i) /\ req[r].size = Length[data[i].meant]
        BY <1>1, <1>2, <2>1, <3>1 DEF Undisturbed
      <3>4. Length[data[i].meant] \in Nat
        BY <3>3, AtRestIsWhole
      <3>5. <<>> = Begun(data[i].meant, 0)
        BY DEF Begun
      <3> QED
        BY <3>2, <3>3, <3>4, <3>5
    <2> HIDE DEF s
    <2> QED
      BY <2>2, <2>3, <2>4, ReaderUndisturbed
  <1> QED
    BY <1>3, <1>4

LEMMA ReadChunkUndisturbed ==
    ASSUME IInv, NEW r \in Slot, ReadChunk(r), Observe, Undisturbed(r)
    PROVE  Undisturbed(r)'
  <1>1. /\ req \in [Slot -> Request] /\ req[r].pc = "read"
        /\ req[r] \in [pc : {"read"}, op : {"serve"}, inode : Inode, size : Nat, got : Bytes]
    BY Typed, ByPlace DEF ReadChunk
  <1>2. PICK i \in Inode : i = req[r].inode
    BY <1>1
  <1>3. i \in InUse
    BY <1>1, <1>2 DEF InUse, Reads
  <1> DEFINE b == data[i].bytes
             g == req[r].got
             c == data[i].meant
  <1>4. /\ req' = [req EXCEPT ![r].got = Append(g, b[Len(g) + 1])]
        /\ Len(g) < req[r].size /\ UNCHANGED <<folders, name, data>>
    BY <1>2 DEF ReadChunk, MoreToRead
  <1>5. /\ req'[r].pc = "read" /\ req'[r].inode = i /\ req'[r].size = req[r].size
        /\ req'[r].got = Append(g, b[Len(g) + 1])
    BY <1>1, <1>2, <1>4
  <1>6. ASSUME calm'[r]
        PROVE  /\ AtRest(i)' /\ req[r].size = Length[c]
               /\ \E n \in 0..Length[c] : Append(g, b[Len(g) + 1]) = Begun(c, n)
    <2>1. calm[r] /\ Still(r)'
      BY <1>1, <1>6 DEF Observe, InHand
    <2>2. AtRest(i)'
      BY <1>5, <2>1 DEF Still
    <2>3. AtRest(i) /\ req[r].size = Length[c] /\ \E n \in 0..Length[c] : g = Begun(c, n)
      BY <1>1, <1>2, <2>1 DEF Undisturbed
    <2>4. PICK n \in 0..Length[c] : g = Begun(c, n)
      BY <2>3
    <2>5. c \in Content /\ Length[c] \in Nat /\ b = Begun(c, Length[c])
      BY <1>3, <2>3, AtRestIsWhole
    <2> HIDE DEF b, g, c
    <2>6. n \in Nat /\ Len(g) = n /\ n < Length[c]
      <3>1. n \in Nat
        BY <2>5
      <3>2. Len(Begun(c, n)) = n
        BY <3>1, BegunLength
      <3> QED
        BY <1>4, <2>3, <2>4, <3>1, <3>2
    <2>7. b[n + 1] = c
      BY <2>4, <2>5, <2>6 DEF Begun
    <2>8. Append(Begun(c, n), c) = Begun(c, n + 1)
      <3>1. Begun(c, n) = [k \in 1..n |-> c] /\ Begun(c, n) \in Seq({c}) /\ Len(Begun(c, n)) = n
        BY <2>4, <2>5, BegunLength DEF Begun
      <3>2. Begun(c, n + 1) \in Seq({c}) /\ Len(Begun(c, n + 1)) = n + 1
        BY <2>4, <2>5, BegunLength
      <3>3. Append(Begun(c, n), c) \in Seq({c}) /\ Len(Append(Begun(c, n), c)) = n + 1
        BY <3>1, AppendProperties
      <3>4. \A k \in 1..(n + 1) : Append(Begun(c, n), c)[k] = c /\ Begun(c, n + 1)[k] = c
        <4>1. \A k \in 1..(n + 1) : Begun(c, n + 1)[k] = c
          BY DEF Begun
        <4>2. \A k \in 1..(n + 1) : Append(Begun(c, n), c)[k] \in {c}
          BY <3>3, ElementOfSeq
        <4> QED
          BY <4>1, <4>2
      <3> QED
        BY <3>2, <3>3, <3>4, SeqEqual
    <2>9. Append(g, b[Len(g) + 1]) = Begun(c, n + 1)
      BY <2>4, <2>6, <2>7, <2>8
    <2>10. n + 1 \in 0..Length[c]
      BY <2>5, <2>6
    <2> QED
      BY <2>2, <2>3, <2>9, <2>10
  <1> HIDE DEF b, g, c
  <1>7. c = data'[i].meant
    BY <1>4 DEF c
  <1> QED
    BY <1>5, <1>6, <1>7, ReaderUndisturbed

\* The end of an undisturbed file is its last chunk.
LEMMA EndOfFileUndisturbed ==
    ASSUME IInv, NEW r \in Slot, EndOfFile(r), Observe, Undisturbed(r)
    PROVE  Undisturbed(r)'
  <1>1. /\ req \in [Slot -> Request] /\ req[r].pc = "read"
        /\ req[r] \in [pc : {"read"}, op : {"serve"}, inode : Inode, size : Nat, got : Bytes]
    BY Typed, ByPlace DEF EndOfFile
  <1>2. PICK i \in Inode : i = req[r].inode
    BY <1>1
  <1>3. i \in InUse
    BY <1>1, <1>2 DEF InUse, Reads
  <1>4. req'[r].pc = "served" /\ req'[r].got = req[r].got
    BY <1>1 DEF EndOfFile, Become
  <1>5. ASSUME calm'[r]
        PROVE  \E c \in Content : req[r].got = Whole(c)
    <2> DEFINE c == data[i].meant
               g == req[r].got
    <2>1. calm[r]
      BY <1>1, <1>5 DEF Observe, InHand
    <2>2. AtRest(i) /\ req[r].size = Length[c] /\ \E n \in 0..Length[c] : g = Begun(c, n)
      BY <1>1, <1>2, <2>1 DEF Undisturbed
    <2>3. c \in Content /\ Length[c] \in Nat /\ Len(data[i].bytes) = Length[c]
      BY <1>3, <2>2, AtRestIsWhole
    <2>4. PICK n \in 0..Length[c] : g = Begun(c, n)
      BY <2>2
    <2>5. ~(Len(g) < Length[c])
      BY <1>2, <2>2, <2>3 DEF EndOfFile, MoreToRead
    <2> HIDE DEF c, g
    <2>6. Len(g) = n
      <3>1. n \in Nat
        BY <2>3
      <3>2. Len(Begun(c, n)) = n
        BY <3>1, BegunLength
      <3> QED
        BY <2>4, <3>2
    <2>7. n = Length[c]
      BY <2>3, <2>4, <2>5, <2>6
    <2> QED
      BY <2>3, <2>4, <2>7 DEF Begun, Whole, g
  <1> QED
    BY <1>4, <1>5 DEF Undisturbed, Whole

LEMMA OpenUndisturbed ==
    ASSUME IInv, NEW r \in Slot, Open(r), Observe
    PROVE  Undisturbed(r)'
  <1>1. PICK w, c :
          /\ req[r].pc = "save" /\ c = HeadContent(r)
          /\ req' = [req EXCEPT ![r] = [pc |-> "write", op |-> req[r].op, todo |-> req[r].todo,
                                        inode |-> w, at |-> 0]]
          /\ data' = [j \in InUse' |->
                        IF j = w THEN [bytes |-> Opened(w),
                                       meant |-> IF \E q \in Slot : Writes(q, w) THEN Torn ELSE c]
                        ELSE data[j]]
    <2> DEFINE f == HeadFile(r)
               v == IF f \in Present THEN name[f]
                    ELSE CHOOSE j \in Inode : j \notin DOMAIN data
    <2>1. /\ req[r].pc = "save"
          /\ req' = [req EXCEPT ![r] = [pc |-> "write", op |-> req[r].op, todo |-> req[r].todo,
                                        inode |-> v, at |-> 0]]
          /\ data' = [j \in InUse' |->
                        IF j = v THEN [bytes |-> Opened(v),
                                       meant |-> IF \E q \in Slot : Writes(q, v) THEN Torn
                                                 ELSE HeadContent(r)]
                        ELSE data[j]]
      BY DEF Open, AllowedNow, Saving, Become, Collect
    <2> HIDE DEF v, f
    <2> QED
      BY <2>1, Zenon
  <1>2. /\ req'[r].pc = "write" /\ req'[r].inode = w /\ req'[r].todo = req[r].todo
        /\ \A q \in Slot \ {r} : req'[q] = req[q]
    BY <1>1, Typed
  <1>3. HeadContent(r)' = c
    BY <1>1, <1>2 DEF HeadContent
  <1>4. ASSUME calm'[r]
        PROVE  Still(r)' /\ data'[w].meant = c
    <2>1. Still(r)'
      BY <1>4 DEF Observe
    <2>2. \A q \in Slot : ~Writes(q, w)
      BY <1>1, <1>2, <2>1 DEF Still, Writes
    <2>3. w \in InUse'
      <3>1. req'[r] \in Request /\ w \in Inode
        BY <1>2, OpenKeeps, ByPlace DEF IInv, TypeOK
      <3> QED
        BY <1>2, <3>1 DEF InUse, Writes
    <2> QED
      BY <1>1, <2>1, <2>2, <2>3
  <1> QED
    BY <1>2, <1>3, <1>4 DEF Undisturbed

LEMMA WriteChunkUndisturbed ==
    ASSUME IInv, NEW r \in Slot, WriteChunk(r), Observe, Undisturbed(r)
    PROVE  Undisturbed(r)'
  <1>1. /\ req \in [Slot -> Request] /\ req[r].pc = "write"
        /\ req[r] \in [pc : {"write"}, op : Saver, todo : Seq(Sent), inode : Inode, at : Nat]
    BY Typed, ByPlace DEF WriteChunk
  <1>2. PICK w \in Inode : w = req[r].inode
    BY <1>1
  <1>3. w \in InUse
    BY <1>1, <1>2 DEF InUse, Writes
  <1>4. req'[r].pc = "write" /\ req'[r].inode = w /\ req'[r].todo = req[r].todo
    BY <1>1, <1>2 DEF WriteChunk
  <1>5. data'[w].meant = data[w].meant
    BY <1>2, <1>3, Typed DEF WriteChunk
  <1>6. HeadContent(r)' = HeadContent(r)
    BY <1>4 DEF HeadContent
  <1>7. calm'[r] => Still(r)' /\ data[w].meant = HeadContent(r)
    BY <1>1, <1>2 DEF Observe, InHand, Undisturbed
  <1> QED
    BY <1>4, <1>5, <1>6, <1>7 DEF Undisturbed

LEMMA CloseUndisturbed ==
    ASSUME IInv, NEW r \in Slot, Close(r), Observe, Undisturbed(r)
    PROVE  Undisturbed(r)'
  <1>1. /\ req \in [Slot -> Request] /\ req[r].pc = "write"
        /\ req[r] \in [pc : {"write"}, op : Saver, todo : Seq(Sent), inode : Inode, at : Nat]
        /\ req[r].todo # <<>>
    BY Typed, ByPlace DEF Close, IInv, HasFile
  <1>2. CASE req[r].op # "text"
    BY <1>1, <1>2 DEF Close, NextFile, Become, Undisturbed
  <1>3. CASE req[r].op = "text"
    <2>1. Head(req[r].todo) \in Sent
      BY <1>1
    <2>2. PICK f \in File, w \in Inode : f = HeadFile(r) /\ w = req[r].inode
      BY <1>1, <2>1 DEF HeadFile, Sent
    <2>3. /\ req'[r].pc = "process" /\ req'[r].todo = req[r].todo
          /\ name' = name /\ data' = [j \in InUse' |-> IF j = NoInode THEN {} ELSE data[j]]
      BY <1>1, <1>3 DEF Close, Become, Collect
    <2>4. HeadFile(r)' = f /\ HeadContent(r)' = HeadContent(r)
      BY <2>2, <2>3 DEF HeadFile, HeadContent
    <2>5. ASSUME calm'[r]
          PROVE  Still(r)' /\ data'[name[f]].meant = HeadContent(r)
      <3>1. calm[r] /\ Still(r)'
        BY <1>1, <2>5 DEF Observe, InHand
      <3>2. name[f] = w /\ data[w].meant = HeadContent(r)
        BY <1>1, <2>2, <3>1 DEF Undisturbed, Still
      <3>3. w \in InUse' /\ w # NoInode
        BY <2>2, <2>3, <3>2, Typed DEF InUse
      <3> QED
        BY <2>3, <3>1, <3>2, <3>3
    <2> QED
      BY <2>3, <2>4, <2>5 DEF Undisturbed
  <1> QED
    BY <1>2, <1>3

LEMMA UndisturbedKeeps ==
    ASSUME IInv, \A r \in Slot : Undisturbed(r), [Next]_vars
    PROVE  \A r \in Slot : Undisturbed(r)'
  <1>1. CASE Next
    <2>1. PICK q \in Slot : Proceed(q)
      BY <1>1 DEF Next
    <2>2. Observe
      BY <1>1 DEF Next
    <2>3. Undisturbed(q)'
      <3>1. CASE ~InHand(q)'
        BY <3>1 DEF InHand, Undisturbed
      <3>2. CASE Stat(q) \/ OpenToRead(q) \/ ReadChunk(q) \/ EndOfFile(q)
        BY <2>2, <3>2, StatUndisturbed, OpenToReadUndisturbed, ReadChunkUndisturbed,
           EndOfFileUndisturbed
      <3>3. CASE Open(q) \/ WriteChunk(q) \/ Close(q)
        BY <2>2, <3>3, OpenUndisturbed, WriteChunkUndisturbed, CloseUndisturbed
      <3> QED
        BY <2>1, <3>1, <3>2, <3>3, OffHand DEF Proceed
    <2>4. \A r \in Slot \ {q} : req'[r] = req[r]
      <3>1. CASE Send(q) \/ Open(q)
        BY <3>1, SendElsewhere, OpensElsewhere
      <3>2. CASE CheckFolder(q) \/ MakeFolder(q) \/ ListFolder(q) \/ CheckName(q) \/ Listed(q)
        BY <3>2, ListingAlone
      <3> QED
        BY <2>1, <3>1, <3>2, MovesElsewhere DEF Proceed
    <2>5. \A r \in Slot \ {q} : Undisturbed(r)'
      BY <2>1, <2>2, <2>4, WaitingUndisturbed
    <2> QED
      BY <2>3, <2>5
  <1>2. CASE UNCHANGED vars
    <2>1. /\ name' = name /\ data' = data /\ req' = req /\ calm' = calm
      BY <1>2 DEF vars
    <2>2. \A r \in Slot : Still(r)' = Still(r)
      BY <2>1 DEF Still, AtRest, HeadFile, Writes, Present
    <2>3. ASSUME NEW r \in Slot PROVE Undisturbed(r)'
      <3>1. Undisturbed(r) /\ Still(r)' = Still(r)
        BY <2>2
      <3>2. CASE req[r].pc = "open"
        BY <2>1, <3>1, <3>2 DEF Undisturbed, AtRest, Writes
      <3>3. CASE req[r].pc = "read"
        <4>1. PICK i, c : i = req[r].inode /\ c = data[i].meant
          OBVIOUS
        <4>2. calm[r] => /\ AtRest(i) /\ req[r].size = Length[c]
                         /\ \E n \in 0..Length[c] : req[r].got = Begun(c, n)
          BY <3>1, <3>3, <4>1 DEF Undisturbed
        <4>3. AtRest(i)' <=> AtRest(i)
          BY <2>1 DEF AtRest, Writes
        <4> QED
          BY <2>1, <3>3, <4>1, <4>2, <4>3, ReaderUndisturbed
      <3>4. CASE req[r].pc \notin {"open", "read"}
        BY <2>1, <3>1, <3>4 DEF Undisturbed, Whole, HeadContent, HeadFile
      <3> QED
        BY <3>2, <3>3, <3>4
    <2> QED
      BY <2>3
  <1> QED
    BY <1>1, <1>2

LEMMA UndisturbedAlways == Spec => [](\A r \in Slot : Undisturbed(r))
  <1>1. Init => \A r \in Slot : Undisturbed(r)
    BY DEF Init, Undisturbed, Idle
  <1>2. IInv /\ (\A r \in Slot : Undisturbed(r)) /\ [Next]_vars
          => (\A r \in Slot : Undisturbed(r))'
    BY UndisturbedKeeps
  <1> QED
    BY <1>1, <1>2, Inductive, PTL DEF Spec

\* A response is one upload, whole, unless somebody wrote to the file, whenever it was
\* deleted, replaced or its size looked at.
THEOREM ServedWholeHolds == Spec => []ServedWhole
  <1>1. (\A r \in Slot : Undisturbed(r)) => ServedWhole
    BY DEF Undisturbed, ServedWhole
  <1> QED
    BY <1>1, UndisturbedAlways, PTL

\* The script is started on the complete upload, unless another request has opened or
\* deleted the file since.
THEOREM ProcessedWholeHolds == Spec => []ProcessedWhole
  <1>1. IInv /\ (\A r \in Slot : Undisturbed(r)) => ProcessedWhole
    <2> SUFFICES ASSUME IInv, NEW r \in Slot, Undisturbed(r), req[r].pc = "process", calm[r]
                 PROVE  data[name[HeadFile(r)]].bytes = Whole(HeadContent(r))
      BY DEF ProcessedWhole
    <2>1. PICK i \in InUse : i = name[HeadFile(r)]
      BY Typed DEF Undisturbed, Still
    <2>2. /\ data[i].meant = HeadContent(r) /\ \A q \in Slot : ~Writes(q, i)
      BY <2>1 DEF Undisturbed, Still
    <2>3. HeadContent(r) # Torn
      <3>1. req[r].todo \in Seq(Sent) /\ req[r].todo # <<>>
        BY Typed, ByPlace DEF IInv, HasFile
      <3>2. Head(req[r].todo) \in Sent
        BY <3>1
      <3> QED
        BY <3>2, MediaAssumption DEF HeadContent, Sent
    <2> QED
      BY <2>1, <2>2, <2>3 DEF IInv, Kept
  <1> QED
    BY <1>1, Inductive, UndisturbedAlways, PTL
=============================================================================
