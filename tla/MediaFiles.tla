----------------------------- MODULE MediaFiles -----------------------------
(***************************************************************************)
(* The media files of main.py: the handlers that upload, replace, delete,  *)
(* list and serve the files under ./multimedia.  A file is written in      *)
(* place, chunk by chunk, by a thread of the server, while other threads   *)
(* read, list, delete or write it.  As on any POSIX system a name leads to *)
(* an inode, which lives on while a request has it open.                   *)
(***************************************************************************)
EXTENDS Naturals, Sequences

CONSTANTS
    Slot,       \* requests the server can be handling at once
    Image,      \* file names an image upload allows
    Text,       \* file names a text upload allows
    Content,    \* what a browser sends for one file
    Length,     \* the number of chunks of each content
    Inode,      \* enough inodes for all names and open files
    MaxFiles,   \* bound: files sent with one upload
    NoInode, Torn

ASSUME MediaAssumption ==
    /\ Image \cap Text = {}
    /\ Length \in [Content -> Nat \ {0}]
    /\ MaxFiles \in Nat
    /\ NoInode \notin Inode /\ Torn \notin Content /\ "hole" \notin Content

VARIABLES
    folders,  \* the folders that exist
    name,     \* the inode of each name
    data,     \* the bytes of each inode in use, and whose they are meant to be
    req,      \* what each request slot is doing
    calm,     \* history: has nothing disturbed the file a request has in hand?
    steady    \* history: the names in place ever since a listing began

vars == <<folders, name, data, req, calm, steady>>

File == Image \cup Text
Folder == {"images", "text"}
Folders == <<"images", "text">>
FolderOf(f) == IF f \in Image THEN "images" ELSE "text"

\* The bytes of a file, in chunks of the content they come from.
Hole == "hole"
Bytes == Seq(Content \cup {Hole})
Whole(c) == [k \in 1..Length[c] |-> c]

\* Write chunk k: a writer keeps its own offset, also if the file got shorter.
Put(bytes, k, c) ==
    [j \in 1..(IF k > Len(bytes) THEN k ELSE Len(bytes)) |->
        IF j = k THEN c ELSE IF j <= Len(bytes) THEN bytes[j] ELSE Hole]

Sent == [file : File, content : Content]
Inputs ==
    [op : Folder, files : UNION {[1..n -> Sent] : n \in 0..MaxFiles}]
    \cup [op : {"replace"}, files : {<<>>} \cup [1..1 -> Sent]]
    \cup [op : {"delete", "serve"}, file : File]
    \cup [op : {"list"}]

\* What allowed_file lets through; a replacement is not asked.
Allowed(op) == CASE op = "images" -> Image [] op = "text" -> Text [] OTHER -> File

Idle == [pc |-> "idle"]
Busy(r) == req[r].pc # "idle"
Present == {f \in File : name[f] # NoInode}

\* A request that has an inode open, and the inodes in use.
Writes(r, i) == req[r].pc = "write" /\ req[r].inode = i
Reads(r, i) == req[r].pc = "read" /\ req[r].inode = i
InUse == {i \in Inode : \/ \E f \in File : name[f] = i
                        \/ \E r \in Slot : Writes(r, i) \/ Reads(r, i)}

Init ==
    /\ folders = {}
    /\ name = [f \in File |-> NoInode]
    /\ data = [i \in {} |-> [bytes |-> <<>>, meant |-> Torn]]
    /\ req = [r \in Slot |-> Idle]
    /\ calm = [r \in Slot |-> TRUE]
    /\ steady = [r \in Slot |-> {}]

-----------------------------------------------------------------------------
(* Steps every handler takes.                                              *)

Become(r, state) == req' = [req EXCEPT ![r] = state]
Reply(r, ok, shown) ==
    Become(r, [pc |-> "reply", op |-> req[r].op, ok |-> ok, shown |-> shown])

\* Inodes nobody uses any more are freed; what inode i holds is changed to d.
Collect(i, d) == data' = [j \in InUse' |-> IF j = i THEN d ELSE data[j]]

\* A request arrives.  Upload and replace have a list of files to save.
Send(r) ==
    /\ ~Busy(r)
    /\ \E in \in Inputs :
         Become(r, CASE in.op = "list" -> [pc |-> "folder", op |-> "list", todo |-> Folders]
                     [] in.op \in {"delete", "serve"} ->
                          [pc |-> in.op, op |-> in.op, file |-> in.file]
                     [] OTHER -> [pc |-> "save", op |-> in.op, todo |-> in.files])
    /\ UNCHANGED <<folders, name, data>>

\* if "admin_id" not in session: ... return redirect(url_for("login"))
LoginRequired(r) ==
    /\ ~Busy(r)
    /\ \E op \in Folder \cup {"replace", "delete", "list"} :
         Become(r, [pc |-> "reply", op |-> op, ok |-> FALSE, shown |-> {}])
    /\ UNCHANGED <<folders, name, data>>

\* The response is sent.
Answer(r) ==
    /\ req[r].pc \in {"reply", "served"}
    /\ Become(r, Idle)
    /\ UNCHANGED <<folders, name, data>>

-----------------------------------------------------------------------------
(* upload_file and replace_file: save one file after the other.            *)

Saving(r) == req[r].pc = "save" /\ req[r].todo # <<>>
HeadFile(r) == Head(req[r].todo).file
HeadContent(r) == Head(req[r].todo).content
AllowedNow(r) == Saving(r) /\ HeadFile(r) \in Allowed(req[r].op)
NextFile(r) == Become(r, [pc |-> "save", op |-> req[r].op, todo |-> Tail(req[r].todo)])

\* "not allowed or wrong type": the loop goes on.
NotAllowed(r) ==
    /\ Saving(r) /\ ~AllowedNow(r)
    /\ NextFile(r)
    /\ UNCHANGED <<folders, name, data>>

\* The file is opened with "wb", which creates or empties it.
\* A mutation: it is opened without being emptied.
Opened_Kept(i) == IF i \in DOMAIN data THEN data[i].bytes ELSE <<>>
Opened(i) == <<>>
Open(r) ==
    /\ AllowedNow(r) /\ FolderOf(HeadFile(r)) \in folders
    /\ HeadFile(r) \in Present \/ Inode \ DOMAIN data # {}
    /\ LET f == HeadFile(r)
           i == IF f \in Present THEN name[f]
                ELSE CHOOSE j \in Inode : j \notin DOMAIN data
           d == [bytes |-> Opened(i),
                 meant |-> IF \E q \in Slot : Writes(q, i) THEN Torn ELSE HeadContent(r)]
       IN /\ name' = [name EXCEPT ![f] = i]
          /\ Become(r, [pc |-> "write", op |-> req[r].op, todo |-> req[r].todo,
                        inode |-> i, at |-> 0])
          /\ Collect(i, d)
    /\ UNCHANGED folders

WriteChunk(r) ==
    /\ req[r].pc = "write" /\ req[r].at < Length[HeadContent(r)]
    /\ req' = [req EXCEPT ![r].at = @ + 1]
    /\ data' = [data EXCEPT ![req[r].inode].bytes = Put(@, req[r].at + 1, HeadContent(r))]
    /\ UNCHANGED <<folders, name>>

\* (A mutation: the copy stops one chunk early.)
Written_Early(r) == req[r].at + 1 >= Length[HeadContent(r)]
Written(r) == req[r].at = Length[HeadContent(r)]

\* The file is closed; a text is then processed by a script.
Close(r) ==
    /\ req[r].pc = "write" /\ Written(r)
    /\ IF req[r].op = "text"
       THEN Become(r, [pc |-> "process", op |-> "text", todo |-> req[r].todo])
       ELSE NextFile(r)
    /\ UNCHANGED <<folders, name>>
    /\ Collect(NoInode, {})

\* The folder is missing, or the file cannot be opened: an upload ends with an
\* exception, whatever files it has saved; a replacement reports it.
OpenFails(r) ==
    /\ AllowedNow(r)
    /\ Reply(r, FALSE, {})
    /\ UNCHANGED <<folders, name, data>>

\* A write fails; what was written stays.
WriteFails(r) ==
    /\ req[r].pc = "write"
    /\ Reply(r, FALSE, {})
    /\ UNCHANGED <<folders, name>>
    /\ LET i == req[r].inode IN Collect(i, [data[i] EXCEPT !.meant = Torn])

\* The script ends, with success or not, and the loop goes on; or it cannot be
\* started, which ends the upload.
Process(r) ==
    /\ req[r].pc = "process"
    /\ NextFile(r) \/ Reply(r, FALSE, {})
    /\ UNCHANGED <<folders, name, data>>

\* Every file was dealt with.
AllSaved(r) ==
    /\ req[r].pc = "save" /\ req[r].todo = <<>>
    /\ Reply(r, TRUE, {})
    /\ UNCHANGED <<folders, name, data>>

\* delete_file: the name goes, an open file stays.  Or os.remove fails.
Delete(r) ==
    /\ req[r].pc = "delete"
    /\ name' = [name EXCEPT ![req[r].file] = NoInode]
    /\ Reply(r, req[r].file \in Present, {})
    /\ Collect(NoInode, {})
    /\ UNCHANGED folders

DeleteFails(r) ==
    /\ req[r].pc = "delete"
    /\ Reply(r, FALSE, {})
    /\ UNCHANGED <<folders, name, data>>

-----------------------------------------------------------------------------
(* upload_tool: make the folders, then look through them.                  *)

NextFolder(r) ==
    Become(r, IF Tail(req[r].todo) # <<>>
              THEN [req[r] EXCEPT !.pc = "folder", !.todo = Tail(@)]
              ELSE [pc |-> "scan", op |-> "list", todo |-> Folders, shown |-> {}])

CheckFolder(r) ==
    /\ req[r].pc = "folder"
    /\ IF Head(req[r].todo) \in folders THEN NextFolder(r)
       ELSE Become(r, [req[r] EXCEPT !.pc = "make"])
    /\ UNCHANGED <<folders, name, data>>

\* Another request may have made the folder meanwhile: makedirs raises, and the
\* page reports an error.
MakeFolder(r) ==
    /\ req[r].pc = "make"
    /\ LET d == Head(req[r].todo) IN
       IF d \in folders THEN Reply(r, FALSE, {}) /\ UNCHANGED folders
       ELSE NextFolder(r) /\ folders' = folders \cup {d}
    /\ UNCHANGED <<name, data>>

\* os.listdir of the next folder.  (A mutation: always of the same one.)
NamesIn_Images(d) == {f \in Present : FolderOf(f) = "images"}
NamesIn(d) == {f \in Present : FolderOf(f) = d}
ListFolder(r) ==
    /\ req[r].pc = "scan" /\ req[r].todo # <<>>
    /\ Become(r, [pc |-> "names", op |-> "list", todo |-> Tail(req[r].todo),
                  shown |-> req[r].shown,
                  names |-> NamesIn(Head(req[r].todo))])
    /\ UNCHANGED <<folders, name, data>>

\* os.path.isfile, name by name.
CheckName(r) ==
    /\ req[r].pc = "names"
    /\ \/ /\ req[r].names = {}
          /\ Become(r, [pc |-> "scan", op |-> "list", todo |-> req[r].todo,
                        shown |-> req[r].shown])
       \/ \E f \in req[r].names :
            req' = [req EXCEPT ![r].names = @ \ {f}, ![r].shown = @ \cup ({f} \cap Present)]
    /\ UNCHANGED <<folders, name, data>>

Listed(r) ==
    /\ req[r].pc = "scan" /\ req[r].todo = <<>>
    /\ Reply(r, TRUE, req[r].shown)
    /\ UNCHANGED <<folders, name, data>>

-----------------------------------------------------------------------------
(* serve_multimedia: look at the file, open it, send it.                   *)

Stat(r) ==
    /\ req[r].pc = "serve"
    /\ LET f == req[r].file IN
       IF f \notin Present THEN Reply(r, FALSE, {})
       ELSE Become(r, [pc |-> "open", op |-> "serve", file |-> f,
                       size |-> Len(data[name[f]].bytes)])
    /\ UNCHANGED <<folders, name, data>>

\* (A mutation: the file is taken to be there still.)
OpenToRead_Trusting(r) ==
    /\ req[r].pc = "open"
    /\ Become(r, [pc |-> "read", op |-> "serve", inode |-> name[req[r].file],
                  size |-> req[r].size, got |-> <<>>])
    /\ UNCHANGED <<folders, name, data>>
OpenToRead(r) ==
    /\ req[r].pc = "open"
    /\ LET f == req[r].file IN
       IF f \notin Present THEN Reply(r, FALSE, {})
       ELSE Become(r, [pc |-> "read", op |-> "serve", inode |-> name[f],
                       size |-> req[r].size, got |-> <<>>])
    /\ UNCHANGED <<folders, name, data>>

\* The size announced and the end of the file both end the response.
\* (A mutation: the last chunk is left out.)
MoreToRead_Short(r) ==
    Len(req[r].got) + 1 < req[r].size /\ Len(req[r].got) < Len(data[req[r].inode].bytes)
MoreToRead(r) ==
    Len(req[r].got) < req[r].size /\ Len(req[r].got) < Len(data[req[r].inode].bytes)
ReadChunk(r) ==
    /\ req[r].pc = "read" /\ MoreToRead(r)
    /\ req' = [req EXCEPT ![r].got = Append(@, data[req[r].inode].bytes[Len(@) + 1])]
    /\ UNCHANGED <<folders, name, data>>

EndOfFile(r) ==
    /\ req[r].pc = "read" /\ ~MoreToRead(r)
    /\ Become(r, [pc |-> "served", op |-> "serve", got |-> req[r].got])
    /\ UNCHANGED <<folders, name>>
    /\ Collect(NoInode, {})

-----------------------------------------------------------------------------
(* History, for the properties.                                            *)

\* Nobody writes the inode, and no write of it failed or met another one.
AtRest(i) ==
    /\ i # NoInode /\ data[i].meant # Torn
    /\ \A r \in Slot : ~Writes(r, i)

\* Nobody else is at work on the file in hand.
InHand(r) == req[r].pc \in {"open", "read", "served", "write", "process"}
Still(r) ==
    CASE req[r].pc = "open" -> AtRest(name[req[r].file])
      [] req[r].pc = "read" -> AtRest(req[r].inode)
      [] req[r].pc = "write" -> /\ name[HeadFile(r)] = req[r].inode
                                /\ \A q \in Slot \ {r} : ~Writes(q, req[r].inode)
      [] req[r].pc = "process" -> /\ HeadFile(r) \in Present
                                  /\ \A q \in Slot : ~Writes(q, name[HeadFile(r)])
      [] OTHER -> TRUE
Listing(r) ==
    \/ req[r].pc \in {"folder", "make", "scan", "names"}
    \/ req[r].pc = "reply" /\ req[r].op = "list"

Observe ==
    /\ calm' = [r \in Slot |-> (InHand(r) => calm[r]) /\ Still(r)']
    /\ steady' = [r \in Slot |->
          IF ~Listing(r)' THEN {}
          ELSE Present' \cap (IF Listing(r) THEN steady[r] ELSE File)]

Proceed(r) ==
    \/ Send(r) \/ LoginRequired(r) \/ Answer(r) \/ NotAllowed(r) \/ Open(r) \/ WriteChunk(r) \/ Close(r)
    \/ OpenFails(r) \/ WriteFails(r) \/ Process(r) \/ AllSaved(r)
    \/ Delete(r) \/ DeleteFails(r)
    \/ CheckFolder(r) \/ MakeFolder(r) \/ ListFolder(r) \/ CheckName(r) \/ Listed(r)
    \/ Stat(r) \/ OpenToRead(r) \/ ReadChunk(r) \/ EndOfFile(r)

Next == (\E r \in Slot : Proceed(r)) /\ Observe

Spec == Init /\ [][Next]_vars

-----------------------------------------------------------------------------
(* Properties.                                                             *)

Saver == Folder \cup {"replace"}
Request ==
    {Idle}
    \cup [pc : {"save", "process"}, op : Saver, todo : Seq(Sent)]
    \cup [pc : {"write"}, op : Saver, todo : Seq(Sent), inode : Inode, at : Nat]
    \cup [pc : {"delete"}, op : {"delete"}, file : File]
    \cup [pc : {"serve"}, op : {"serve"}, file : File]
    \cup [pc : {"open"}, op : {"serve"}, file : File, size : Nat]
    \cup [pc : {"read"}, op : {"serve"}, inode : Inode, size : Nat, got : Bytes]
    \cup [pc : {"served"}, op : {"serve"}, got : Bytes]
    \cup [pc : {"folder", "make"}, op : {"list"}, todo : Seq(Folder)]
    \cup [pc : {"scan"}, op : {"list"}, todo : Seq(Folder), shown : SUBSET File]
    \cup [pc : {"names"}, op : {"list"}, todo : Seq(Folder), shown : SUBSET File,
          names : SUBSET File]
    \cup [pc : {"reply"}, op : Saver \cup {"delete", "list", "serve"}, ok : BOOLEAN,
          shown : SUBSET File]

TypeOK ==
    /\ folders \subseteq Folder
    /\ name \in [File -> Inode \cup {NoInode}]
    /\ req \in [Slot -> Request]
    /\ DOMAIN data = InUse
    /\ \A i \in InUse : data[i] \in [bytes : Bytes, meant : Content \cup {Torn}]
    /\ calm \in [Slot -> BOOLEAN] /\ steady \in [Slot -> SUBSET File]

\* A file nobody is writing is one upload, whole: the one that opened it last.
\* The exceptions are a write that failed and two that met, which the code does
\* not repair; the next one alone does, also where the file gets shorter.
AtRestWhole ==
    \A f \in Present : AtRest(name[f]) => data[name[f]].bytes = Whole(data[name[f]].meant)

\* A browser gets one upload, whole, unless somebody wrote to the file while it was
\* served; deleting it meanwhile, or after the look at its size, does no harm.
ServedWhole ==
    \A r \in Slot : req[r].pc = "served" /\ calm[r] =>
        \E c \in Content : req[r].got = Whole(c)

\* The script is started on the file that was uploaded, complete, unless another
\* request has opened or deleted it since.
ProcessedWhole ==
    \A r \in Slot : req[r].pc = "process" /\ calm[r] =>
        data[name[HeadFile(r)]].bytes = Whole(HeadContent(r))

\* A listing that reports no error has every file that was there all the time,
\* although folders and files come and go while it looks.
ListComplete ==
    \A r \in Slot : req[r].pc = "reply" /\ req[r].op = "list" /\ req[r].ok =>
        steady[r] \subseteq req[r].shown

=============================================================================
