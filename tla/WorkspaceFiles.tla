---------------------------- MODULE WorkspaceFiles ----------------------------
(***************************************************************************)
(* The file tools of a sandbox: a call names a file of its session's        *)
(* workspace; the service turns the name into a path in the container, lets *)
(* the AIO file API work there, and turns the paths of the answer back.     *)
(* Attachments are imported from object storage, files are exported to it   *)
(* or published as cloud resources.                                         *)
(*                                                                          *)
(* Calls of two sessions of one user run side by side in one box; which box *)
(* it is and who protects it is module Workspace.  A path is a sequence of  *)
(* names below the directory of all workspaces, a content is a sequence of  *)
(* marks, one mark a chunk.  A step ends at an await.                        *)
(***************************************************************************)
EXTENDS Naturals, Sequences, FiniteSets, SequencesExt

CONSTANTS
  Calls,       \* tool calls
  Inputs,      \* what a call may ask for: [op, session, path, ...]
  Files,       \* path -> content of the files that are there at first
  Lstrip,      \* name -> the name without blanks at its start
  Rstrip,      \* name -> the name without blanks at its end
  Foreign,     \* the names with a backslash or a NUL
  Kind,        \* name -> "pdf", "html", or "other", by its extension
  Attachments, \* the references the turn hands over, in order: [id, key, size, deleted]
  Objects,     \* key -> content of the objects in storage at first
  MaxBytes,    \* file_transfer.max_bytes
  Faults       \* sets of what may fail, one drawn by each behaviour

Looks     == {"read", "search", "find", "grep", "glob", "list"}
Edits     == {"write", "append", "replace"}
Transfers == {"import", "export", "publish"}

\* The marks of what calls write, and of the contents that are there at first.
Marks == Calls \cup UNION {ToSet(Files[p]) : p \in DOMAIN Files}
               \cup UNION {ToSet(Objects[k]) : k \in DOMAIN Objects}

\* A mark tells what it is of: an attachment has none that a call writes or replaces, and
\* its first one begins no other attachment and no file.  (Marks are labels the model gives
\* to chunks: whatever the bytes of files and attachments are, they can be marked so.)
Apart(whole) ==
  /\ \A n \in DOMAIN whole : whole[n] \notin Calls \cup {i.old : i \in Inputs}
  /\ whole # << >> =>
       /\ \A p \in DOMAIN Files : Files[p] # << >> => Files[p][1] # whole[1]
       /\ \A n \in DOMAIN Attachments : LET other == Objects[Attachments[n].key]
            IN other # << >> /\ other[1] = whole[1] => other = whole

\* The names of a path, and those that name a directory or a file.
Names  == DOMAIN Lstrip
Proper == Names \ {"", ".", ".."}

\* The places of files: below the directory of a workspace.
Places == {p \in Seq(Proper) : Len(p) >= 2}

\* What the parameters must be; the run's module assumes it.
FilesParameters ==
  /\ MaxBytes \in Nat /\ \A i \in Inputs : i.op \in Looks \cup Edits \cup Transfers
  /\ Faults \subseteq SUBSET {"aio", "oss", "box", "unconfigured"}
  /\ Lstrip \in [Names -> Names] /\ Rstrip \in [Names -> Names]
  /\ \A i \in Inputs : i.session \in Proper /\ i.path \in Seq(Names)
  /\ \A p \in DOMAIN Files : p \in Places /\ Files[p] \in Seq(Marks) /\ ToSet(Files[p]) \cap Calls = {}
  /\ \A k \in DOMAIN Objects : k \notin Calls /\ Objects[k] \in Seq(Marks)
  /\ DOMAIN Attachments \subseteq Nat
  /\ \A n \in DOMAIN Attachments :
       Attachments[n].key \in DOMAIN Objects /\ Apart(Objects[Attachments[n].key])

VARIABLES
  tree,     \* path -> content
  objects,  \* key -> content in object storage
  tasks,    \* cloud resources announced: [call, kind, key]
  call,     \* call -> its progress
  leases,   \* calls that hold the box
  was,      \* <<path, content>> of every content a file has had
  faulty   \* what may fail

fileVars == <<tree, objects, tasks, call, leases, was, faulty>>

-----------------------------------------------------------------------------
(* Names and paths                                                          *)

\* str.strip() takes the blanks at the two ends of the whole path.
Strip(p) ==
  [i \in DOMAIN p |-> LET n == IF i = 1 THEN Lstrip[p[i]] ELSE p[i]
                      IN  IF i = Len(p) THEN Rstrip[n] ELSE n]

\* PurePosixPath drops empty names and ".".
Clean(p) ==
  LET clean[i \in 0..Len(p)] ==
        IF i = 0 THEN << >>
        ELSE IF p[i] \in {"", "."} THEN clean[i - 1] ELSE Append(clean[i - 1], p[i])
  IN clean[Len(p)]

\* What _resolve_workspace_path refuses of a stripped path: nothing at all, an absolute
\* path (the first name is empty), "..", and what is foreign.
Accepts(p) ==
  /\ p # << >> /\ Strip(p)[1] # ""
  /\ \A i \in DOMAIN p : Strip(p)[i] \notin Foreign \cup {".."}

Absolute(s, p) == <<s>> \o Clean(Strip(p))

\* Where the container finds a path.
Found(p) ==
  LET found[i \in 0..Len(p)] ==
        IF i = 0 THEN << >>
        ELSE IF p[i] = ".." THEN Front(found[i - 1]) ELSE Append(found[i - 1], p[i])
  IN found[Len(p)]

\* Mutant: the name of the workspace stays in front.
keeps_workspace(s, p) == p

\* _relative_provider_path of a path inside the workspace; "." is << >>.
Relative(s, p) == SubSeq(p, 2, Len(p))

Within(s, p) == p # << >> /\ p[1] = s

-----------------------------------------------------------------------------
\* A call that has not begun, and one that has: what it is asked, the bytes it has, those
\* of the file when it was opened, its key in storage, and the paths it answers with.
Idle == [at |-> "idle"]
Progress(a, i, buffer, seen, key) ==
  [at |-> a, in |-> i, buffer |-> buffer, seen |-> seen, key |-> key, paths |-> {}]
Begun(c, a, i) == Progress(a, i, << >>, << >>, c)
Continues(c, a, buffer, seen, key) ==
  call' = [call EXCEPT ![c] = Progress(a, @.in, buffer, seen, key)] /\ UNCHANGED leases
Ends(c, how) == call' = [call EXCEPT ![c] = Begun(c, how, @.in)] /\ leases' = leases \ {c}
On == UNCHANGED faulty

Path(c) == Found(Absolute(call[c].in.session, call[c].in.path))

FilesInit ==
  /\ tree = Files /\ objects = Objects /\ tasks = {}
  /\ call = [c \in Calls |-> Idle] /\ leases = {}
  /\ was = {<<p, Files[p]>> : p \in DOMAIN Files} /\ faulty \in Faults

\* _find_attachment: the first reference with this id that is not deleted.
Offered(id) == {n \in DOMAIN Attachments : Attachments[n].id = id /\ ~Attachments[n].deleted}
Attachment(id) == Attachments[CHOOSE n \in Offered(id) : \A k \in Offered(id) : n <= k]

\* A tool is called.  An import needs its attachment and its declared size first.
Begin(c) ==
  /\ call[c] = Idle
  /\ \E i \in Inputs :
       call' = [call EXCEPT ![c] = Begun(c,
         IF i.op = "import" /\ (Offered(i.attachment) = {} \/ Attachment(i.attachment).size > MaxBytes)
           THEN "failed" ELSE "lease", i)]
  /\ UNCHANGED <<tree, objects, tasks, leases, was>> /\ On

\* The box may be gone or its provider unknown; the path is resolved under the lease,
\* and a file that leaves the workspace needs a name.
TakeLease(c) ==
  /\ call[c].at = "lease"
  /\ LET i == call[c].in
         ok == Accepts(i.path) /\ (i.op \in {"export", "publish"} => Clean(Strip(i.path)) # << >>)
     IN  \/ "box" \in faulty /\ Ends(c, "failed")
         \/ ~ok /\ Ends(c, "failed")
         \/ /\ ok
            /\ leases' = leases \cup {c}
            /\ call' = [call EXCEPT ![c].at = CASE i.op \in Looks -> "look" [] i.op \in Edits -> "edit"
                                                [] i.op = "import" -> "fetch" [] OTHER -> "open"]
  /\ UNCHANGED <<tree, objects, tasks, was>> /\ On

-----------------------------------------------------------------------------
(* Through the provider                                                     *)

\* The file at p gets this content, at once.
Puts(p, content) ==
  /\ tree' = [q \in DOMAIN tree \cup {p} |-> IF q = p THEN content ELSE tree[q]]
  /\ was' = was \cup {<<p, content>>}

\* There is no file to write at the place of a directory, nor below a file.
Blocked(p) == Len(p) = 1 \/ \E q \in DOMAIN tree : IsStrictPrefix(p, q) \/ IsStrictPrefix(q, p)

\* A request fails before AIO has done anything: no provider, no connection, an error.
Refused(c) ==
  /\ faulty \cap {"aio", "unconfigured"} # {} \/ (call[c].at \in {"edit", "put"} /\ Blocked(Path(c)))
  /\ Ends(c, "failed") /\ UNCHANGED <<tree, was>>

\* An answer that does not come, or makes no sense, fails a call that AIO has done.
Answered(c, how) == how = "done" \/ (how = "failed" /\ "aio" \in faulty)
Configured == "unconfigured" \notin faulty

\* The files an answer names: the one that is read or searched, or those below the path.
Seen(c) ==
  IF call[c].in.op \in {"read", "search"} THEN {Path(c)} \cap DOMAIN tree
  ELSE {q \in DOMAIN tree : IsPrefix(Path(c), q)}

\* read, search, find, grep, glob, list: the paths of the answer, made relative.
Inspect(c) ==
  /\ call[c].at = "look"
  /\ LET i == call[c].in
     IN  \/ Refused(c)
         \/ /\ Configured /\ leases' = leases \ {c} /\ UNCHANGED <<tree, was>>
            /\ call' = [call EXCEPT ![c] =
                 IF Seen(c) = {} \/ \E p \in Seen(c) : ~Within(i.session, p)
                   THEN Begun(c, "failed", i)
                   ELSE [Begun(c, "done", i) EXCEPT !.paths = {<<Relative(i.session, p), p>> : p \in Seen(c)}]]
  /\ UNCHANGED <<objects, tasks>> /\ On

\* write, append, replace (each old mark becomes the new one).
Edited(c, old) ==
  CASE call[c].in.op = "write"  -> <<c>>
    [] call[c].in.op = "append" -> Append(old, c)
    [] OTHER -> [n \in DOMAIN old |-> IF old[n] = call[c].in.old THEN c ELSE old[n]]

Edit(c) ==
  /\ call[c].at = "edit"
  /\ LET p == Path(c)
         there == p \in DOMAIN tree
     IN  \/ Refused(c)
         \/ Configured /\ call[c].in.op = "replace" /\ ~there /\ Ends(c, "failed") /\ UNCHANGED <<tree, was>>
         \/ /\ Configured /\ ~Blocked(p) /\ (call[c].in.op = "replace" => there)
            /\ Puts(p, Edited(c, IF there THEN tree[p] ELSE << >>))
            /\ \E how \in {"done", "failed"} : Answered(c, how) /\ Ends(c, how)
  /\ UNCHANGED <<objects, tasks>> /\ On

-----------------------------------------------------------------------------
(* upload_file: from object storage into the workspace                      *)

\* What _download_to_file puts in the temporary file.
Spooled(content) == content

\* The link and the stream of the object; what it is said to weigh is not what it weighs.
Fetch(c) ==
  /\ call[c].at = "fetch"
  /\ LET content == Spooled(objects[Attachment(call[c].in.attachment).key])
     IN  \/ "oss" \in faulty /\ Ends(c, "failed")
         \/ Len(content) > MaxBytes /\ Ends(c, "failed")
         \/ Len(content) <= MaxBytes /\ Continues(c, "put", content, << >>, c)
  /\ UNCHANGED <<tree, objects, tasks, was>> /\ On

Put(c) ==
  /\ call[c].at = "put"
  /\ \/ Refused(c)
     \/ /\ Configured /\ ~Blocked(Path(c)) /\ Puts(Path(c), call[c].buffer)
        /\ \E how \in {"done", "failed"} : Answered(c, how) /\ Ends(c, how)
  /\ UNCHANGED <<objects, tasks>> /\ On

-----------------------------------------------------------------------------
(* download_file and upload_file_to_cloud_drive: out of the workspace       *)

Open(c) ==
  /\ call[c].at = "open"
  /\ \/ Refused(c)
     \/ /\ Configured /\ UNCHANGED <<tree, was>>
        /\ IF Path(c) \in DOMAIN tree
             THEN Continues(c, "stream", << >>, tree[Path(c)], c)
             ELSE Ends(c, "failed")
  /\ UNCHANGED <<objects, tasks>> /\ On

\* Mutant: the download goes on when the file changes (change_policy is not abort).
goes_on_changed(c) == TRUE

\* change_policy "abort": AIO breaks a download off when the file changes under it.
Unchanged(c) == tree[Path(c)] = call[c].seen

\* The next chunk, counted against the limit; after the last one the file is complete.
Stream(c) ==
  /\ call[c].at = "stream"
  /\ LET buffer == call[c].buffer
         n == Len(buffer) + 1
         file == tree[Path(c)]
     IN  IF ~Unchanged(c) \/ (n <= Len(file) /\ n > MaxBytes) THEN Ends(c, "failed")
         ELSE IF n <= Len(file) THEN Continues(c, "stream", Append(buffer, file[n]), file, c)
         ELSE Continues(c, "ticket", buffer, << >>, c)
  /\ UNCHANGED <<tree, objects, tasks, was>> /\ On

\* init_upload: the objects that have this content (md5 and size) already.
Same(c) == {k \in DOMAIN objects : objects[k] = call[c].buffer}

\* The service a file is published through: documents, web pages, or none.
Service(c) == Kind[Last(Path(c))]

\* Content that is in storage is not sent again (flash_uploaded); for the rest a place
\* and a link are given.  A resource is announced before its bytes are sent.
Ticket(c) ==
  /\ call[c].at = "ticket"
  /\ LET publish == call[c].in.op = "publish"
         after == IF publish THEN "published" ELSE "link"
     IN  \/ /\ (publish /\ Service(c) = "other") \/ "oss" \in faulty
            /\ Ends(c, "failed") /\ UNCHANGED tasks
         \/ /\ publish => Service(c) # "other"
            /\ \E k \in IF Same(c) = {} THEN {c} ELSE Same(c) :
                 /\ Continues(c, IF Same(c) = {} THEN "send" ELSE after, call[c].buffer, << >>, k)
                 /\ tasks' = tasks \cup (IF publish THEN {[call |-> c, kind |-> Service(c), key |-> k]} ELSE {})
  /\ UNCHANGED <<tree, objects, was>> /\ On

\* The PUT; with a callback, anything but 200 fails although the object may be there.
Send(c) ==
  /\ call[c].at = "send"
  /\ \/ /\ objects' = [k \in DOMAIN objects \cup {call[c].key} |->
                        IF k = call[c].key THEN call[c].buffer ELSE objects[k]]
        /\ \/ Continues(c, IF call[c].in.op = "export" THEN "link" ELSE "published", << >>, << >>, call[c].key)
           \/ "oss" \in faulty /\ Ends(c, "failed")
     \/ "oss" \in faulty /\ Ends(c, "failed") /\ UNCHANGED objects
  /\ UNCHANGED <<tree, tasks, was>> /\ On

\* The link to the exported object, or the report of the publication.
Report(c) ==
  /\ call[c].at \in {"link", "published"}
  /\ \/ /\ leases' = leases \ {c}
        /\ call' = [call EXCEPT ![c] = Progress("done", @.in, << >>, << >>, @.key)]
     \/ call[c].at = "link" /\ "oss" \in faulty /\ Ends(c, "failed")
  /\ UNCHANGED <<tree, objects, tasks, was>> /\ On

FilesNext == \E c \in Calls :
  \/ Begin(c) \/ TakeLease(c) \/ Inspect(c) \/ Edit(c)
  \/ Fetch(c) \/ Put(c) \/ Open(c) \/ Stream(c) \/ Ticket(c) \/ Send(c) \/ Report(c)

FilesSpec == FilesInit /\ [][FilesNext]_fileVars

-----------------------------------------------------------------------------
Done(c, ops) == call[c].at = "done" /\ call[c].in.op \in ops

\* What a call exports or publishes is in storage, whole and as the file once was, and
\* within the limit, whatever others wrote while it was streamed; and every resource
\* whose publication was reported was announced with this object.
ExportIsWhole == \A c \in Calls : Done(c, {"export", "publish"}) =>
  /\ <<Path(c), objects[call[c].key]>> \in was
  /\ Len(objects[call[c].key]) <= MaxBytes
  /\ Done(c, {"publish"}) => \E t \in tasks : t.call = c /\ t.key = call[c].key

\* No file ever holds a part of an attachment: an import puts all of it or nothing.
ImportIsWhole == \A w \in was, n \in DOMAIN Attachments :
  LET whole == Objects[Attachments[n].key]
  IN  w[2] # << >> /\ w[2][1] = whole[1] /\ w \notin {<<p, Files[p]>> : p \in DOMAIN Files}
        => IsPrefix(whole, w[2]) /\ Len(whole) <= MaxBytes

\* What leaves a workspace, or enters it from storage, is whole and within the limit.
TransfersAreWhole == ExportIsWhole /\ ImportIsWhole

\* What a call writes is in the workspace of its own session.
OnlyOwnFiles == \A w \in was : \A n \in DOMAIN w[2] :
  w[2][n] \in Calls => Within(call[w[2][n]].in.session, w[1])

\* A path of an answer, asked for again in the same session, is the same file, unless
\* it begins or ends with a blank or holds a backslash.
AnswersResolve == \A c \in Calls : Done(c, Looks) => \A a \in call[c].paths :
  Strip(a[1]) = a[1] /\ (\A i \in DOMAIN a[1] : a[1][i] \notin Foreign)
    => Accepts(a[1]) /\ Found(Absolute(call[c].in.session, a[1])) = a[2]

\* A name is a path of its session's workspace on the way in, and finds it on the way out.
FilesFound == OnlyOwnFiles /\ AnswersResolve
=============================================================================
