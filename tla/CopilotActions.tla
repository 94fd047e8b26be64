--------------------------- MODULE CopilotActions ---------------------------
(***************************************************************************)
(* What the Copilot does with the tags of an answer.  An answer may chain  *)
(* any of them; they are carried out kind by kind, each kind in the order  *)
(* in which its tags stand, and an answer that was cut off leaves its last *)
(* tag open.  (Apps that an answer creates are part of DesktopSession, the *)
(* commands that it runs part of Copilot.)                                 *)
(***************************************************************************)
EXTENDS Integers, Sequences, SequencesExt

CONSTANTS
  SafePaths,       \* the safe paths that the answers name
  Parent,          \* [SafePaths -> SafePaths \cup {Root}]
  Found,           \* what the paths may hold at first, functions on SafePaths
  Tags,            \* the tags that an answer may have
  MaxTags,         \* bounds the tags of an answer
  Apps             \* the apps that the Copilot knows (dynamic_apps)

VARIABLES
  answer,          \* the answer, a sequence of tags
  cut,             \* is its last tag left open?
  display,         \* the tags that are left in the text
  found,           \* history: what the paths held before
  place,           \* [SafePaths -> contents]
  launched,        \* the apps that were started, in order
  fs_modified,
  signalled        \* the name that pkill was given at the end, or "nobody"

vars == <<answer, cut, display, found, place, launched, fs_modified, signalled>>

Root == "."
Absent == "absent"
Folder == "folder"
Unsafe == "unsafe"        \* a path that is_safe_path refuses

Kinds == <<"create_folder", "create_file", "update_file", "download_file",
           "delete", "move", "launch">>
Pass(tag) == CHOOSE i \in DOMAIN Kinds : Kinds[i] = tag.kind

\* A path and the folders it lies in.
Above[p \in SafePaths \cup {Root}] == IF p = Root THEN {} ELSE {p} \cup Above[Parent[p]]

Within(p, q) == q \in Above[p]

IsFile(f, p) == f[p] \notin {Absent, Folder}
HasParent(f, p) == Parent[p] = Root \/ f[Parent[p]] = Folder

Init ==
  /\ answer \in UNION {[1 .. n -> Tags] : n \in 1 .. MaxTags} /\ cut \in BOOLEAN
  /\ display = answer
  /\ place \in Found /\ found = place
  /\ launched = <<>> /\ fs_modified = FALSE /\ signalled = "pending"

-----------------------------------------------------------------------------
(* The shell commands and the streams, as functions of the file system.    *)

\* mkdir -p, which makes the parents too and stops at a file.
Mkdir(f, p) ==
  IF \E q \in SafePaths : Within(p, q) /\ IsFile(f, q) THEN f
  ELSE [q \in SafePaths |-> IF Within(p, q) THEN Folder ELSE f[q]]

\* std::ofstream and curl -o.  The folder is not made, nor is that of a move:
\* the command for it passes the quotes on to dirname, and makes another one.
Write(f, p, content) ==
  IF HasParent(f, p) /\ f[p] # Folder THEN [f EXCEPT ![p] = content] ELSE f

Rm(f, p) == [q \in SafePaths |-> IF Within(q, p) THEN Absent ELSE f[q]]

\* mv into a folder takes the file to a path that no tag names, and so does a
\* folder that is renamed with what is in it.
Mv(f, p, d) ==
  IF \/ f[p] = Absent \/ Within(d, p) \/ ~HasParent(f, d)
     \/ f[p] = Folder /\ IsFile(f, d)
     \/ f[d] = Folder /\ Parent[p] = d
    THEN f
  ELSE IF f[d] = Folder THEN Rm(f, p) ELSE [Rm(f, p) EXCEPT ![d] = f[p]]

\* The tags that get as far as the file system.
OnFiles(tag) ==
  /\ tag.kind # "launch" /\ tag.path # Unsafe
  /\ tag.kind = "move" => tag.dest # Unsafe

Effect(f, tag) ==
  IF ~OnFiles(tag) THEN f
  ELSE IF tag.kind = "create_folder" THEN Mkdir(f, tag.path)
  ELSE IF tag.kind = "delete" THEN Rm(f, tag.path)
  ELSE IF tag.kind = "move" THEN Mv(f, tag.path, tag.dest)
  ELSE IF tag.kind = "update_file" /\ f[tag.path] # tag.search THEN f
  ELSE Write(f, tag.path, tag.content)

\* What <<LAUNCH:app>> starts: an app that is not known is passed over.
Started(apps, tag) ==
  IF tag.kind = "launch" /\ tag.app \in Apps THEN Append(apps, tag.app) ELSE apps

\* When fs_modified is raised: after an update that found its text, and after the
\* others whatever their command did - but never after a download, because of
\* what system returns when SIGCHLD is ignored.
Raises(f, tag) ==
  /\ OnFiles(tag)
  /\ tag.kind = "update_file" => f[tag.path] = tag.search
  /\ tag.kind # "download_file"

-----------------------------------------------------------------------------
\* The closed tags of the kind that comes first, of which the first is next.
Closed == {i \in DOMAIN display : ~(cut /\ i = Len(display))}
IsNext(i) ==
  /\ i \in Closed
  /\ \A j \in Closed : Pass(display[i]) < Pass(display[j])
                       \/ (Pass(display[i]) = Pass(display[j]) /\ i <= j)

\* One turn of the loop for a kind of tag on the file system.
Execute(i) ==
  /\ IsNext(i) /\ display[i].kind # "launch"
  /\ place' = Effect(place, display[i])
  /\ fs_modified' = (fs_modified \/ Raises(place, display[i]))
  /\ display' = RemoveAt(display, i)
  /\ UNCHANGED <<answer, cut, found, launched, signalled>>

Launch(i) ==
  /\ IsNext(i) /\ display[i].kind = "launch"
  /\ launched' = Started(launched, display[i])
  /\ display' = RemoveAt(display, i)
  /\ UNCHANGED <<answer, cut, found, place, fs_modified, signalled>>

\* When no tag is left: pkill, for a name that no process has (DesktopSession).
Signal ==
  /\ Closed = {} /\ signalled = "pending"
  /\ signalled' = IF fs_modified THEN "ams_os" ELSE "nobody"
  /\ UNCHANGED <<answer, cut, display, found, place, launched, fs_modified>>

Next == Signal \/ \E i \in DOMAIN display : Execute(i) \/ Launch(i)

-----------------------------------------------------------------------------
\* The ranges of the variables.
TypeOK ==
  /\ answer \in Seq(Tags) /\ display \in Seq(Tags) /\ cut \in BOOLEAN
  /\ DOMAIN place = SafePaths /\ launched \in Seq(Apps) /\ fs_modified \in BOOLEAN
  /\ signalled \in {"pending", "ams_os", "nobody"}

\* The tags as they are written, without the one that is cut off.
Written == IF cut THEN Front(answer) ELSE answer

\* The paths whose contents a tag may change, and those its command looks at.
Changes(tag) ==
  IF ~OnFiles(tag) THEN {}
  ELSE IF tag.kind = "create_folder" THEN Above[tag.path]
  ELSE IF tag.kind = "delete" THEN {q \in SafePaths : Within(q, tag.path)}
  ELSE IF tag.kind = "move" THEN {q \in SafePaths : Within(q, tag.path)} \cup {tag.path, tag.dest}
  ELSE {tag.path}

LooksAt(tag) ==
  IF ~OnFiles(tag) \/ tag.kind \in {"create_folder", "delete"} THEN Changes(tag)
  ELSE IF tag.kind = "move" THEN Changes(tag) \cup {Parent[tag.dest]}
  ELSE Changes(tag) \cup {Parent[tag.path]}

Apart(s, t) == Changes(s) \cap LooksAt(t) = {} /\ Changes(t) \cap LooksAt(s) = {}

\* No tag stands before one of an earlier kind that has to do with its paths.
WellOrdered(tags) ==
  \A i, j \in DOMAIN tags : i < j /\ Pass(tags[j]) < Pass(tags[i]) => Apart(tags[i], tags[j])

\* "You can chain multiple operations together in your response": an answer that
\* was carried out kind by kind has left the files, and started the apps, as if it
\* had been read from front to back, unless a tag that changes what another one
\* looks at, or looks at what it changes, stands against the order of the kinds
\* (parse_and_execute_actions).
AsWritten ==
  Closed = {} =>
    /\ WellOrdered(Written) => place = FoldLeft(Effect, found, Written)
    /\ launched = FoldLeft(Started, <<>>, Written)

\* An answer that ends without a signal has changed no file but by a download
\* (fs_modified).  Whom the signal reaches is another matter: the desktop goes by
\* another name (DesktopSession, ProcessName), so that it reaches nobody.
ChangesAreSignalled ==
  signalled = "nobody" /\ place # found =>
    \E i \in DOMAIN answer : answer[i].kind = "download_file"

=============================================================================
