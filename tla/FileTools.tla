----------------------------- MODULE FileTools ------------------------------
(***************************************************************************)
(* The tasks of the desktop that work on files: Create, Copy, Move and     *)
(* Delete File, and the Notepad.  Each is a process of its own; the files  *)
(* are what they share.  A handler that waits for no answer of the user is *)
(* one step, and what it writes to a full disk does not arrive.            *)
(***************************************************************************)
EXTENDS Integers

CONSTANTS
  Paths,
  Mounted,         \* the paths on another file system, that rename does not reach
  ReadOnly,        \* the paths that do not open for writing
  Texts,           \* what the user types
  MaxOpened        \* bounds the launches of the Notepad while it runs

VARIABLES
  files,           \* [Paths -> contents]
  disk_full,
  confirm,         \* Delete File: the path it asks about, or None
  text,            \* the Notepad: its latest text view,
  file_path, modified,
  opened,          \* how many windows it has opened,
  touched          \* history: file_path was written or removed by a tool since

notepad == <<text, file_path, modified, opened>>
vars == <<files, disk_full, confirm, notepad, touched>>

None == "none"
Absent == "absent"
Empty == "empty"

Init ==
  /\ files \in [Paths -> Texts \cup {Absent}] /\ disk_full = FALSE
  /\ confirm = None
  /\ text = Empty /\ file_path = None /\ modified = FALSE /\ opened = 1 /\ touched = FALSE

-----------------------------------------------------------------------------
\* std::ofstream: a path that opens for writing is empty from then on; what is
\* written to it arrives unless the disk is full.
Write(f, path, content) ==
  IF path \in ReadOnly THEN f
  ELSE [f EXCEPT ![path] = IF disk_full THEN Empty ELSE content]

\* Copying an open file into another: nothing is left to read of one that has
\* just been opened for writing.
CopyOf(f, src, dst) ==
  IF src = dst /\ dst \notin ReadOnly THEN Empty ELSE f[src]

Touch == touched' = (touched \/ (file_path # None /\ files'[file_path] # files[file_path]))

\* on_create of Create File: a file that is there is overwritten.
Create(path, content) ==
  /\ files' = Write(files, path, content)
  /\ Touch /\ UNCHANGED <<disk_full, confirm, notepad>>

\* on_copy of Copy File: the destination is opened whatever became of the source.
Copy(src, dst) ==
  /\ files' = IF files[src] = Absent THEN Write(files, dst, Empty)
              ELSE Write(files, dst, CopyOf(files, src, dst))
  /\ Touch /\ UNCHANGED <<disk_full, confirm, notepad>>

\* on_move of Move File: rename, and where it fails copy and remove the source.
Renamed(src, dst) == src = dst \/ (src \in Mounted <=> dst \in Mounted)

Move(src, dst) ==
  /\ files' = IF files[src] = Absent THEN Write(files, dst, Empty)
              ELSE IF Renamed(src, dst) THEN [files EXCEPT ![src] = Absent, ![dst] = files[src]]
              ELSE IF dst \in ReadOnly THEN files
              ELSE [Write(files, dst, files[src]) EXCEPT ![src] = Absent]
  /\ Touch /\ UNCHANGED <<disk_full, confirm, notepad>>

\* on_delete of Delete File: the question, and the answer.
AskDelete(path) ==
  /\ confirm = None /\ confirm' = path
  /\ UNCHANGED <<files, disk_full, notepad, touched>>

AnswerDelete(yes) ==
  /\ confirm # None /\ confirm' = None
  /\ files' = IF yes THEN [files EXCEPT ![confirm] = Absent] ELSE files
  /\ Touch /\ UNCHANGED <<disk_full, notepad>>

-----------------------------------------------------------------------------
\* on_text_changed of the Notepad
Type(content) ==
  /\ text' = content /\ modified' = TRUE
  /\ UNCHANGED <<files, disk_full, confirm, file_path, opened, touched>>

\* on_new: it does not ask about a text that is not saved ...
New ==
  /\ text' = Empty /\ file_path' = None /\ modified' = FALSE /\ touched' = FALSE
  /\ UNCHANGED <<files, disk_full, confirm, opened>>

\* ... and neither does on_open.
Open(path) ==
  /\ files[path] # Absent
  /\ text' = files[path] /\ file_path' = path /\ modified' = FALSE /\ touched' = FALSE
  /\ UNCHANGED <<files, disk_full, confirm, opened>>

\* save_to_path, which on_save gives the path of the file or one that the user
\* chooses: the text is saved when the file opened.
Save(path) ==
  /\ path = file_path \/ file_path = None
  /\ files' = Write(files, path, text)
  /\ IF path \in ReadOnly
       THEN UNCHANGED <<file_path, modified, touched>>
       ELSE file_path' = path /\ modified' = FALSE /\ touched' = disk_full
  /\ UNCHANGED <<text, disk_full, confirm, opened>>

\* on_activate once more: the new window is empty, the path is still the old one.
Activate ==
  /\ opened < MaxOpened /\ opened' = opened + 1
  /\ text' = Empty /\ modified' = FALSE
  /\ UNCHANGED <<files, disk_full, confirm, file_path, touched>>

\* Someone else fills the disk, or clears it.
DiskFills ==
  /\ disk_full' = ~disk_full
  /\ UNCHANGED <<files, confirm, notepad, touched>>

Next ==
  \/ \E path \in Paths, content \in Texts \cup {Empty} : Create(path, content)
  \/ \E src, dst \in Paths : Copy(src, dst) \/ Move(src, dst)
  \/ \E path \in Paths : AskDelete(path) \/ Open(path) \/ Save(path)
  \/ \E yes \in BOOLEAN : AnswerDelete(yes)
  \/ \E content \in Texts : Type(content)
  \/ New \/ Activate \/ DiskFills

-----------------------------------------------------------------------------
\* The ranges of the variables.
TypeOK ==
  /\ files \in [Paths -> Texts \cup {Absent, Empty}] /\ disk_full \in BOOLEAN
  /\ confirm \in Paths \cup {None}
  /\ text \in Texts \cup {Empty} /\ file_path \in Paths \cup {None}
  /\ modified \in BOOLEAN /\ opened \in 1 .. MaxOpened /\ touched \in BOOLEAN

\* A Notepad without the mark of a changed text shows what its file holds, unless
\* a tool or a full disk has changed the file since (on_open, save_to_path), or a
\* second launch has put an empty view before the path of the first (on_activate).
UnmarkedIsSaved ==
  ~modified /\ file_path # None /\ ~touched /\ opened = 1 => files[file_path] = text

\* What a path held is still in some file after the step.
Kept(content) == content \in {Absent, Empty} \/ \E path \in Paths : files'[path] = content

\* A tool that takes something from one path to another may lose what was at the
\* destination, never what was at the source - unless it is one path, or the disk
\* is full: what a step takes out of the files altogether was at the one path it
\* writes, or at the one whose deletion was confirmed (on_create, on_copy, on_move,
\* on_delete, save_to_path).
LosesTheDestinationOnly ==
  disk_full \/
  \E path \in Paths :
    /\ \A other \in Paths \ {path} : Kept(files[other])
    /\ files'[path] = Absent => Kept(files[path]) \/ path = confirm

=============================================================================
