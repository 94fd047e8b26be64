------------------------------ MODULE GuiProofs ------------------------------
(***************************************************************************)
(* Proofs about module GuiTasks, for any boards, songs, openings, puzzles, *)
(* files, texts and answers that its assumptions allow: an inductive       *)
(* invariant for each task, and at the end the theorems about the task     *)
(* that is open.                                                           *)
(***************************************************************************)
EXTENDS GuiTasks, Induction, FiniteSetTheorems, SequenceTheorems

-----------------------------------------------------------------------------
(* The music player.                                                       *)

\* What a process of the player that is heard stands for: the song that is shown
\* as playing, and the process that audio_pid names.
SoundIsNamed == sounding # {} => audio_pid = current

MusicInv == MusicPlayer!TypeOK /\ MusicPlayer!SoundIsCurrent /\ SoundIsNamed

\* A time has a first tick.
LEMMA TimesStart ==
  ASSUME NEW song \in MusicPlayer!PLAYLIST
  PROVE  Duration[song] \in Nat /\ 0 \in 0 .. Duration[song]
  BY SongsHaveTimes

\* The player starts in its invariant.
LEMMA MusicStarts == MusicPlayer!Init => MusicInv
<1> SUFFICES ASSUME MusicPlayer!Init PROVE MusicInv
  OBVIOUS
<1>1. 0 \in MusicPlayer!PLAYLIST
  BY SongsHaveTimes DEF MusicPlayer!PLAYLIST
<1>2. progress \in 0 .. Duration[current] /\ current \in MusicPlayer!PLAYLIST
  BY <1>1, TimesStart DEF MusicPlayer!Init
<1>3. music_windows \subseteq 1 .. MaxWindows /\ latest \in 1 .. MaxWindows
  BY BoundsAreNumbers DEF MusicPlayer!Init
<1>4. sounding = {} /\ playing \in BOOLEAN /\ audio_pid = -1
  BY DEF MusicPlayer!Init
<1> QED
  BY <1>2, <1>3, <1>4
  DEF MusicInv, MusicPlayer!TypeOK, MusicPlayer!SoundIsCurrent, SoundIsNamed

\* The index of the next song, or of the one before, is one of the list.
LEMMA SongAfter ==
  ASSUME NEW i \in Int
  PROVE  i % SONG_COUNT \in MusicPlayer!PLAYLIST
  BY SongsHaveTimes DEF MusicPlayer!PLAYLIST

\* Every step keeps the invariant.
LEMMA MusicSteps == MusicInv /\ [MusicPlayer!Next]_(MusicPlayer!vars) => MusicInv'
<1> SUFFICES ASSUME MusicInv, [MusicPlayer!Next]_(MusicPlayer!vars) PROVE MusicInv'
  OBVIOUS
<1> USE DEF MusicInv, MusicPlayer!TypeOK, MusicPlayer!SoundIsCurrent, SoundIsNamed
<1>1. ASSUME MusicPlayer!Play PROVE MusicInv'
  BY <1>1 DEF MusicPlayer!Play, MusicPlayer!StopAudio
<1>2. ASSUME MusicPlayer!Pause PROVE MusicInv'
  BY <1>2 DEF MusicPlayer!Pause, MusicPlayer!StopAudio
<1>3. ASSUME NEW song \in MusicPlayer!PLAYLIST, MusicPlayer!LoadAndPlay(song),
             music_windows' = music_windows, latest' = latest
      PROVE  MusicInv'
  BY <1>3, TimesStart, SongsHaveTimes DEF MusicPlayer!LoadAndPlay
<1>4. ASSUME NEW song \in MusicPlayer!PLAYLIST, MusicPlayer!LoadSong(song),
             playing' = playing,
             music_windows' \subseteq 1 .. MaxWindows, latest' \in 1 .. MaxWindows
      PROVE  MusicInv'
  BY <1>4, TimesStart DEF MusicPlayer!LoadSong, MusicPlayer!StopAudio
<1>5. ASSUME NEW by \in {-1, 1}, MusicPlayer!Skip(by) PROVE MusicInv'
  <2>0. current + by + SONG_COUNT \in Int
    BY SongsHaveTimes DEF MusicPlayer!PLAYLIST
  <2>1. (current + by + SONG_COUNT) % SONG_COUNT \in MusicPlayer!PLAYLIST
    BY <2>0, SongAfter
  <2>2. CASE playing
    BY <1>3, <1>5, <2>1, <2>2 DEF MusicPlayer!Skip
  <2>3. CASE ~playing
    <3>1. PICK song \in MusicPlayer!PLAYLIST : MusicPlayer!LoadSong(song) /\ playing' = playing
      BY <1>5, <2>1, <2>3, Zenon DEF MusicPlayer!Skip
    <3>2. music_windows' \subseteq 1 .. MaxWindows /\ latest' \in 1 .. MaxWindows
      BY <1>5 DEF MusicPlayer!Skip
    <3> QED BY <1>4, <3>1, <3>2
  <2> QED BY <2>2, <2>3
<1>6. ASSUME NEW song \in MusicPlayer!PLAYLIST, MusicPlayer!Choose(song) PROVE MusicInv'
  BY <1>3, <1>6 DEF MusicPlayer!Choose
<1>7. ASSUME MusicPlayer!Tick PROVE MusicInv'
  <2>0. current + 1 \in Int
    BY SongsHaveTimes DEF MusicPlayer!PLAYLIST
  <2>1. (current + 1) % SONG_COUNT \in MusicPlayer!PLAYLIST
    BY <2>0, SongAfter
  <2>2. CASE progress + 1 > Duration[current]
    BY <1>3, <1>7, <2>1, <2>2 DEF MusicPlayer!Tick
  <2>3. CASE ~(progress + 1 > Duration[current])
    <3>1. progress' \in 0 .. Duration[current]
      BY <1>7, <2>3, TimesStart DEF MusicPlayer!Tick
    <3>2. UNCHANGED <<current, playing, sounding, audio_pid, music_windows, latest>>
      BY <1>7, <2>3, Zenon DEF MusicPlayer!Tick
    <3> QED BY <3>1, <3>2
  <2> QED BY <2>2, <2>3
<1>8. ASSUME MusicPlayer!SoundEnds PROVE MusicInv'
  BY <1>8 DEF MusicPlayer!SoundEnds
<1>9. ASSUME MusicPlayer!Activate PROVE MusicInv'
  BY <1>4, <1>9, SongsHaveTimes, BoundsAreNumbers DEF MusicPlayer!Activate, MusicPlayer!PLAYLIST
<1>10. ASSUME NEW w \in music_windows, MusicPlayer!Close(w) PROVE MusicInv'
  BY <1>10 DEF MusicPlayer!Close, MusicPlayer!StopAudio
<1>11. ASSUME MusicPlayer!Crash PROVE MusicInv'
  BY <1>11 DEF MusicPlayer!Crash
<1>12. ASSUME UNCHANGED MusicPlayer!vars PROVE MusicInv'
  BY <1>12 DEF MusicPlayer!vars
<1> QED
  BY <1>1, <1>2, <1>5, <1>6, <1>7, <1>8, <1>9, <1>10, <1>11, <1>12 DEF MusicPlayer!Next

-----------------------------------------------------------------------------
(* The file tools and Notepad.                                             *)

FilesInv == FileTools!TypeOK /\ FileTools!UnmarkedIsSaved

\* The tools start in their invariant.
LEMMA FilesStart == FileTools!Init => FilesInv
<1> SUFFICES ASSUME FileTools!Init PROVE FilesInv
  OBVIOUS
<1>1. files \in [Paths -> Texts \cup {FileTools!Absent, FileTools!Empty}]
  BY DEF FileTools!Init
<1>2. opened \in 1 .. MaxOpened
  BY BoundsAreNumbers DEF FileTools!Init
<1> QED
  BY <1>1, <1>2 DEF FileTools!Init, FilesInv, FileTools!TypeOK, FileTools!UnmarkedIsSaved

\* The contents that a path may have.
Contents == Texts \cup {FileTools!Absent, FileTools!Empty}

\* Writing to a path leaves the others alone, and no path without a file that was
\* written to.
LEMMA WriteKeeps ==
  ASSUME NEW f \in [Paths -> Contents], NEW path \in Paths, NEW content \in Contents
  PROVE  /\ FileTools!Write(f, path, content) \in [Paths -> Contents]
         /\ \A other \in Paths \ {path} : FileTools!Write(f, path, content)[other] = f[other]
         /\ path \notin ReadOnly /\ ~disk_full => FileTools!Write(f, path, content)[path] = content
         /\ path \in ReadOnly => FileTools!Write(f, path, content) = f
         /\ FileTools!Write(f, path, content)[path] \in {f[path], content, FileTools!Empty}
  BY DEF FileTools!Write, Contents

\* A step of a tool that raises touched as it should keeps the invariant.
LEMMA ToolKeeps ==
  ASSUME FilesInv, files' \in [Paths -> Contents], FileTools!Touch,
         UNCHANGED <<disk_full, text, file_path, modified, opened>>,
         confirm' \in Paths \cup {FileTools!None}
  PROVE  FilesInv'
<1>1. touched' \in BOOLEAN
  BY DEF FilesInv, FileTools!TypeOK, FileTools!Touch
<1>2. FileTools!TypeOK'
  BY <1>1 DEF FilesInv, FileTools!TypeOK, Contents
<1>3. FileTools!UnmarkedIsSaved'
  BY DEF FilesInv, FileTools!TypeOK, FileTools!UnmarkedIsSaved, FileTools!Touch
<1> QED BY <1>2, <1>3 DEF FilesInv

\* Every step keeps the invariant.
LEMMA FilesStep == FilesInv /\ [FileTools!Next]_(FileTools!vars) => FilesInv'
<1> SUFFICES ASSUME FilesInv, [FileTools!Next]_(FileTools!vars) PROVE FilesInv'
  OBVIOUS
<1>0. files \in [Paths -> Contents] /\ FileTools!Absent \in Contents /\ FileTools!Empty \in Contents
  BY DEF FilesInv, FileTools!TypeOK, Contents
<1>t. confirm \in Paths \cup {FileTools!None} /\ text \in Contents
  BY DEF FilesInv, FileTools!TypeOK, Contents
<1>1. ASSUME NEW path \in Paths, NEW content \in Texts \cup {FileTools!Empty},
             FileTools!Create(path, content)
      PROVE  FilesInv'
  <2>1. content \in Contents
    BY DEF Contents
  <2>2. files' \in [Paths -> Contents]
    BY <1>0, <1>1, <2>1, WriteKeeps DEF FileTools!Create
  <2> QED BY <1>1, <1>t, <2>2, ToolKeeps DEF FileTools!Create, FileTools!notepad
<1>2. ASSUME NEW src \in Paths, NEW dst \in Paths, FileTools!Copy(src, dst)
      PROVE  FilesInv'
  <2>1. FileTools!CopyOf(files, src, dst) \in Contents
    BY <1>0 DEF FileTools!CopyOf
  <2>2. files' \in [Paths -> Contents]
    BY <1>0, <1>2, <2>1, WriteKeeps DEF FileTools!Copy
  <2> QED BY <1>2, <1>t, <2>2, ToolKeeps DEF FileTools!Copy, FileTools!notepad
<1>3. ASSUME NEW src \in Paths, NEW dst \in Paths, FileTools!Move(src, dst)
      PROVE  FilesInv'
  <2>1. /\ FileTools!Write(files, dst, FileTools!Empty) \in [Paths -> Contents]
        /\ FileTools!Write(files, dst, files[src]) \in [Paths -> Contents]
    BY <1>0, WriteKeeps
  <2>2. files' \in [Paths -> Contents]
    BY <1>0, <1>3, <2>1 DEF FileTools!Move
  <2> QED BY <1>3, <1>t, <2>2, ToolKeeps DEF FileTools!Move, FileTools!notepad
<1>4. ASSUME NEW path \in Paths, FileTools!AskDelete(path) PROVE FilesInv'
  BY <1>4 DEF FileTools!AskDelete, FileTools!notepad, FilesInv, FileTools!TypeOK, FileTools!UnmarkedIsSaved
<1>5. ASSUME NEW yes \in BOOLEAN, FileTools!AnswerDelete(yes) PROVE FilesInv'
  <2>1. files' \in [Paths -> Contents]
    BY <1>0, <1>5 DEF FileTools!AnswerDelete
  <2> QED BY <1>5, <1>t, <2>1, ToolKeeps DEF FileTools!AnswerDelete, FileTools!notepad
<1>6. ASSUME NEW content \in Texts, FileTools!Type(content) PROVE FilesInv'
  BY <1>6 DEF FileTools!Type, FilesInv, FileTools!TypeOK, FileTools!UnmarkedIsSaved
<1>7. ASSUME FileTools!New PROVE FilesInv'
  BY <1>7 DEF FileTools!New, FilesInv, FileTools!TypeOK, FileTools!UnmarkedIsSaved
<1>8. ASSUME NEW path \in Paths, FileTools!Open(path) PROVE FilesInv'
  BY <1>8 DEF FileTools!Open, FilesInv, FileTools!TypeOK, FileTools!UnmarkedIsSaved
<1>9. ASSUME NEW path \in Paths, FileTools!Save(path) PROVE FilesInv'
  <2>1. files' = FileTools!Write(files, path, text)
    BY <1>9 DEF FileTools!Save
  <2>2. files' \in [Paths -> Contents]
    BY <1>0, <1>t, <2>1, WriteKeeps
  <2>3. CASE path \in ReadOnly
    <3>1. files' = files
      BY <1>0, <1>t, <2>1, <2>3, WriteKeeps
    <3> QED
      BY <1>9, <2>3, <3>1 DEF FileTools!Save, FilesInv, FileTools!TypeOK, FileTools!UnmarkedIsSaved
  <2>4. CASE path \notin ReadOnly
    <3>1. file_path' = path /\ modified' = FALSE /\ touched' = disk_full
          /\ UNCHANGED <<text, disk_full, confirm, opened>>
      BY <1>9, <2>4, Zenon DEF FileTools!Save
    <3>2. FileTools!TypeOK'
      BY <2>2, <3>1 DEF FilesInv, FileTools!TypeOK, Contents
    <3>3. ~disk_full => files'[path] = text
      BY <1>0, <1>t, <2>1, <2>4, WriteKeeps
    <3> QED BY <3>1, <3>2, <3>3 DEF FilesInv, FileTools!UnmarkedIsSaved
  <2> QED BY <2>3, <2>4
<1>10. ASSUME FileTools!Activate PROVE FilesInv'
  <2>1. opened' \in 1 .. MaxOpened /\ opened' # 1
    BY <1>10, BoundsAreNumbers DEF FileTools!Activate, FilesInv, FileTools!TypeOK
  <2> QED
    BY <1>10, <2>1 DEF FileTools!Activate, FilesInv, FileTools!TypeOK, FileTools!UnmarkedIsSaved
<1>11. ASSUME FileTools!DiskFills PROVE FilesInv'
  <2>1. disk_full' \in BOOLEAN /\ UNCHANGED <<files, confirm, text, file_path, modified, opened, touched>>
    BY <1>11 DEF FileTools!DiskFills, FileTools!notepad
  <2> QED BY <2>1 DEF FilesInv, FileTools!TypeOK, FileTools!UnmarkedIsSaved
<1>12. ASSUME UNCHANGED FileTools!vars PROVE FilesInv'
  BY <1>12 DEF FileTools!vars, FileTools!notepad, FilesInv, FileTools!TypeOK, FileTools!UnmarkedIsSaved
<1> QED
  BY <1>1, <1>2, <1>3, <1>4, <1>5, <1>6, <1>7, <1>8, <1>9, <1>10, <1>11, <1>12
  DEF FileTools!Next

\* A step that changes one path at most, and leaves no gap there, loses no more
\* than what was there.
LEMMA OnePathLost ==
  ASSUME NEW path \in Paths,
         \A other \in Paths \ {path} : FileTools!Kept(files[other]),
         files'[path] # FileTools!Absent
  PROVE  FileTools!LosesTheDestinationOnly
  BY DEF FileTools!LosesTheDestinationOnly

\* A step loses the file that it names at most.
LEMMA FilesAreKept ==
  FilesInv /\ [FileTools!Next]_(FileTools!vars) => FileTools!LosesTheDestinationOnly
<1> SUFFICES ASSUME FilesInv, [FileTools!Next]_(FileTools!vars), ~disk_full
             PROVE  FileTools!LosesTheDestinationOnly
  BY DEF FileTools!LosesTheDestinationOnly
<1>0. files \in [Paths -> Contents] /\ FileTools!Absent \in Contents /\ FileTools!Empty \in Contents
  BY DEF FilesInv, FileTools!TypeOK, Contents
<1>t. confirm \in Paths \cup {FileTools!None} /\ text \in Texts \cup {FileTools!Empty}
  BY DEF FilesInv, FileTools!TypeOK
<1>e. FileTools!Empty # FileTools!Absent /\ FileTools!Absent \notin Texts
  BY FilesAreNamed DEF FileTools!Empty, FileTools!Absent
<1>s. ASSUME NEW path \in Paths, files'[path] = files[path]
      PROVE  FileTools!Kept(files[path])
  BY <1>s DEF FileTools!Kept
<1>u. ASSUME files' = files PROVE FileTools!LosesTheDestinationOnly
  <2>1. PICK path \in Paths : TRUE
    BY FilesAreNamed
  <2> QED BY <2>1, <1>u, <1>s DEF FileTools!LosesTheDestinationOnly
<1>w. ASSUME NEW path \in Paths, NEW content \in Contents,
             content # FileTools!Absent, files' = FileTools!Write(files, path, content)
      PROVE  FileTools!LosesTheDestinationOnly
  <2>1. CASE path \in ReadOnly
    BY <1>w, <1>u, <1>0, <2>1, WriteKeeps
  <2>2. CASE path \notin ReadOnly
    <3>1. files'[path] = content
      BY <1>w, <1>0, <2>2, WriteKeeps
    <3>2. \A other \in Paths \ {path} : FileTools!Kept(files[other])
      BY <1>w, <1>0, <1>s, WriteKeeps
    <3> QED BY <1>w, <3>1, <3>2, OnePathLost
  <2> QED BY <2>1, <2>2
<1>1. ASSUME NEW path \in Paths, NEW content \in Texts \cup {FileTools!Empty},
             FileTools!Create(path, content)
      PROVE  FileTools!LosesTheDestinationOnly
  <2>1. content \in Contents /\ content # FileTools!Absent
    BY <1>e DEF Contents
  <2> QED BY <1>1, <1>w, <2>1 DEF FileTools!Create
<1>2. ASSUME NEW src \in Paths, NEW dst \in Paths, FileTools!Copy(src, dst)
      PROVE  FileTools!LosesTheDestinationOnly
  <2>1. CASE files[src] = FileTools!Absent
    BY <1>0, <1>2, <1>e, <1>w, <2>1 DEF FileTools!Copy
  <2>2. CASE files[src] # FileTools!Absent
    <3>1. FileTools!CopyOf(files, src, dst) \in Contents \ {FileTools!Absent}
      BY <1>0, <1>e, <2>2 DEF FileTools!CopyOf
    <3> QED BY <1>2, <1>w, <2>2, <3>1 DEF FileTools!Copy
  <2> QED BY <2>1, <2>2
<1>3. ASSUME NEW src \in Paths, NEW dst \in Paths, FileTools!Move(src, dst)
      PROVE  FileTools!LosesTheDestinationOnly
  <2>1. CASE files[src] = FileTools!Absent
    BY <1>0, <1>3, <1>e, <1>w, <2>1 DEF FileTools!Move
  <2>2. CASE files[src] # FileTools!Absent /\ FileTools!Renamed(src, dst)
    <3>1. files' = [files EXCEPT ![src] = FileTools!Absent, ![dst] = files[src]]
      BY <1>3, <2>2 DEF FileTools!Move
    <3>2. files'[dst] = files[src]
      BY <1>0, <3>1
    <3>3. ASSUME NEW other \in Paths \ {dst} PROVE FileTools!Kept(files[other])
      <4>1. CASE other = src
        BY <3>2, <4>1 DEF FileTools!Kept
      <4>2. CASE other # src
        BY <1>0, <1>s, <3>1, <4>2
      <4> QED BY <4>1, <4>2
    <3> QED BY <2>2, <3>2, <3>3, OnePathLost
  <2>3. CASE files[src] # FileTools!Absent /\ ~FileTools!Renamed(src, dst) /\ dst \in ReadOnly
    BY <1>3, <1>u, <2>3 DEF FileTools!Move
  <2>4. CASE files[src] # FileTools!Absent /\ ~FileTools!Renamed(src, dst) /\ dst \notin ReadOnly
    <3>0. src # dst
      BY <2>4 DEF FileTools!Renamed
    <3> DEFINE w == FileTools!Write(files, dst, files[src])
    <3>1. files' = [w EXCEPT ![src] = FileTools!Absent]
      BY <1>3, <2>4 DEF FileTools!Move
    <3>2. /\ w \in [Paths -> Contents]
          /\ \A other \in Paths \ {dst} : w[other] = files[other]
          /\ w[dst] = files[src]
      BY <1>0, <2>4, WriteKeeps
    <3> HIDE DEF w
    <3>3. files'[dst] = files[src]
      BY <3>0, <3>1, <3>2
    <3>4. ASSUME NEW other \in Paths \ {dst} PROVE FileTools!Kept(files[other])
      <4>1. CASE other = src
        BY <3>3, <4>1 DEF FileTools!Kept
      <4>2. CASE other # src
        BY <3>1, <3>2, <1>s, <4>2
      <4> QED BY <4>1, <4>2
    <3> QED BY <2>4, <3>3, <3>4, OnePathLost
  <2> QED BY <2>1, <2>2, <2>3, <2>4
<1>4. ASSUME NEW path \in Paths, FileTools!AskDelete(path) PROVE files' = files
  BY <1>4 DEF FileTools!AskDelete
<1>5. ASSUME NEW yes \in BOOLEAN, FileTools!AnswerDelete(yes)
      PROVE  FileTools!LosesTheDestinationOnly
  <2>1. confirm \in Paths
    BY <1>5, <1>t DEF FileTools!AnswerDelete
  <2>2. \A other \in Paths \ {confirm} : files'[other] = files[other]
    BY <1>0, <1>5, <2>1 DEF FileTools!AnswerDelete
  <2> QED BY <1>s, <2>1, <2>2 DEF FileTools!LosesTheDestinationOnly
<1>6. ASSUME NEW content \in Texts, FileTools!Type(content) PROVE files' = files
  BY <1>6 DEF FileTools!Type
<1>7. ASSUME FileTools!New PROVE files' = files
  BY <1>7 DEF FileTools!New
<1>8. ASSUME NEW path \in Paths, FileTools!Open(path) PROVE files' = files
  BY <1>8 DEF FileTools!Open
<1>9. ASSUME NEW path \in Paths, FileTools!Save(path) PROVE FileTools!LosesTheDestinationOnly
  <2>1. text \in Contents /\ text # FileTools!Absent
    BY <1>e, <1>t DEF Contents
  <2> QED BY <1>9, <1>w, <2>1 DEF FileTools!Save
<1>10. ASSUME FileTools!Activate PROVE files' = files
  BY <1>10 DEF FileTools!Activate
<1>11. ASSUME FileTools!DiskFills PROVE files' = files
  BY <1>11 DEF FileTools!DiskFills
<1>12. ASSUME UNCHANGED FileTools!vars PROVE files' = files
  BY <1>12 DEF FileTools!vars
<1> QED
  BY <1>1, <1>2, <1>3, <1>4, <1>5, <1>6, <1>7, <1>8, <1>9, <1>10, <1>11, <1>12, <1>u
  DEF FileTools!Next

-----------------------------------------------------------------------------
(* AMS Studio.                                                             *)

\* The texts of make in the console.
Verdict(t) == t.kind \in AmsStudio!Verdicts
OfMake(t) == t.kind \in AmsStudio!Verdicts \cup {"line"}

\* No text about a build stands in t after its verdict in s.
VerdictsEnd(s, t) ==
  \A i \in 1 .. Len(s), j \in 1 .. Len(t) :
    Verdict(s[i]) /\ OfMake(t[j]) => s[i].of < t[j].of

\* The texts of make are in the order of the builds.
InOrder(s) ==
  \A i, j \in 1 .. Len(s) : i < j /\ Verdict(s[i]) /\ OfMake(s[j]) => s[i].of < s[j].of

\* The texts of s are about builds that were started, and none is the verdict of
\* a build whose make runs.
OfThePast(s) ==
  \A i \in 1 .. Len(s) :
    OfMake(s[i]) => /\ s[i].of <= build
                    /\ Verdict(s[i]) /\ s[i].of = build => thread[build] # "make"

\* Only the latest build has a thread, and is_compiling is raised until it ends.
OneThread ==
  \A b \in AmsStudio!Builds : thread[b] # "none" => b = build /\ is_compiling = TRUE

StudioInv ==
  /\ AmsStudio!TypeOK /\ OneThread
  /\ InOrder(console) /\ InOrder(idle) /\ VerdictsEnd(console, idle)
  /\ OfThePast(console) /\ OfThePast(idle)

\* A verdict is none of the other kinds of text.
LEMMA VerdictsAre ==
  /\ AmsStudio!Verdicts \subseteq {"completed", "failed", "no_make"}
  /\ "line" \notin AmsStudio!Verdicts /\ "header" \notin AmsStudio!Verdicts
  /\ "message" \notin AmsStudio!Verdicts
  BY DEF AmsStudio!Verdicts, AmsStudio!pclose

\* The studio starts in its invariant.
LEMMA StudioStarts == AmsStudio!Init => StudioInv
<1> SUFFICES ASSUME AmsStudio!Init PROVE StudioInv
  OBVIOUS
<1>a. build = 0 /\ is_compiling = FALSE
  BY Zenon DEF AmsStudio!Init
<1>0. build \in 0 .. MaxBuilds
  BY <1>a, BoundsAreNumbers
<1>t. thread \in [AmsStudio!Builds -> {"none", "make", "told"}]
  BY DEF AmsStudio!Init
<1>s. idle \in Seq(AmsStudio!Text) /\ console \in Seq(AmsStudio!Text)
  BY DEF AmsStudio!Init
<1>1. AmsStudio!TypeOK
  BY <1>a, <1>0, <1>t, <1>s, Zenon DEF AmsStudio!TypeOK
<1>2. OneThread
  BY DEF AmsStudio!Init, OneThread
<1>3. Len(console) = 0 /\ Len(idle) = 0
  BY DEF AmsStudio!Init
<1> QED
  BY <1>1, <1>2, <1>3 DEF StudioInv, InOrder, VerdictsEnd, OfThePast

\* A text t may follow those of s.
MayFollow(s, t) ==
  \A i \in 1 .. Len(s) : Verdict(s[i]) /\ OfMake(t) => s[i].of < t.of

\* A text that may follow keeps the console in order ...
LEMMA AppendInOrder ==
  ASSUME NEW s \in Seq(AmsStudio!Text), NEW t \in AmsStudio!Text, InOrder(s), MayFollow(s, t)
  PROVE  InOrder(Append(s, t))
  BY DEF InOrder, MayFollow

\* ... and what waits to be shown.
LEMMA AppendAfter ==
  ASSUME NEW s \in Seq(AmsStudio!Text), NEW u \in Seq(AmsStudio!Text), NEW t \in AmsStudio!Text,
         VerdictsEnd(s, u), MayFollow(s, t)
  PROVE  VerdictsEnd(s, Append(u, t))
<1> SUFFICES ASSUME NEW i \in 1 .. Len(s), NEW j \in 1 .. Len(u) + 1,
                    Verdict(s[i]), OfMake(Append(u, t)[j])
             PROVE  s[i].of < Append(u, t)[j].of
  BY DEF VerdictsEnd
<1>1. CASE j = Len(u) + 1
  BY <1>1 DEF MayFollow
<1>2. CASE j # Len(u) + 1
  BY <1>2 DEF VerdictsEnd
<1> QED BY <1>1, <1>2

\* A text from the build with the thread comes into the queue.
LEMMA TextArrives ==
  ASSUME StudioInv, NEW t \in AmsStudio!Text, idle' = Append(idle, t), UNCHANGED <<build, console>>,
         OfMake(t) => t.of = build /\ thread[build] = "make" /\ build \in AmsStudio!Builds
  PROVE  InOrder(console)' /\ InOrder(idle)' /\ VerdictsEnd(console, idle)'
<1> DEFINE q == idle
<1>1. console \in Seq(AmsStudio!Text) /\ idle \in Seq(AmsStudio!Text) /\ build \in Nat
  BY BoundsAreNumbers DEF StudioInv, AmsStudio!TypeOK
<1>2. ASSUME NEW s \in Seq(AmsStudio!Text), OfThePast(s) PROVE MayFollow(s, t)
  <2> SUFFICES ASSUME NEW i \in 1 .. Len(s), Verdict(s[i]), OfMake(t) PROVE s[i].of < t.of
    BY DEF MayFollow
  <2>1. s[i].of <= build /\ s[i].of # build
    BY <1>2 DEF OfThePast, Verdict, OfMake
  <2>2. s[i] \in AmsStudio!Text
    BY <1>2
  <2>3. s[i].of \in Int
    BY <2>2 DEF AmsStudio!Text
  <2> QED BY <1>1, <2>1, <2>3
<1>3. MayFollow(console, t) /\ MayFollow(idle, t)
  BY <1>1, <1>2 DEF StudioInv
<1>4. InOrder(Append(idle, t))
  BY <1>1, <1>3, AppendInOrder DEF StudioInv
<1>5. VerdictsEnd(console, Append(idle, t))
  BY <1>1, <1>3, AppendAfter DEF StudioInv
<1> QED BY <1>4, <1>5 DEF StudioInv, InOrder, VerdictsEnd

\* Every step keeps the invariant.
LEMMA StudioSteps == StudioInv /\ [AmsStudio!Next]_(AmsStudio!vars) => StudioInv'
<1> SUFFICES ASSUME StudioInv, [AmsStudio!Next]_(AmsStudio!vars) PROVE StudioInv'
  OBVIOUS
<1>0. /\ is_compiling \in BOOLEAN /\ build \in 0 .. MaxBuilds
      /\ thread \in [AmsStudio!Builds -> {"none", "make", "told"}]
      /\ idle \in Seq(AmsStudio!Text) /\ console \in Seq(AmsStudio!Text)
  BY DEF StudioInv, AmsStudio!TypeOK
<1>b. MaxBuilds \in Nat /\ AmsStudio!Builds = 1 .. MaxBuilds
  BY BoundsAreNumbers DEF AmsStudio!Builds
<1>1. ASSUME AmsStudio!Compile PROVE StudioInv'
  <2> DEFINE h == [kind |-> "header", of |-> build + 1]
  <2>1. h \in AmsStudio!Text
    BY <1>0, <1>1, <1>b DEF AmsStudio!Compile, AmsStudio!Text
  <2>2. ~OfMake(h) /\ ~Verdict(h)
    BY VerdictsAre DEF OfMake, Verdict
  <2> HIDE DEF h
  <2>3. /\ is_compiling' = TRUE /\ build' = build + 1 /\ console' = <<h>>
        /\ thread' = [thread EXCEPT ![build + 1] = "make"] /\ idle' = idle
        /\ build < MaxBuilds /\ ~is_compiling
    BY <1>1, Zenon DEF AmsStudio!Compile, h
  <2>4. build + 1 \in AmsStudio!Builds
    BY <1>0, <1>b, <2>3
  <2>5. AmsStudio!TypeOK'
    <3>1. build' \in 0 .. MaxBuilds
      BY <1>0, <1>b, <2>3
    <3>2. thread' \in [AmsStudio!Builds -> {"none", "make", "told"}]
      BY <1>0, <2>3, <2>4
    <3>3. console' \in Seq(AmsStudio!Text)
      BY <2>1, <2>3
    <3> QED BY <1>0, <2>3, <3>1, <3>2, <3>3 DEF AmsStudio!TypeOK
  <2>6. OneThread'
    BY <1>0, <2>3, <2>4 DEF StudioInv, OneThread
  <2>7. Len(console') = 1 /\ console'[1] = h
    BY <2>3
  <2>8. InOrder(console)' /\ VerdictsEnd(console, idle)' /\ OfThePast(console)'
    BY <2>2, <2>7 DEF InOrder, VerdictsEnd, OfThePast
  <2>9. InOrder(idle)'
    BY <2>3 DEF StudioInv, InOrder
  <2>10. OfThePast(idle)'
    <3> SUFFICES ASSUME NEW i \in 1 .. Len(idle), OfMake(idle[i])
                 PROVE  idle[i].of <= build + 1 /\ idle[i].of # build + 1
      BY <2>3 DEF OfThePast
    <3>1. idle[i] \in AmsStudio!Text
      BY <1>0
    <3>2. idle[i].of \in Int
      BY <3>1 DEF AmsStudio!Text
    <3>3. idle[i].of <= build
      BY DEF StudioInv, OfThePast
    <3> QED BY <1>0, <3>2, <3>3
  <2> QED BY <2>5, <2>6, <2>8, <2>9, <2>10 DEF StudioInv
<1>2. ASSUME AmsStudio!Message PROVE StudioInv'
  <2> DEFINE t == [kind |-> "message", of |-> 0]
  <2>1. t \in AmsStudio!Text /\ ~OfMake(t)
    BY <1>b, VerdictsAre DEF OfMake, AmsStudio!Text
  <2> HIDE DEF t
  <2>2. idle' = Append(idle, t) /\ UNCHANGED <<is_compiling, build, thread, console>>
    BY <1>2, Zenon DEF AmsStudio!Message, AmsStudio!append_console, t
  <2>3. InOrder(console)' /\ InOrder(idle)' /\ VerdictsEnd(console, idle)'
    BY <2>1, <2>2, TextArrives
  <2>4. OfThePast(idle)' /\ OfThePast(console)'
    BY <1>0, <2>1, <2>2 DEF StudioInv, OfThePast
  <2>5. AmsStudio!TypeOK' /\ OneThread'
    BY <1>0, <2>1, <2>2 DEF StudioInv, AmsStudio!TypeOK, OneThread
  <2> QED BY <2>3, <2>4, <2>5 DEF StudioInv
<1>3. ASSUME NEW b \in AmsStudio!Builds, AmsStudio!Output(b) PROVE StudioInv'
  <2> DEFINE t == [kind |-> "line", of |-> b]
  <2>1. t \in AmsStudio!Text /\ ~Verdict(t) /\ t.of = b
    BY <1>b, VerdictsAre DEF Verdict, AmsStudio!Text
  <2> HIDE DEF t
  <2>2. /\ idle' = Append(idle, t) /\ UNCHANGED <<is_compiling, build, thread, console>>
        /\ thread[b] = "make"
    BY <1>3, Zenon DEF AmsStudio!Output, AmsStudio!append_console, t
  <2>3. b = build
    BY <2>2 DEF StudioInv, OneThread
  <2>4. InOrder(console)' /\ InOrder(idle)' /\ VerdictsEnd(console, idle)'
    BY <2>1, <2>2, <2>3, TextArrives
  <2>5. OfThePast(idle)' /\ OfThePast(console)'
    BY <1>0, <2>1, <2>2, <2>3 DEF StudioInv, OfThePast
  <2>6. AmsStudio!TypeOK' /\ OneThread'
    BY <1>0, <2>1, <2>2 DEF StudioInv, AmsStudio!TypeOK, OneThread
  <2> QED BY <2>4, <2>5, <2>6 DEF StudioInv
<1>4. ASSUME NEW b \in AmsStudio!Builds, NEW v \in AmsStudio!Verdicts, AmsStudio!MakeEnds(b, v)
      PROVE  StudioInv'
  <2> DEFINE t == [kind |-> v, of |-> b]
  <2>1. t \in AmsStudio!Text /\ t.of = b
    BY <1>b, VerdictsAre DEF AmsStudio!Text
  <2> HIDE DEF t
  <2>2. /\ idle' = Append(idle, t) /\ UNCHANGED <<is_compiling, build, console>>
        /\ thread[b] = "make" /\ thread' = [thread EXCEPT ![b] = "told"]
    BY <1>4, Zenon DEF AmsStudio!MakeEnds, t
  <2>3. b = build /\ is_compiling = TRUE
    BY <2>2 DEF StudioInv, OneThread
  <2>4. InOrder(console)' /\ InOrder(idle)' /\ VerdictsEnd(console, idle)'
    BY <2>1, <2>2, <2>3, TextArrives
  <2>5. thread' \in [AmsStudio!Builds -> {"none", "make", "told"}] /\ thread'[build] = "told"
    BY <1>0, <2>2, <2>3
  <2>6. OfThePast(idle)' /\ OfThePast(console)'
    BY <1>0, <2>1, <2>2, <2>3, <2>5 DEF StudioInv, OfThePast
  <2>7. AmsStudio!TypeOK'
    BY <1>0, <2>1, <2>2, <2>5 DEF AmsStudio!TypeOK
  <2>8. OneThread'
    BY <1>0, <2>2, <2>3 DEF StudioInv, OneThread
  <2> QED BY <2>4, <2>6, <2>7, <2>8 DEF StudioInv
<1>5. ASSUME NEW b \in AmsStudio!Builds, AmsStudio!ThreadEnds(b) PROVE StudioInv'
  <2>1. /\ thread[b] = "told" /\ is_compiling' = FALSE
        /\ thread' = [thread EXCEPT ![b] = "none"] /\ UNCHANGED <<build, idle, console>>
    BY <1>5 DEF AmsStudio!ThreadEnds
  <2>2. b = build
    BY <2>1 DEF StudioInv, OneThread
  <2>3. OneThread' /\ thread'[build] = "none"
    BY <1>0, <2>1, <2>2 DEF StudioInv, OneThread
  <2>4. AmsStudio!TypeOK'
    BY <1>0, <2>1 DEF AmsStudio!TypeOK
  <2>5. OfThePast(idle)' /\ OfThePast(console)'
    BY <2>1, <2>3 DEF StudioInv, OfThePast
  <2> QED BY <2>1, <2>3, <2>4, <2>5 DEF StudioInv, InOrder, VerdictsEnd
<1>6. ASSUME AmsStudio!Show PROVE StudioInv'
  <2> DEFINE t == Head(idle)
  <2>1. t \in AmsStudio!Text /\ t = idle[1] /\ Len(idle) > 0
    BY <1>0, <1>6 DEF AmsStudio!Show
  <2>2. /\ Tail(idle) \in Seq(AmsStudio!Text) /\ Len(Tail(idle)) = Len(idle) - 1
        /\ \A i \in 1 .. Len(idle) - 1 : Tail(idle)[i] = idle[i + 1]
    BY <1>0, <1>6 DEF AmsStudio!Show
  <2> HIDE DEF t
  <2>3. console' = Append(console, t) /\ idle' = Tail(idle) /\ UNCHANGED <<is_compiling, build, thread>>
    BY <1>6 DEF AmsStudio!Show, t
  <2>4. AmsStudio!TypeOK' /\ OneThread'
    BY <1>0, <2>1, <2>2, <2>3 DEF StudioInv, AmsStudio!TypeOK, OneThread
  <2>5. MayFollow(console, t)
    BY <2>1 DEF StudioInv, VerdictsEnd, MayFollow
  <2>6. InOrder(console)'
    <3>1. InOrder(Append(console, t))
      BY <1>0, <2>1, <2>5, AppendInOrder DEF StudioInv
    <3> QED BY <2>3, <3>1 DEF InOrder
  <2>7. InOrder(Tail(idle)) /\ OfThePast(Tail(idle))
    <3>1. \A i \in 1 .. Len(idle) - 1 : i + 1 \in 1 .. Len(idle)
      BY <1>0
    <3> QED BY <1>0, <2>2, <3>1 DEF StudioInv, InOrder, OfThePast
  <2>8. VerdictsEnd(Append(console, t), Tail(idle))
    <3> SUFFICES ASSUME NEW i \in 1 .. Len(console) + 1, NEW j \in 1 .. Len(idle) - 1,
                        Verdict(Append(console, t)[i]), OfMake(idle[j + 1])
                 PROVE  Append(console, t)[i].of < idle[j + 1].of
      BY <1>0, <2>1, <2>2 DEF VerdictsEnd
    <3>1. j + 1 \in 1 .. Len(idle) /\ 1 \in 1 .. Len(idle) /\ 1 < j + 1
      BY <1>0
    <3>2. CASE i = Len(console) + 1
      BY <1>0, <2>1, <3>1, <3>2 DEF StudioInv, InOrder
    <3>3. CASE i # Len(console) + 1
      BY <1>0, <2>1, <3>1, <3>3 DEF StudioInv, VerdictsEnd
    <3> QED BY <3>2, <3>3
  <2>9. OfThePast(Append(console, t))
    BY <1>0, <2>1 DEF StudioInv, OfThePast
  <2> QED BY <2>3, <2>4, <2>6, <2>7, <2>8, <2>9 DEF StudioInv, InOrder, VerdictsEnd, OfThePast
<1>7. ASSUME UNCHANGED AmsStudio!vars PROVE StudioInv'
  BY <1>7 DEF AmsStudio!vars, StudioInv, AmsStudio!TypeOK, OneThread, InOrder, VerdictsEnd, OfThePast
<1> QED
  BY <1>1, <1>2, <1>3, <1>4, <1>5, <1>6, <1>7 DEF AmsStudio!Next, AmsStudio!ThreadStep

\* The invariant says that the console is in the order of the builds.
LEMMA StudioIsInOrder == StudioInv => AmsStudio!ConsoleInOrder
  BY DEF StudioInv, InOrder, Verdict, OfMake, AmsStudio!ConsoleInOrder, AmsStudio!IsVerdict

-----------------------------------------------------------------------------
(* Sudoku.                                                                 *)

\* The givens stay on the board, and the win is a board without conflicts.
SudokuInv ==
  /\ Sudoku!TypeOK
  /\ \A c \in Sudoku!Cells : fixed[c] <=> PUZZLES[current_puzzle].grid[c] # 0
  /\ \A c \in Sudoku!Cells : PUZZLES[current_puzzle].grid[c] \in {0, cells[c]}
  /\ game_won <=> Sudoku!is_board_complete(cells)

\* What a puzzle is made of.
LEMMA PuzzleFacts ==
  ASSUME NEW p \in DOMAIN PUZZLES
  PROVE  /\ PUZZLES[p].grid \in [Sudoku!Cells -> 0 .. BOX * BOX]
         /\ PUZZLES[p].solution \in [Sudoku!Cells -> 1 .. BOX * BOX]
         /\ \A c \in Sudoku!Cells : PUZZLES[p].grid[c] \in {0, PUZZLES[p].solution[c]}
         /\ ~Sudoku!is_board_complete(PUZZLES[p].grid)
  BY PuzzlesAreOpen, PuzzlesAreSound DEF Open, Sudoku!is_board_complete

\* A board that fills the puzzle is complete exactly when it is the solution.
LEMMA CompleteIsSolution ==
  ASSUME NEW p \in DOMAIN PUZZLES, NEW b \in [Sudoku!Cells -> 1 .. BOX * BOX],
         \A c \in Sudoku!Cells : PUZZLES[p].grid[c] \in {0, b[c]}
  PROVE  Sudoku!is_board_complete(b) <=> b = PUZZLES[p].solution
<1> DEFINE f == [c \in Open(p) |-> b[c]]
<1>1. f \in [Open(p) -> 1 .. BOX * BOX]
  BY DEF Open
<1>2. Filled(p, f) = b
  BY DEF Filled, Open
<1> QED BY <1>1, <1>2, PuzzlesAreSound

\* The solution has no conflict.
LEMMA SolutionIsComplete ==
  ASSUME NEW p \in DOMAIN PUZZLES
  PROVE  Sudoku!is_board_complete(PUZZLES[p].solution)
  BY PuzzleFacts, CompleteIsSolution

\* A new game begins with a board that is not won.
LEMMA NewPuzzle ==
  ASSUME NEW p \in DOMAIN PUZZLES, current_puzzle' = p, cells' = PUZZLES[p].grid,
         fixed' = [c \in Sudoku!Cells |-> PUZZLES[p].grid[c] # 0],
         selected' = Sudoku!None, game_won' = FALSE,
         sudoku_windows' \subseteq 1 .. MaxWindows, sudoku_latest' \in 1 .. MaxWindows
  PROVE  SudokuInv'
<1>1. cells' \in [Sudoku!Cells -> 0 .. BOX * BOX] /\ ~Sudoku!is_board_complete(cells')
  BY PuzzleFacts
<1>2. Sudoku!TypeOK'
  BY <1>1 DEF Sudoku!TypeOK
<1>3. \A c \in Sudoku!Cells : fixed'[c] <=> PUZZLES[current_puzzle'].grid[c] # 0
  OBVIOUS
<1>4. \A c \in Sudoku!Cells : PUZZLES[current_puzzle'].grid[c] \in {0, cells'[c]}
  OBVIOUS
<1>5. game_won' <=> Sudoku!is_board_complete(cells')
  BY <1>1
<1> QED BY <1>2, <1>3, <1>4, <1>5 DEF SudokuInv

\* A puzzle is opened in the invariant.
LEMMA SudokuStarts == Sudoku!Init => SudokuInv
<1> SUFFICES ASSUME Sudoku!Init PROVE SudokuInv
  OBVIOUS
<1>0. /\ current_puzzle \in DOMAIN PUZZLES /\ cells = PUZZLES[current_puzzle].grid
      /\ fixed = [c \in Sudoku!Cells |-> PUZZLES[current_puzzle].grid[c] # 0]
      /\ selected = Sudoku!None /\ game_won = FALSE
  BY Zenon DEF Sudoku!Init
<1>1. cells \in [Sudoku!Cells -> 0 .. BOX * BOX] /\ ~Sudoku!is_board_complete(cells)
  BY <1>0, PuzzleFacts
<1>2. sudoku_windows \subseteq 1 .. MaxWindows /\ sudoku_latest \in 1 .. MaxWindows
  BY BoundsAreNumbers DEF Sudoku!Init
<1>3. fixed \in [Sudoku!Cells -> BOOLEAN]
  BY <1>0
<1>4. Sudoku!TypeOK
  BY <1>0, <1>1, <1>2, <1>3, Zenon DEF Sudoku!TypeOK
<1>5. \A c \in Sudoku!Cells : fixed[c] <=> PUZZLES[current_puzzle].grid[c] # 0
  BY <1>0
<1>6. \A c \in Sudoku!Cells : PUZZLES[current_puzzle].grid[c] \in {0, cells[c]}
  BY <1>0
<1> QED BY <1>0, <1>1, <1>4, <1>5, <1>6 DEF SudokuInv

\* Every step keeps the invariant.
LEMMA SudokuSteps == SudokuInv /\ [Sudoku!Next]_(Sudoku!vars) => SudokuInv'
<1> SUFFICES ASSUME SudokuInv, [Sudoku!Next]_(Sudoku!vars) PROVE SudokuInv'
  OBVIOUS
<1>0. /\ cells \in [Sudoku!Cells -> 0 .. BOX * BOX] /\ current_puzzle \in DOMAIN PUZZLES
      /\ selected \in Sudoku!Cells \cup {Sudoku!None}
      /\ sudoku_windows \subseteq 1 .. MaxWindows /\ sudoku_latest \in 1 .. MaxWindows
  BY DEF SudokuInv, Sudoku!TypeOK
<1>u. ASSUME UNCHANGED <<cells, fixed, current_puzzle, game_won, sudoku_latest>>,
             selected' \in Sudoku!Cells \cup {Sudoku!None},
             sudoku_windows' \subseteq 1 .. MaxWindows
      PROVE  SudokuInv'
  BY <1>u DEF SudokuInv, Sudoku!TypeOK, Sudoku!is_board_complete, Sudoku!has_conflict
<1>1. ASSUME NEW c \in Sudoku!Cells, Sudoku!on_cell_clicked(c) PROVE SudokuInv'
  BY <1>0, <1>1, <1>u DEF Sudoku!on_cell_clicked
<1>2. ASSUME NEW num \in 0 .. BOX * BOX, Sudoku!on_key_press(num) PROVE SudokuInv'
  <2>1. /\ selected \in Sudoku!Cells /\ ~fixed[selected]
        /\ cells' = [cells EXCEPT ![selected] = num]
        /\ UNCHANGED <<fixed, current_puzzle, selected, sudoku_windows, sudoku_latest>>
    BY <1>0, <1>2 DEF Sudoku!on_key_press
  <2>2. game_won' = Sudoku!is_board_complete(cells')
    BY <1>2, Zenon DEF Sudoku!on_key_press
  <2>b. game_won' \in BOOLEAN
    BY <2>2 DEF Sudoku!is_board_complete
  <2>3. cells' \in [Sudoku!Cells -> 0 .. BOX * BOX]
    BY <1>0, <2>1
  <2>4. PUZZLES[current_puzzle].grid[selected] = 0
    BY <2>1 DEF SudokuInv
  <2>5. \A c \in Sudoku!Cells : PUZZLES[current_puzzle].grid[c] \in {0, cells'[c]}
    BY <1>0, <2>1, <2>4 DEF SudokuInv
  <2>6. Sudoku!TypeOK'
    BY <2>1, <2>3, <2>b DEF SudokuInv, Sudoku!TypeOK
  <2>7. \A c \in Sudoku!Cells : fixed'[c] <=> PUZZLES[current_puzzle'].grid[c] # 0
    BY <2>1 DEF SudokuInv
  <2>8. game_won' <=> Sudoku!is_board_complete(cells')
    BY <2>2
  <2> QED BY <2>1, <2>5, <2>6, <2>7, <2>8 DEF SudokuInv
<1>3. ASSUME Sudoku!on_new_game PROVE SudokuInv'
  <2>1. PICK n \in Nat \ {0} : DOMAIN PUZZLES = 0 .. n - 1
    BY PuzzlesAreOpen
  <2>2. Sudoku!PUZZLE_COUNT = n
    <3>1. Cardinality(0 .. n - 1) = IF 0 > n - 1 THEN 0 ELSE (n - 1) - 0 + 1
      BY FS_Interval
    <3>2. n \in Nat /\ n > 0
      BY <2>1
    <3>3. Cardinality(0 .. n - 1) = n
      BY <3>1, <3>2
    <3> QED BY <2>1, <3>3, Zenon DEF Sudoku!PUZZLE_COUNT, Sudoku!Cardinality, Cardinality
  <2>3. current_puzzle + 1 \in Int
    BY <1>0, <2>1
  <2>4. (current_puzzle + 1) % n \in DOMAIN PUZZLES
    BY <2>1, <2>3
  <2>5. Sudoku!start_new_game((current_puzzle + 1) % n)
        /\ UNCHANGED <<sudoku_windows, sudoku_latest>>
    BY <1>3, <2>2, Zenon DEF Sudoku!on_new_game
  <2> QED BY <1>0, <2>4, <2>5, NewPuzzle DEF Sudoku!start_new_game
<1>4. ASSUME Sudoku!on_activate PROVE SudokuInv'
  <2>1. PICK p \in DOMAIN PUZZLES : Sudoku!start_new_game(p)
    BY <1>4 DEF Sudoku!on_activate
  <2>2. sudoku_latest' \in 1 .. MaxWindows
    BY <1>0, <1>4, BoundsAreNumbers DEF Sudoku!on_activate
  <2>3. sudoku_windows' \subseteq 1 .. MaxWindows
    BY <1>0, <1>4, <2>2 DEF Sudoku!on_activate
  <2> QED BY <2>1, <2>2, <2>3, NewPuzzle DEF Sudoku!start_new_game
<1>5. ASSUME NEW w \in sudoku_windows, Sudoku!Close(w) PROVE SudokuInv'
  BY <1>0, <1>5, <1>u DEF Sudoku!Close
<1>6. ASSUME Sudoku!Crash PROVE SudokuInv'
  BY <1>0, <1>6, <1>u DEF Sudoku!Crash
<1>7. ASSUME UNCHANGED Sudoku!vars PROVE SudokuInv'
  BY <1>0, <1>7, <1>u DEF Sudoku!vars
<1> QED
  BY <1>1, <1>2, <1>3, <1>4, <1>5, <1>6, <1>7 DEF Sudoku!Next

\* Whoever may not have the value of c is one that c may not have the value of.
LEMMA PeersAreMutual ==
  ASSUME NEW c \in Sudoku!Cells, NEW d \in Sudoku!Peers(c)
  PROVE  d \in Sudoku!Cells /\ c \in Sudoku!Peers(d)
  BY DEF Sudoku!Peers

\* On a full board whose givens are those of the puzzle, a conflict shows in one of
\* the user's cells.
LEMMA ConflictIsFlagged ==
  ASSUME SudokuInv, NEW c \in Sudoku!Cells, Sudoku!has_conflict(cells, c)
  PROVE  Sudoku!Flagged # {}
<1> DEFINE grid0 == PUZZLES[current_puzzle].grid
           sol == PUZZLES[current_puzzle].solution
<1>0. current_puzzle \in DOMAIN PUZZLES
  BY DEF SudokuInv, Sudoku!TypeOK
<1>1. PICK d \in Sudoku!Peers(c) : cells[d] = cells[c]
  BY DEF Sudoku!has_conflict
<1>2. d \in Sudoku!Cells /\ c \in Sudoku!Peers(d) /\ cells[c] # 0
  BY <1>1, PeersAreMutual DEF Sudoku!has_conflict
<1>3. Sudoku!has_conflict(cells, d)
  BY <1>1, <1>2 DEF Sudoku!has_conflict
<1>4. CASE ~fixed[c] \/ ~fixed[d]
  BY <1>2, <1>3, <1>4 DEF Sudoku!Flagged
<1>5. CASE fixed[c] /\ fixed[d]
  <2>1. grid0[c] # 0 /\ grid0[d] # 0
    BY <1>2, <1>5 DEF SudokuInv
  <2>2. grid0[c] = cells[c] /\ grid0[d] = cells[d]
    BY <1>2, <2>1 DEF SudokuInv
  <2>3. grid0[c] = sol[c] /\ grid0[d] = sol[d]
    BY <1>0, <1>2, <2>1, PuzzleFacts
  <2>4. sol[c] = sol[d] /\ sol[c] # 0
    BY <1>1, <2>1, <2>2, <2>3
  <2>5. Sudoku!has_conflict(sol, c)
    BY <1>1, <2>4 DEF Sudoku!has_conflict
  <2> QED BY <1>0, <2>5, SolutionIsComplete DEF Sudoku!is_board_complete
<1> QED BY <1>4, <1>5

\* The game is won exactly when the grid is solved.
LEMMA SudokuIsSolved == SudokuInv => Sudoku!WonMeansSolved
<1> SUFFICES ASSUME SudokuInv PROVE Sudoku!WonMeansSolved
  OBVIOUS
<1> DEFINE sol == PUZZLES[current_puzzle].solution
<1>0. current_puzzle \in DOMAIN PUZZLES /\ cells \in [Sudoku!Cells -> 0 .. BOX * BOX]
  BY DEF SudokuInv, Sudoku!TypeOK
<1>1. \A c \in Sudoku!Cells : PUZZLES[current_puzzle].grid[c] \in {0, cells[c]}
  BY DEF SudokuInv
<1>2. ASSUME Sudoku!Empty = {}
      PROVE  Sudoku!is_board_complete(cells) <=> cells = sol
  <2>1. \A c \in Sudoku!Cells : cells[c] # 0
    BY <1>2 DEF Sudoku!Empty
  <2>2. BOX * BOX \in Nat
    BY PuzzlesAreOpen
  <2>3. cells \in [Sudoku!Cells -> 1 .. BOX * BOX]
    BY <1>0, <2>1, <2>2
  <2> QED BY <1>0, <1>1, <2>3, CompleteIsSolution
<1>3. sol \in [Sudoku!Cells -> 1 .. BOX * BOX]
  BY <1>0, PuzzleFacts
<1> HIDE DEF sol
<1>4. ASSUME Sudoku!Empty = {}
      PROVE  cells = sol <=> Sudoku!Errors = {}
  <2>1. \A c \in Sudoku!Cells : cells[c] # 0
    BY <1>4 DEF Sudoku!Empty
  <2>2. Sudoku!Errors = {} <=> \A c \in Sudoku!Cells : cells[c] = sol[c]
    BY <2>1 DEF Sudoku!Errors, sol
  <2> QED BY <1>0, <1>3, <2>2
<1>5. Sudoku!is_board_complete(cells) => Sudoku!Empty = {} /\ Sudoku!Flagged = {}
  BY DEF Sudoku!is_board_complete, Sudoku!Empty, Sudoku!Flagged
<1>6. Sudoku!Empty = {} /\ Sudoku!Flagged = {} => Sudoku!is_board_complete(cells)
  BY ConflictIsFlagged DEF Sudoku!is_board_complete, Sudoku!Empty
<1>7. game_won <=> Sudoku!is_board_complete(cells)
  BY DEF SudokuInv
<1> QED
  BY <1>1, <1>2, <1>4, <1>5, <1>6, <1>7, Zenon DEF Sudoku!WonMeansSolved

-----------------------------------------------------------------------------
(* The snake of the desktop.                                               *)

\* A snake of one piece that lies on no place twice.
Piece(b) ==
  /\ b \in Seq(Snake!Places)
  /\ \A i, j \in 1 .. Len(b) : b[i] = b[j] => i = j
  /\ \A i \in 1 .. Len(b) - 1 : Snake!NextTo(b[i], b[i + 1])

LiesOn(b, p) == \E i \in 1 .. Len(b) : b[i] = p

\* Each window that is open has come with a timer, and no more than one timer went
\* with each that was closed.
WindowsHaveTimers ==
  /\ windows \subseteq 1 .. area /\ area \in 1 .. MaxWindows
  /\ Cardinality(windows) <= timers /\ timers \in 0 .. area
  /\ timer_id \in BOOLEAN

\* What is known of the snake.
SnakeShape ==
  /\ Piece(body) /\ Len(body) >= 3 /\ score = 10 * (Len(body) - 3)
  /\ food \in Snake!Places \cup {Snake!Nowhere} /\ ~LiesOn(body, food)
  /\ food = Snake!Nowhere => \A p \in Snake!Places : LiesOn(body, p)
  /\ dir \in {<<0, -1>>, <<0, 1>>, <<-1, 0>>, <<1, 0>>}
  /\ alive \in BOOLEAN /\ paused \in BOOLEAN

SnakeInv == SnakeShape /\ WindowsHaveTimers

\* LiesOn in the words of the model.
LEMMA OnIsRange ==
  ASSUME NEW b \in Seq(Snake!Places), NEW p
  PROVE  LiesOn(b, p) <=> p \in Snake!Range(b)
  BY DEF LiesOn, Snake!Range

\* The food of a full board lies on no place.
LEMMA NowhereIsNoPlace == Snake!Nowhere \notin Snake!Places
  BY BoardSizes DEF Snake!Nowhere, Snake!Places

\* A head on a free place beside the first one makes a longer piece.
LEMMA HeadAhead ==
  ASSUME NEW b, Piece(b), Len(b) >= 1, NEW h \in Snake!Places, ~LiesOn(b, h),
         Snake!NextTo(h, b[1])
  PROVE  /\ Piece(<<h>> \o b) /\ Len(<<h>> \o b) = Len(b) + 1
         /\ \A p : LiesOn(<<h>> \o b, p) <=> p = h \/ LiesOn(b, p)
<1> DEFINE n == Len(b)
           c == <<h>> \o b
<1>0. b \in Seq(Snake!Places) /\ n \in Nat
  BY DEF Piece
<1>1. c \in Seq(Snake!Places) /\ Len(c) = n + 1 /\ c[1] = h
      /\ \A i \in 2 .. n + 1 : c[i] = b[i - 1]
  BY <1>0
<1> HIDE DEF c
<1>2. \A i \in 2 .. n + 1 : i - 1 \in 1 .. n /\ (i # n + 1 => i - 1 \in 1 .. n - 1)
  BY <1>0
<1>3. \A i \in 1 .. n : i + 1 \in 2 .. n + 1 /\ c[i + 1] = b[i]
  BY <1>0, <1>1
<1>4. \A i \in 2 .. n + 1 : c[i] # h
  BY <1>1, <1>2 DEF LiesOn
<1>5. \A i, j \in 1 .. n + 1 : c[i] = c[j] => i = j
  <2> SUFFICES ASSUME NEW i \in 1 .. n + 1, NEW j \in 1 .. n + 1, c[i] = c[j] PROVE i = j
    OBVIOUS
  <2>1. CASE i = 1 \/ j = 1
    BY <1>0, <1>1, <1>4, <2>1
  <2>2. CASE i # 1 /\ j # 1
    <3>1. i \in 2 .. n + 1 /\ j \in 2 .. n + 1
      BY <1>0, <2>2
    <3>2. b[i - 1] = b[j - 1]
      BY <1>1, <3>1
    <3>3. i - 1 = j - 1
      BY <1>2, <3>1, <3>2 DEF Piece
    <3> QED BY <3>1, <3>3
  <2> QED BY <2>1, <2>2
<1>6. \A i \in 1 .. n : Snake!NextTo(c[i], c[i + 1])
  <2> SUFFICES ASSUME NEW i \in 1 .. n PROVE Snake!NextTo(c[i], c[i + 1])
    OBVIOUS
  <2>1. CASE i = 1
    BY <1>1, <1>3, <2>1
  <2>2. CASE i # 1
    <3>1. i \in 2 .. n + 1 /\ i # n + 1 /\ (i - 1) + 1 = i
      BY <1>0, <2>2
    <3>2. c[i] = b[i - 1] /\ c[i + 1] = b[i] /\ i - 1 \in 1 .. n - 1
      BY <1>1, <1>2, <1>3, <3>1
    <3> QED BY <3>1, <3>2 DEF Piece
  <2> QED BY <2>1, <2>2
<1>7. \A p : LiesOn(c, p) <=> p = h \/ LiesOn(b, p)
  <2>1. \A p : LiesOn(c, p) => p = h \/ LiesOn(b, p)
    BY <1>0, <1>1, <1>2 DEF LiesOn
  <2>2. LiesOn(c, h)
    BY <1>0, <1>1 DEF LiesOn
  <2>3. \A p : LiesOn(b, p) => LiesOn(c, p)
    BY <1>0, <1>1, <1>3 DEF LiesOn
  <2> QED BY <2>1, <2>2, <2>3
<1>8. (n + 1) - 1 = n
  BY <1>0
<1> QED BY <1>1, <1>5, <1>6, <1>7, <1>8 DEF Piece, c

\* What is left when the tail moves up.
LEMMA TailMovesUp ==
  ASSUME NEW b, Piece(b), Len(b) >= 2
  PROVE  /\ Piece(Snake!Front(b)) /\ Len(Snake!Front(b)) = Len(b) - 1
         /\ Snake!Front(b)[1] = b[1]
         /\ \A p : LiesOn(Snake!Front(b), p) => LiesOn(b, p)
<1> DEFINE n == Len(b)
           c == Snake!Front(b)
<1>0. b \in Seq(Snake!Places) /\ n \in Nat /\ n >= 2
  BY DEF Piece
<1>1. c \in Seq(Snake!Places) /\ Len(c) = n - 1 /\ \A i \in 1 .. n - 1 : c[i] = b[i]
  BY <1>0 DEF Snake!Front
<1> HIDE DEF c
<1>2. \A i \in 1 .. n - 1 : i \in 1 .. n
  BY <1>0
<1>3. \A i \in 1 .. (n - 1) - 1 : i \in 1 .. n - 1 /\ i + 1 \in 1 .. n - 1
  BY <1>0
<1>4. Piece(c)
  BY <1>1, <1>2, <1>3 DEF Piece
<1> QED BY <1>0, <1>1, <1>2, <1>4 DEF LiesOn, c

\* The snake of a new game.
LEMMA NewSnake ==
  /\ Piece(Snake!NewBody) /\ Len(Snake!NewBody) = 3 /\ Snake!FreeOf(Snake!NewBody) # {}
<1> DEFINE b == Snake!NewBody
           m == COLS \div 2
           r == ROWS \div 2
<1>1. m \in Int /\ m >= 2 /\ m + 1 <= COLS - 1 /\ r \in 0 .. ROWS - 1
  BY BoardSizes
<1>2. b = [i \in 1 .. 3 |-> <<m + 1 - i, r>>]
  BY DEF Snake!NewBody
<1> HIDE DEF b, m, r
<1>3. \A i \in 1 .. 3 : m + 1 - i \in 0 .. COLS - 1 /\ <<m + 1 - i, r>> \in Snake!Places
  BY <1>1, BoardSizes DEF Snake!Places
<1>4. b \in [1 .. 3 -> Snake!Places]
  BY <1>2, <1>3
<1>5. b \in Seq(Snake!Places) /\ Len(b) = 3
  <2>1. b \in Seq(Snake!Places)
    <3> DEFINE lengths == {[1 .. n -> Snake!Places] : n \in Nat}
    <3>1. [1 .. 3 -> Snake!Places] \in lengths
      OBVIOUS
    <3> QED BY <1>4, <3>1, SeqDef
  <2>2. DOMAIN b = 1 .. 3
    BY <1>4
  <2> QED BY <2>1, <2>2, LenProperties
<1>6. \A i, j \in 1 .. 3 : b[i] = b[j] => i = j
  BY <1>1, <1>2
<1>7. \A i \in 1 .. 2 : Snake!NextTo(b[i], b[i + 1])
  <2> SUFFICES ASSUME NEW i \in 1 .. 2 PROVE Snake!NextTo(b[i], b[i + 1])
    OBVIOUS
  <2>1. b[i] = <<m + 1 - i, r>> /\ b[i + 1] = <<m + 1 - (i + 1), r>>
    BY <1>2
  <2>2. (m + 1 - i) - (m + 1 - (i + 1)) = 1 /\ r - r = 0
    BY <1>1
  <2> QED BY <2>1, <2>2 DEF Snake!NextTo
<1>8. <<m + 1, r>> \in Snake!Places
  BY <1>1, BoardSizes DEF Snake!Places
<1>9. \A i \in 1 .. 3 : b[i] # <<m + 1, r>>
  BY <1>1, <1>2
<1>10. <<m + 1, r>> \in Snake!FreeOf(b)
  BY <1>5, <1>8, <1>9 DEF Snake!FreeOf, Snake!Range
<1> QED BY <1>5, <1>6, <1>7, <1>10 DEF Piece, b

\* Food that is put beside a snake.
LEMMA FoodBeside ==
  ASSUME NEW b, Piece(b), NEW f,
         f \in IF Snake!FreeOf(b) = {} THEN {Snake!Nowhere} ELSE Snake!FreeOf(b)
  PROVE  /\ f \in Snake!Places \cup {Snake!Nowhere} /\ ~LiesOn(b, f)
         /\ f = Snake!Nowhere => \A p \in Snake!Places : LiesOn(b, p)
<1>0. b \in Seq(Snake!Places)
  BY DEF Piece
<1>1. CASE Snake!FreeOf(b) = {}
  <2>1. f = Snake!Nowhere
    BY <1>1
  <2>2. \A p \in Snake!Places : LiesOn(b, p)
    BY <1>0, <1>1, OnIsRange DEF Snake!FreeOf
  <2>3. ~LiesOn(b, f)
    BY <1>0, <2>1, NowhereIsNoPlace DEF LiesOn
  <2> QED BY <2>1, <2>2, <2>3
<1>2. CASE Snake!FreeOf(b) # {}
  <2>1. f \in Snake!FreeOf(b)
    BY <1>2
  <2> QED BY <1>0, <2>1, OnIsRange, NowhereIsNoPlace DEF Snake!FreeOf
<1> QED BY <1>1, <1>2

\* reset_game makes a sound snake.
LEMMA NewGameHasShape == Snake!ResetGame => SnakeShape'
<1> SUFFICES ASSUME Snake!ResetGame PROVE SnakeShape'
  OBVIOUS
<1>1. /\ body' = Snake!NewBody /\ dir' = <<1, 0>> /\ score' = 0 /\ alive' = TRUE /\ paused' = FALSE
      /\ food' \in IF Snake!FreeOf(body') = {} THEN {Snake!Nowhere} ELSE Snake!FreeOf(body')
  BY Zenon DEF Snake!ResetGame, Snake!PlaceFood
<1>2. Piece(body') /\ Len(body') = 3
  BY <1>1, NewSnake
<1>3. /\ food' \in Snake!Places \cup {Snake!Nowhere} /\ ~LiesOn(body', food')
      /\ food' = Snake!Nowhere => \A p \in Snake!Places : LiesOn(body', p)
  BY <1>1, <1>2, FoodBeside
<1>4. score' = 10 * (Len(body') - 3) /\ Len(body') >= 3
  BY <1>1, <1>2
<1> QED BY <1>1, <1>2, <1>3, <1>4 DEF SnakeShape

\* The task starts with a sound snake and one window with its timer.
LEMMA SnakeStarts == Snake!Init => SnakeInv
<1> SUFFICES ASSUME Snake!Init PROVE SnakeInv
  OBVIOUS
<1>1. /\ body = Snake!NewBody /\ dir = <<1, 0>> /\ score = 0 /\ alive = TRUE /\ paused = FALSE
      /\ food \in Snake!FreeOf(Snake!NewBody)
      /\ windows = {1} /\ area = 1 /\ timers = 1 /\ timer_id = TRUE
  BY Zenon DEF Snake!Init
<1>2. Piece(body) /\ Len(body) = 3
  BY <1>1, NewSnake
<1>3. /\ food \in Snake!Places \cup {Snake!Nowhere} /\ ~LiesOn(body, food)
      /\ food = Snake!Nowhere => \A p \in Snake!Places : LiesOn(body, p)
  BY <1>1, <1>2, FoodBeside
<1>4. score = 10 * (Len(body) - 3) /\ Len(body) >= 3
  BY <1>1, <1>2
<1>5. SnakeShape
  BY <1>1, <1>2, <1>3, <1>4 DEF SnakeShape
<1>6. Cardinality(windows) = 1
  BY <1>1, FS_Singleton
<1>7. WindowsHaveTimers
  BY <1>1, <1>6, BoundsAreNumbers DEF WindowsHaveTimers
<1> QED BY <1>5, <1>7 DEF SnakeInv

\* There are as many windows as launches at most.
LEMMA WindowsAreFinite ==
  ASSUME WindowsHaveTimers
  PROVE  IsFiniteSet(windows) /\ Cardinality(windows) \in Nat /\ area \in Nat
<1>1. area \in Nat
  BY BoundsAreNumbers DEF WindowsHaveTimers
<1>2. IsFiniteSet(1 .. area)
  BY <1>1, FS_Interval
<1>3. IsFiniteSet(windows)
  BY <1>2, FS_Subset DEF WindowsHaveTimers
<1> QED BY <1>1, <1>3, FS_CardinalityType

\* Every step keeps the invariant.
LEMMA SnakeSteps == SnakeInv /\ [Snake!Next]_(Snake!vars) => SnakeInv'
<1> SUFFICES ASSUME SnakeInv, [Snake!Next]_(Snake!vars) PROVE SnakeInv'
  OBVIOUS
<1>s. SnakeShape /\ WindowsHaveTimers
  BY DEF SnakeInv
<1>w. ASSUME UNCHANGED <<windows, area, timers, timer_id>> PROVE WindowsHaveTimers'
  BY <1>s, <1>w DEF WindowsHaveTimers
<1>g. ASSUME UNCHANGED <<body, food, score>>,
             dir' \in {<<0, -1>>, <<0, 1>>, <<-1, 0>>, <<1, 0>>}, alive' \in BOOLEAN, paused' \in BOOLEAN
      PROVE  SnakeShape'
  BY <1>s, <1>g DEF SnakeShape, Piece, LiesOn
<1>t. dir \in {<<0, -1>>, <<0, 1>>, <<-1, 0>>, <<1, 0>>} /\ alive \in BOOLEAN /\ paused \in BOOLEAN
  BY <1>s DEF SnakeShape
<1>h. ASSUME Snake!Ticking, ~Snake!Blocked
      PROVE  /\ Snake!NewHead \in Snake!Places /\ ~LiesOn(body, Snake!NewHead)
             /\ Snake!NextTo(Snake!NewHead, body[1]) /\ food # Snake!Nowhere
  <2>0. body \in Seq(Snake!Places) /\ Len(body) >= 3
    BY <1>s DEF SnakeShape, Piece
  <2>1. Snake!NewHead \in Snake!Places /\ ~LiesOn(body, Snake!NewHead)
    BY <1>h, <2>0, OnIsRange DEF Snake!Blocked
  <2>2. body[1] \in Snake!Places
    BY <2>0
  <2>3. PICK x \in Int, y \in Int, dx \in Int, dy \in Int :
          body[1] = <<x, y>> /\ dir = <<dx, dy>>
    BY <1>t, <2>2 DEF Snake!Places
  <2>4. Snake!NewHead = <<x + dx, y + dy>>
    BY <2>3 DEF Snake!NewHead
  <2>5. (x + dx) - x = dx /\ (y + dy) - y = dy
    OBVIOUS
  <2>6. Snake!NextTo(Snake!NewHead, body[1])
    BY <1>t, <2>3, <2>4, <2>5 DEF Snake!NextTo
  <2> QED BY <1>h, <2>1, <2>6 DEF Snake!Ticking, Snake!Running
<1>1. ASSUME Snake!Die PROVE SnakeInv'
  BY <1>1, <1>w, <1>g, <1>t DEF Snake!Die, Snake!shown, SnakeInv
<1>2. ASSUME Snake!Crawl PROVE SnakeInv'
  <2> DEFINE f == Snake!Front(body)
             h == Snake!NewHead
  <2>1. /\ body' = <<h>> \o f /\ h # food
        /\ UNCHANGED <<food, dir, score, alive, paused, windows, area, timers, timer_id>>
    BY <1>2 DEF Snake!Crawl, Snake!shown
  <2>2. /\ h \in Snake!Places /\ ~LiesOn(body, h) /\ Snake!NextTo(h, body[1])
        /\ food # Snake!Nowhere
    BY <1>2, <1>h DEF Snake!Crawl
  <2>3. Piece(body) /\ Len(body) >= 3 /\ Len(body) \in Nat
    BY <1>s DEF SnakeShape, Piece
  <2>4. /\ Piece(f) /\ Len(f) = Len(body) - 1 /\ f[1] = body[1]
        /\ \A p : LiesOn(f, p) => LiesOn(body, p)
    BY <2>3, TailMovesUp
  <2> HIDE DEF f, h
  <2>5. /\ Piece(body') /\ Len(body') = Len(f) + 1
        /\ \A p : LiesOn(body', p) <=> p = h \/ LiesOn(f, p)
    BY <2>1, <2>2, <2>3, <2>4, HeadAhead
  <2>6. Len(body') = Len(body)
    BY <2>3, <2>4, <2>5
  <2>7. ~LiesOn(body', food)
    BY <1>s, <2>1, <2>4, <2>5 DEF SnakeShape
  <2>8. SnakeShape'
    BY <1>s, <2>1, <2>2, <2>5, <2>6, <2>7 DEF SnakeShape
  <2> QED BY <2>1, <2>8, <1>w DEF SnakeInv
<1>3. ASSUME Snake!Eat PROVE SnakeInv'
  <2> DEFINE h == Snake!NewHead
  <2>1. /\ body' = <<h>> \o body /\ score' = score + 10
        /\ food' \in IF Snake!FreeOf(body') = {} THEN {Snake!Nowhere} ELSE Snake!FreeOf(body')
        /\ UNCHANGED <<dir, alive, paused, windows, area, timers, timer_id>>
    BY <1>3, Zenon DEF Snake!Eat, Snake!shown, Snake!PlaceFood
  <2>2. h \in Snake!Places /\ ~LiesOn(body, h) /\ Snake!NextTo(h, body[1])
    BY <1>3, <1>h DEF Snake!Eat
  <2>3. Piece(body) /\ Len(body) >= 3 /\ Len(body) \in Nat /\ score = 10 * (Len(body) - 3)
    BY <1>s DEF SnakeShape, Piece
  <2> HIDE DEF h
  <2>5. Piece(body') /\ Len(body') = Len(body) + 1
    BY <2>1, <2>2, <2>3, HeadAhead
  <2>6. Len(body') >= 3 /\ score' = 10 * (Len(body') - 3)
    BY <2>1, <2>3, <2>5
  <2>7. /\ food' \in Snake!Places \cup {Snake!Nowhere} /\ ~LiesOn(body', food')
        /\ food' = Snake!Nowhere => \A p \in Snake!Places : LiesOn(body', p)
    BY <2>1, <2>5, FoodBeside
  <2>8. SnakeShape'
    BY <1>t, <2>1, <2>5, <2>6, <2>7 DEF SnakeShape
  <2> QED BY <2>1, <2>8, <1>w DEF SnakeInv
<1>4. ASSUME NEW d \in {<<0, -1>>, <<0, 1>>, <<-1, 0>>, <<1, 0>>}, Snake!Turn(d) PROVE SnakeInv'
  BY <1>4, <1>w, <1>g, <1>t DEF Snake!Turn, Snake!shown, SnakeInv
<1>5. ASSUME Snake!Space PROVE SnakeInv'
  <2>1. paused' \in BOOLEAN
    BY <1>5 DEF Snake!Space
  <2> QED BY <1>5, <2>1, <1>w, <1>g, <1>t DEF Snake!Space, Snake!shown, SnakeInv
<1>6. ASSUME Snake!Restart PROVE SnakeInv'
  BY <1>6, <1>w, NewGameHasShape DEF Snake!Restart, Snake!shown, SnakeInv
<1>7. ASSUME Snake!Activate PROVE SnakeInv'
  <2>1. /\ Snake!ResetGame /\ area < MaxWindows /\ area' = area + 1
        /\ windows' = windows \cup {area + 1} /\ timers' = timers + 1 /\ timer_id' = TRUE
    BY <1>7 DEF Snake!Activate
  <2>2. IsFiniteSet(windows) /\ Cardinality(windows) \in Nat /\ area \in Nat
    BY <1>s, WindowsAreFinite
  <2>3. area + 1 \notin windows
    BY <1>s, <2>2 DEF WindowsHaveTimers
  <2>4. Cardinality(windows') = Cardinality(windows) + 1
    BY <2>1, <2>2, <2>3, FS_AddElement
  <2>5. windows' \subseteq 1 .. area'
    BY <1>s, <2>1, <2>2 DEF WindowsHaveTimers
  <2>6. /\ area' \in 1 .. MaxWindows /\ Cardinality(windows') <= timers'
        /\ timers' \in 0 .. area'
    BY <1>s, <2>1, <2>2, <2>4, BoundsAreNumbers DEF WindowsHaveTimers
  <2>7. WindowsHaveTimers'
    BY <2>1, <2>5, <2>6 DEF WindowsHaveTimers
  <2> QED BY <2>1, <2>7, NewGameHasShape DEF SnakeInv
<1>8. ASSUME NEW w \in windows, Snake!Close(w) PROVE SnakeInv'
  <2>1. /\ windows' = windows \ {w} /\ timers' = (IF timer_id THEN timers - 1 ELSE timers)
        /\ timer_id' = FALSE /\ UNCHANGED <<body, food, dir, score, alive, paused, area>>
    BY <1>8, Zenon DEF Snake!Close, Snake!game
  <2>2. IsFiniteSet(windows) /\ Cardinality(windows) \in Nat /\ area \in Nat
    BY <1>s, WindowsAreFinite
  <2>4. Cardinality(windows') = Cardinality(windows) - 1
    BY <2>1, <2>2, FS_RemoveElement
  <2>5. Cardinality(windows') \in Nat
    BY <2>1, <2>2, FS_RemoveElement, FS_CardinalityType
  <2>6. Cardinality(windows) <= timers /\ timers \in 0 .. area
    BY <1>s DEF WindowsHaveTimers
  <2>7. timers' = timers - 1 \/ timers' = timers
    BY <2>1
  <2>8. Cardinality(windows') <= timers' /\ timers' \in 0 .. area
    BY <2>2, <2>4, <2>5, <2>6, <2>7
  <2>9. WindowsHaveTimers'
    BY <1>s, <2>1, <2>8 DEF WindowsHaveTimers
  <2> QED BY <1>g, <1>t, <2>1, <2>9 DEF SnakeInv
<1>9. ASSUME Snake!Crash PROVE SnakeInv'
  <2>1. windows' = {} /\ UNCHANGED <<body, food, dir, score, alive, paused, area, timers, timer_id>>
    BY <1>9 DEF Snake!Crash, Snake!game
  <2>2. Cardinality(windows') = 0
    BY <2>1, FS_EmptySet
  <2>3. WindowsHaveTimers'
    BY <1>s, <2>1, <2>2, BoundsAreNumbers DEF WindowsHaveTimers
  <2> QED BY <1>g, <1>t, <2>1, <2>3 DEF SnakeInv
<1>10. ASSUME UNCHANGED Snake!vars PROVE SnakeInv'
  BY <1>10, <1>w, <1>g, <1>t DEF Snake!vars, Snake!game, Snake!shown, SnakeInv
<1> QED
  BY <1>1, <1>2, <1>3, <1>4, <1>5, <1>6, <1>7, <1>8, <1>9, <1>10 DEF Snake!Next

\* The invariant says what the snake promises.
LEMMA SnakeIsSound ==
  SnakeInv => Snake!TypeOK /\ Snake!SnakeIsOnePiece /\ Snake!FoodIsFree /\ Snake!GameGoesOn
<1> SUFFICES ASSUME SnakeInv
             PROVE  Snake!TypeOK /\ Snake!SnakeIsOnePiece /\ Snake!FoodIsFree /\ Snake!GameGoesOn
  OBVIOUS
<1>s. SnakeShape /\ WindowsHaveTimers
  BY DEF SnakeInv
<1>b. body \in Seq(Snake!Places) /\ Len(body) \in Nat /\ DOMAIN body = 1 .. Len(body)
  BY <1>s DEF SnakeShape, Piece
<1>1. Snake!TypeOK
  <2>1. score \in Nat
    BY <1>b, <1>s DEF SnakeShape
  <2>2. windows \subseteq 1 .. MaxWindows /\ area \in 1 .. MaxWindows /\ timers \in 0 .. MaxWindows
    BY <1>s, BoundsAreNumbers DEF WindowsHaveTimers
  <2> QED BY <1>b, <1>s, <2>1, <2>2 DEF SnakeShape, WindowsHaveTimers, Snake!TypeOK
<1>2. Snake!SnakeIsOnePiece
  BY <1>b, <1>s DEF SnakeShape, Piece, Snake!SnakeIsOnePiece, Snake!IsInjective
<1>3. Snake!FoodIsFree
  <2>1. food \notin Snake!Range(body)
    BY <1>b, <1>s, OnIsRange DEF SnakeShape
  <2>2. Snake!Range(body) \subseteq Snake!Places
    BY <1>b DEF Snake!Range
  <2>3. food = Snake!Nowhere => Snake!Places \subseteq Snake!Range(body)
    BY <1>b, <1>s, OnIsRange DEF SnakeShape
  <2> QED BY <2>1, <2>2, <2>3 DEF Snake!FoodIsFree
<1>4. Snake!GameGoesOn
  <2> SUFFICES ASSUME windows # {} PROVE timers > 0
    BY DEF Snake!GameGoesOn
  <2>1. IsFiniteSet(windows) /\ Cardinality(windows) \in Nat
    BY <1>s, WindowsAreFinite
  <2>2. Cardinality(windows) # 0
    BY <2>1, FS_EmptySet
  <2> QED BY <1>s, <2>1, <2>2, BoundsAreNumbers DEF WindowsHaveTimers
<1> QED BY <1>1, <1>2, <1>3, <1>4

-----------------------------------------------------------------------------
(* Minesweeper.                                                            *)

\* m takes sets of cells to the cells that they open, more for more of them.
Opens(C, m) ==
  /\ m \in [SUBSET C -> SUBSET C]
  /\ \A S, T \in SUBSET C : S \subseteq T => m[S] \subseteq m[T]

\* The sets that open nothing else, and the least one of them with S in it.
Settled(C, m) == {T \in SUBSET C : m[T] \subseteq T}
Reach(C, m, S) == {c \in C : \A T \in Settled(C, m) : S \subseteq T => c \in T}

\* What a search that goes on from S finds, round by round.
Searches(C, m, f) ==
  f = [S \in SUBSET C |-> IF m[S] \subseteq S THEN S ELSE f[S \cup m[S]]]

\* One round changes nothing about what is within reach.
LEMMA RoundKeepsReach ==
  ASSUME NEW C, NEW m, Opens(C, m), NEW S \in SUBSET C
  PROVE  /\ m[S] \subseteq S => Reach(C, m, S) = S
         /\ Reach(C, m, S \cup m[S]) = Reach(C, m, S)
<1>1. m[S] \subseteq S => Reach(C, m, S) = S
  BY DEF Reach, Settled
<1>2. \A T \in Settled(C, m) : S \subseteq T => S \cup m[S] \subseteq T
  BY DEF Settled, Opens
<1>3. Reach(C, m, S \cup m[S]) = Reach(C, m, S)
  BY <1>2 DEF Reach
<1> QED BY <1>1, <1>3

\* What is within reach opens nothing else.
LEMMA ReachIsSettled ==
  ASSUME NEW C, NEW m, Opens(C, m), NEW S \in SUBSET C
  PROVE  S \subseteq Reach(C, m, S) /\ Reach(C, m, S) \in Settled(C, m)
<1> DEFINE R == Reach(C, m, S)
<1>1. R \in SUBSET C /\ S \subseteq R
  BY DEF Reach
<1>2. ASSUME NEW T \in Settled(C, m), S \subseteq T PROVE m[R] \subseteq T
  <2>1. R \subseteq T /\ T \in SUBSET C
    BY <1>2 DEF Reach, Settled
  <2>2. m[R] \subseteq m[T]
    BY <1>1, <2>1 DEF Opens
  <2> QED BY <1>2, <2>2 DEF Settled
<1>3. m[R] \subseteq C
  BY <1>1 DEF Opens
<1>4. m[R] \subseteq R
  BY <1>2, <1>3 DEF Reach
<1> QED BY <1>1, <1>4 DEF Settled

\* There is such a search, and each finds what is within reach.
LEMMA SearchFinds ==
  ASSUME NEW C, IsFiniteSet(C), NEW m, Opens(C, m)
  PROVE  /\ \E f : Searches(C, m, f)
         /\ \A f : Searches(C, m, f) => \A S \in SUBSET C : f[S] = Reach(C, m, S)
<1>1. \E f : Searches(C, m, f)
  <2> DEFINE f == [S \in SUBSET C |-> Reach(C, m, S)]
  <2>1. \A S \in SUBSET C : S \cup m[S] \in SUBSET C
    BY DEF Opens
  <2>2. f = [S \in SUBSET C |-> f[S]] /\ \A S \in SUBSET C : f[S] = Reach(C, m, S)
    OBVIOUS
  <2> HIDE DEF f
  <2>3. \A S \in SUBSET C :
          f[S] = IF m[S] \subseteq S THEN S ELSE f[S \cup m[S]]
    <3> SUFFICES ASSUME NEW S \in SUBSET C
                 PROVE  f[S] = IF m[S] \subseteq S THEN S ELSE f[S \cup m[S]]
      OBVIOUS
    <3>1. f[S \cup m[S]] = Reach(C, m, S \cup m[S]) /\ f[S] = Reach(C, m, S)
      BY <2>1, <2>2
    <3>2. /\ m[S] \subseteq S => Reach(C, m, S) = S
          /\ Reach(C, m, S \cup m[S]) = Reach(C, m, S)
      BY RoundKeepsReach
    <3> QED BY <3>1, <3>2, Zenon
  <2>4. f = [S \in SUBSET C |-> IF m[S] \subseteq S THEN S ELSE f[S \cup m[S]]]
    BY <2>2, <2>3
  <2> QED BY <2>4 DEF Searches
<1>2. ASSUME NEW f, Searches(C, m, f) PROVE \A S \in SUBSET C : f[S] = Reach(C, m, S)
  <2>1. \A S \in SUBSET C : f[S] = IF m[S] \subseteq S THEN S ELSE f[S \cup m[S]]
    BY <1>2 DEF Searches
  <2> DEFINE Found2(u) == f[C \ u] = Reach(C, m, C \ u)
             B == {u \in SUBSET C : \A v \in SUBSET u : Found2(v)}
  <2>2. ASSUME NEW u \in SUBSET C, \A v \in SUBSET u : v # u => Found2(v) PROVE Found2(u)
    <3> DEFINE S == C \ u
    <3>1. CASE m[S] \subseteq S
      BY <2>1, <3>1, RoundKeepsReach
    <3>2. CASE ~(m[S] \subseteq S)
      <4>1. S \cup m[S] = C \ (u \ m[S]) /\ u \ m[S] # u
        BY <3>2 DEF Opens
      <4>2. Found2(u \ m[S])
        BY <2>2, <4>1
      <4>3. f[S] = f[S \cup m[S]]
        BY <2>1, <3>2
      <4>4. Reach(C, m, S \cup m[S]) = Reach(C, m, S)
        BY RoundKeepsReach
      <4> QED BY <4>1, <4>2, <4>3, <4>4
    <3> QED BY <3>1, <3>2
  <2>3. {} \in B
    <3>1. Found2({})
      <4> HIDE DEF Found2
      <4> QED BY <2>2
    <3> QED BY <3>1
  <2>4. ASSUME NEW s \in SUBSET C, s # {}, \A x \in s : s \ {x} \in B PROVE s \in B
    <3> HIDE DEF Found2
    <3>1. \A v \in SUBSET s : v # s => Found2(v)
      <4> SUFFICES ASSUME NEW v \in SUBSET s, v # s PROVE Found2(v)
        OBVIOUS
      <4>1. PICK x \in s : x \notin v
        OBVIOUS
      <4>2. v \in SUBSET (s \ {x})
        BY <4>1
      <4> QED BY <2>4, <4>2
    <3>2. Found2(s)
      BY <2>2, <3>1
    <3> QED BY <3>1, <3>2
  <2>5. \A s \in SUBSET C : s \in B
    <3> HIDE DEF B
    <3> QED BY <2>3, <2>4, SubsetInduction
  <2>6. \A u \in SUBSET C : Found2(u)
    BY <2>5
  <2> SUFFICES ASSUME NEW S \in SUBSET C PROVE f[S] = Reach(C, m, S)
    OBVIOUS
  <2>7. Found2(C \ S) /\ C \ (C \ S) = S
    BY <2>6
  <2> QED BY <2>7
<1> QED BY <1>1, <1>2

\* The cells, and those around one of them.
LEMMA FieldFacts ==
  /\ IsFiniteSet(Minesweeper!Cells) /\ Cardinality(Minesweeper!Cells) = SZ * SZ
  /\ \A c \in Minesweeper!Cells :
       Minesweeper!Near(c) \subseteq Minesweeper!Cells /\ c \in Minesweeper!Near(c)
<1> DEFINE side == 0 .. SZ - 1
<1>1. IsFiniteSet(side) /\ Cardinality(side) = SZ
  <2>1. IsFiniteSet(side) /\ Cardinality(side) = IF 0 > SZ - 1 THEN 0 ELSE (SZ - 1) - 0 + 1
    BY BoardSizes, FS_Interval
  <2> QED BY <2>1, BoardSizes
<1>2. IsFiniteSet(side \X side) /\ Cardinality(side \X side) = SZ * SZ
  <2> HIDE DEF side
  <2>1. IsFiniteSet(side \X side) /\ Cardinality(side \X side) = Cardinality(side) * Cardinality(side)
    BY <1>1, FS_Product
  <2> QED BY <1>1, <2>1
<1>3. ASSUME NEW c \in Minesweeper!Cells
      PROVE  Minesweeper!Near(c) \subseteq Minesweeper!Cells /\ c \in Minesweeper!Near(c)
  <2>1. c = <<c[1], c[2]>> /\ c[1] \in side /\ c[2] \in side
    BY DEF Minesweeper!Cells
  <2>2. c[1] \in Minesweeper!Around(c[1]) /\ c[2] \in Minesweeper!Around(c[2])
    BY <2>1, BoardSizes DEF Minesweeper!Around
  <2>3. Minesweeper!Around(c[1]) \subseteq side /\ Minesweeper!Around(c[2]) \subseteq side
    BY DEF Minesweeper!Around
  <2> HIDE DEF side
  <2>4. Minesweeper!Cells = side \X side
    BY DEF Minesweeper!Cells, side
  <2> QED BY <2>1, <2>2, <2>3, <2>4 DEF Minesweeper!Near
<1> QED BY <1>2, <1>3 DEF Minesweeper!Cells

\* What a flood opens: closed cells without a flag, the one that is clicked first;
\* no mine if that one is none; and all around it if it is blank.
LEMMA FloodFacts ==
  ASSUME NEW c \in Minesweeper!Cells, NEW ms \in SUBSET Minesweeper!Cells
  PROVE  /\ Minesweeper!Flood(c, ms) \subseteq Minesweeper!Closed
         /\ c \in Minesweeper!Closed => c \in Minesweeper!Flood(c, ms)
         /\ c \notin Minesweeper!Closed => Minesweeper!Flood(c, ms) = {}
         /\ c \notin ms => Minesweeper!Flood(c, ms) \cap ms = {}
         /\ c \in Minesweeper!Closed /\ c \in Minesweeper!Blank(ms) =>
              Minesweeper!Near(c) \cap Minesweeper!Closed \subseteq Minesweeper!Flood(c, ms)
<1> DEFINE C == Minesweeper!Cells
           K == Minesweeper!Closed
           Z == Minesweeper!Blank(ms)
           More(S) == UNION {Minesweeper!Near(d) \cap K : d \in S \cap Z}
           m == [S \in SUBSET C |-> More(S)]
           iter == CHOOSE f : f = [S \in SUBSET C |->
                                     IF More(S) \subseteq S THEN S ELSE f[S \cup More(S)]]
           R == Reach(C, m, {c} \cap K)
<1>1. Minesweeper!Flood(c, ms) = iter[{c} \cap K]
  BY DEF Minesweeper!Flood
<1>2. K \subseteq C /\ Z \subseteq C
  BY DEF Minesweeper!Closed, Minesweeper!Blank
<1>3. \A S \in SUBSET C : More(S) \subseteq K /\ m[S] = More(S)
  OBVIOUS
<1>4. Opens(C, m)
  <2>1. m \in [SUBSET C -> SUBSET C]
    BY <1>2, <1>3
  <2>2. \A S, T \in SUBSET C : S \subseteq T => More(S) \subseteq More(T)
    OBVIOUS
  <2> QED BY <1>3, <2>1, <2>2 DEF Opens
<1>5. Searches(C, m, iter)
  <2> DEFINE P(f) == f = [S \in SUBSET C |->
                            IF More(S) \subseteq S THEN S ELSE f[S \cup More(S)]]
  <2>1. PICK f : Searches(C, m, f)
    BY <1>4, FieldFacts, SearchFinds
  <2>2. P(f)
    <3> HIDE DEF C, More
    <3> QED BY <2>1 DEF Searches
  <2>3. P(CHOOSE g : P(g))
    <3> HIDE DEF P
    <3> QED BY <2>2
  <2>4. P(iter)
    BY <2>3
  <2> HIDE DEF C, More, iter
  <2> QED BY <2>4 DEF Searches
<1> HIDE DEF iter
<1>6. Minesweeper!Flood(c, ms) = R
  <2>1. {c} \cap K \in SUBSET C
    BY <1>2
  <2> HIDE DEF C, K, m
  <2> QED BY <1>1, <1>4, <1>5, <2>1, FieldFacts, SearchFinds DEF C
<1>7. {c} \cap K \subseteq R /\ R \in Settled(C, m)
  <2>1. {c} \cap K \in SUBSET C
    BY <1>2
  <2> HIDE DEF C, K, m
  <2> QED BY <1>4, <2>1, ReachIsSettled
<1>8. \A T \in SUBSET C : More(T) \subseteq T /\ {c} \cap K \subseteq T => R \subseteq T
  <2>1. \A T \in SUBSET C : More(T) \subseteq T => T \in Settled(C, m)
    BY <1>3 DEF Settled
  <2> HIDE DEF C, K, m, More
  <2> QED BY <2>1 DEF Reach
<1> HIDE DEF R
<1>9. R \subseteq K
  <2>1. More(K) \subseteq K
    BY <1>2, <1>3
  <2> HIDE DEF C, K, m, More
  <2> QED BY <1>2, <1>8, <2>1
<1>10. c \notin K => R = {}
  <2>1. More({}) = {}
    OBVIOUS
  <2> HIDE DEF C, K, m, More
  <2> QED BY <1>8, <2>1
<1>11. ASSUME c \notin ms PROVE R \cap ms = {}
  <2>1. More(C \ ms) \subseteq C \ ms
    BY <1>2 DEF Minesweeper!Blank
  <2>2. {c} \cap K \subseteq C \ ms /\ C \ ms \in SUBSET C
    BY <1>11
  <2>3. R \subseteq C \ ms
    <3> HIDE DEF C, K, m, More
    <3> QED BY <1>8, <2>1, <2>2
  <2> QED BY <2>3
<1>12. ASSUME c \in K, c \in Z PROVE Minesweeper!Near(c) \cap K \subseteq R
  <2>1. c \in R \cap Z
    BY <1>7, <1>12
  <2>2. More(R) \subseteq R
    BY <1>3, <1>7 DEF Settled
  <2>3. Minesweeper!Near(c) \cap K \subseteq More(R)
    BY <2>1
  <2> QED BY <2>2, <2>3
<1> QED BY <1>6, <1>7, <1>9, <1>10, <1>11, <1>12

\* The books of the game: what is open and flagged was counted, the mines are laid
\* at the first click, and only a lost game has one of them open.
MinesInv ==
  /\ Minesweeper!TypeOK /\ Minesweeper!FlaggedIsClosed
  /\ revealed_count = Cardinality(revealed)
  /\ first_click => mines = {} /\ revealed = {} /\ result = "none"
  /\ ~first_click => Cardinality(mines) = MINES
  /\ result = "lost" <=> revealed \cap mines # {}
  /\ ~first_click /\ result # "lost" => (result = "won" <=> revealed_count = SZ * SZ - MINES)

\* A new field: no mine is laid, nothing is open.
LEMMA MinesStart ==
  ASSUME mines = {} /\ revealed = {} /\ flagged = {} /\ revealed_count = 0 /\ flags = 0
         /\ first_click = TRUE /\ result = "none"
  PROVE  MinesInv
<1>1. Cardinality({}) = 0
  BY FS_EmptySet
<1>2. 0 \in 0 .. SZ * SZ /\ 0 \in 0 .. MaxFlags
  BY BoardSizes, BoundsAreNumbers
<1>3. Minesweeper!TypeOK
  BY <1>2 DEF Minesweeper!TypeOK
<1>4. Minesweeper!FlaggedIsClosed
  BY <1>1 DEF Minesweeper!FlaggedIsClosed, Minesweeper!Cardinality, Cardinality
<1> QED BY <1>1, <1>3, <1>4 DEF MinesInv

\* Every step keeps the invariant.
LEMMA MinesSteps == MinesInv /\ [Minesweeper!Next]_(Minesweeper!vars) => MinesInv'
<1> SUFFICES ASSUME MinesInv, [Minesweeper!Next]_(Minesweeper!vars) PROVE MinesInv'
  OBVIOUS
<1> DEFINE C == Minesweeper!Cells
<1>c. \A S : Minesweeper!Cardinality(S) = Cardinality(S)
  BY Zenon DEF Minesweeper!Cardinality, Cardinality
<1>0. /\ mines \subseteq C /\ revealed \subseteq C /\ flagged \subseteq C
      /\ flags \in 0 .. MaxFlags /\ first_click \in BOOLEAN /\ result \in {"none", "won", "lost"}
  BY DEF MinesInv, Minesweeper!TypeOK
<1>f. flagged \cap revealed = {} /\ flags = Cardinality(flagged)
  BY <1>c DEF MinesInv, Minesweeper!FlaggedIsClosed
<1>n. SZ \in Nat /\ MINES \in Nat /\ MaxFlags \in Nat /\ SZ * SZ \in Nat
  BY BoardSizes, BoundsAreNumbers
<1>e. \A S \in SUBSET C : IsFiniteSet(S) /\ Cardinality(S) \in 0 .. SZ * SZ
  BY FieldFacts, FS_Subset, FS_CardinalityType, <1>n
<1>1. ASSUME NEW c \in C, Minesweeper!SetFlag(c) PROVE MinesInv'
  <2>1. /\ c \notin revealed /\ c \notin flagged /\ flags < MaxFlags
        /\ flagged' = flagged \cup {c} /\ flags' = flags + 1
        /\ UNCHANGED <<mines, revealed, revealed_count, first_click, result>>
    BY <1>1 DEF Minesweeper!SetFlag
  <2>2. Cardinality(flagged \cup {c}) = Cardinality(flagged) + 1
    BY <1>0, <1>e, <2>1, FS_AddElement
  <2>3. flagged' \subseteq C /\ flags' \in 0 .. MaxFlags
    BY <1>0, <1>n, <2>1
  <2>4. Minesweeper!TypeOK'
    BY <2>1, <2>3 DEF MinesInv, Minesweeper!TypeOK
  <2>5. flagged' \cap revealed' = {} /\ flags' = Cardinality(flagged')
    BY <1>f, <2>1, <2>2
  <2> QED BY <1>c, <2>1, <2>4, <2>5 DEF MinesInv, Minesweeper!FlaggedIsClosed
<1>2. ASSUME NEW c \in C, Minesweeper!TakeFlag(c) PROVE MinesInv'
  <2>1. /\ c \in flagged /\ flagged' = flagged \ {c} /\ flags' = flags - 1
        /\ UNCHANGED <<mines, revealed, revealed_count, first_click, result>>
    BY <1>2 DEF Minesweeper!TakeFlag
  <2>2. Cardinality(flagged \ {c}) = Cardinality(flagged) - 1
    BY <1>0, <1>e, <2>1, FS_RemoveElement
  <2>3. flagged' \subseteq C
    BY <1>0, <2>1
  <2>4. flags' \in 0 .. MaxFlags
    <3>1. Cardinality(flagged') \in 0 .. SZ * SZ
      BY <1>e, <2>3
    <3> QED BY <1>0, <1>f, <1>n, <2>1, <2>2, <3>1
  <2>5. Minesweeper!TypeOK'
    BY <2>1, <2>3, <2>4 DEF MinesInv, Minesweeper!TypeOK
  <2>6. flagged' \cap revealed' = {} /\ flags' = Cardinality(flagged')
    BY <1>f, <2>1, <2>2
  <2> QED BY <1>c, <2>1, <2>5, <2>6 DEF MinesInv, Minesweeper!FlaggedIsClosed
<1>3. ASSUME NEW c \in C, NEW ms \in Minesweeper!Minefields(c), Minesweeper!Click(c, ms)
      PROVE  MinesInv'
  <2> DEFINE o == Minesweeper!Flood(c, ms)
             n == revealed_count'
  <2>1. /\ result = "none" /\ c \notin flagged /\ first_click' = FALSE /\ mines' = ms
        /\ revealed' = revealed \cup o /\ n = revealed_count + Cardinality(o)
        /\ UNCHANGED <<flagged, flags>>
    BY <1>3, <1>c, Zenon DEF Minesweeper!Click, Minesweeper!Count
  <2>2. result' = IF o = {} THEN "none" ELSE IF c \in ms THEN "lost"
                  ELSE IF n = SZ * SZ - MINES THEN "won" ELSE "none"
    BY <1>3, Zenon DEF Minesweeper!Click
  <2>3. ms \in SUBSET C /\ Cardinality(ms) = MINES /\ (~first_click => ms = mines)
    <3>1. CASE first_click
      BY <1>c, <3>1 DEF Minesweeper!Minefields, Minesweeper!kSubset
    <3>2. CASE ~first_click
      BY <1>0, <3>2 DEF Minesweeper!Minefields, MinesInv
    <3> QED BY <3>1, <3>2
  <2>4. /\ o \subseteq Minesweeper!Closed
        /\ c \in Minesweeper!Closed => c \in o
        /\ c \notin Minesweeper!Closed => o = {}
        /\ c \notin ms => o \cap ms = {}
    BY <2>3, FloodFacts
  <2> HIDE DEF o, n
  <2>5. o \subseteq C \ (revealed \cup flagged) /\ (c \in o \/ (c \in revealed /\ o = {}))
    BY <2>1, <2>4 DEF Minesweeper!Closed
  <2>6. revealed' \subseteq C /\ flagged \cap revealed' = {}
    BY <1>0, <1>f, <2>1, <2>5
  <2>7. n = Cardinality(revealed')
    <3>1. revealed \cap o = {} /\ IsFiniteSet(revealed) /\ IsFiniteSet(o)
      BY <1>0, <1>e, <2>5
    <3>2. Cardinality(revealed \cup o)
            = Cardinality(revealed) + Cardinality(o) - Cardinality({})
      BY <3>1, FS_Union
    <3>3. Cardinality(revealed) \in Nat /\ Cardinality(o) \in Nat /\ Cardinality({}) = 0
      BY <3>1, FS_CardinalityType, FS_EmptySet
    <3> QED BY <2>1, <3>2, <3>3 DEF MinesInv
  <2>8. n \in 0 .. SZ * SZ
    BY <1>e, <2>6, <2>7
  <2>9. Minesweeper!TypeOK'
    <3>1. result' \in {"none", "won", "lost"}
      BY <2>2
    <3> QED BY <1>0, <2>1, <2>3, <2>6, <2>8, <3>1 DEF Minesweeper!TypeOK, n
  <2>10. Minesweeper!FlaggedIsClosed'
    BY <1>f, <1>c, <2>1, <2>6 DEF Minesweeper!FlaggedIsClosed
  <2>11. /\ result' = "lost" <=> revealed' \cap mines' # {}
         /\ result' # "lost" => (result' = "won" <=> n = SZ * SZ - MINES)
    <3>1. CASE o = {}
      <4>1. c \in revealed /\ ~first_click
        BY <2>5, <3>1 DEF MinesInv
      <4>2. revealed' = revealed /\ mines' = mines
        BY <2>1, <2>3, <3>1, <4>1
      <4>3. n = revealed_count
        BY <2>7, <4>2 DEF MinesInv
      <4>4. result' = "none"
        BY <2>2, <3>1
      <4> QED BY <2>1, <4>1, <4>2, <4>3, <4>4 DEF MinesInv
    <3>2. CASE o # {} /\ c \in ms
      BY <2>1, <2>2, <2>5, <3>2
    <3>3. CASE o # {} /\ c \notin ms
      <4>1. revealed \cap ms = {}
        BY <2>1, <2>3 DEF MinesInv
      <4>2. revealed' \cap mines' = {}
        BY <2>1, <2>4, <3>3, <4>1
      <4>3. result' = "won" <=> n = SZ * SZ - MINES
        BY <2>2, <3>3
      <4>4. result' # "lost"
        BY <2>2, <3>3
      <4> QED BY <4>2, <4>3, <4>4
    <3> QED BY <3>1, <3>2, <3>3
  <2> QED BY <2>1, <2>3, <2>7, <2>9, <2>10, <2>11 DEF MinesInv, n
<1>4. ASSUME Minesweeper!Activate PROVE MinesInv'
  <2>1. mines' = {} /\ revealed' = {} /\ flagged' = {} /\ revealed_count' = 0 /\ flags' = 0
        /\ first_click' = TRUE /\ result' = "none"
    BY <1>4, Zenon DEF Minesweeper!Activate
  <2>2. Cardinality({}) = 0
    BY FS_EmptySet
  <2>3. revealed_count' \in 0 .. SZ * SZ /\ flags' \in 0 .. MaxFlags
    BY <1>n, <2>1
  <2>4. Minesweeper!TypeOK'
    BY <2>1, <2>3 DEF Minesweeper!TypeOK
  <2>5. Minesweeper!FlaggedIsClosed'
    BY <1>c, <2>1, <2>2 DEF Minesweeper!FlaggedIsClosed
  <2> QED BY <2>1, <2>2, <2>4, <2>5 DEF MinesInv
<1>5. ASSUME UNCHANGED Minesweeper!vars PROVE MinesInv'
  BY <1>5, <1>c DEF Minesweeper!vars, MinesInv, Minesweeper!TypeOK, Minesweeper!FlaggedIsClosed
<1> QED BY <1>1, <1>2, <1>3, <1>4, <1>5 DEF Minesweeper!Next

\* The count of the open cells says when the field is cleared.
LEMMA MinesAreCleared == MinesInv => Minesweeper!WonMeansCleared
<1> SUFFICES ASSUME MinesInv PROVE Minesweeper!WonMeansCleared
  OBVIOUS
<1> DEFINE C == Minesweeper!Cells
<1>0. /\ mines \subseteq C /\ revealed \subseteq C
      /\ first_click \in BOOLEAN /\ result \in {"none", "won", "lost"}
  BY DEF MinesInv, Minesweeper!TypeOK
<1>1. CASE first_click
  BY <1>1 DEF MinesInv, Minesweeper!WonMeansCleared
<1>2. CASE ~first_click
  <2>1. IsFiniteSet(C) /\ IsFiniteSet(C \ mines) /\ IsFiniteSet(revealed)
    BY <1>0, FieldFacts, FS_Subset
  <2>2. Cardinality(C \ mines) = SZ * SZ - MINES
    <3>1. Cardinality(C \ mines) = Cardinality(C) - Cardinality(C \cap mines)
      BY <2>1, FS_Difference, FieldFacts
    <3>2. C \cap mines = mines
      BY <1>0
    <3> QED BY <1>2, <3>1, <3>2, FieldFacts DEF MinesInv
  <2>3. ASSUME result = "won" PROVE revealed = C \ mines
    <3>1. revealed \cap mines = {} /\ Cardinality(revealed) = SZ * SZ - MINES
      BY <1>2, <2>3 DEF MinesInv
    <3>2. revealed \subseteq C \ mines
      BY <1>0, <3>1
    <3> HIDE DEF C
    <3> QED BY <2>1, <2>2, <3>1, <3>2, FS_Subset
  <2>4. ASSUME revealed = C \ mines PROVE result = "won"
    <3>1. revealed \cap mines = {} /\ revealed_count = SZ * SZ - MINES
      BY <2>2, <2>4 DEF MinesInv
    <3> QED BY <1>2, <3>1 DEF MinesInv
  <2> QED BY <1>2, <2>3, <2>4 DEF Minesweeper!WonMeansCleared
<1> QED BY <1>0, <1>1, <1>2

\* The first click opens the cells around the clicked one too.
LEMMA FirstClickIsSafe ==
  MinesInv /\ [Minesweeper!Next]_(Minesweeper!vars) => Minesweeper!FirstClickOpensUp
<1> SUFFICES ASSUME MinesInv, [Minesweeper!Next]_(Minesweeper!vars), first_click, ~first_click'
             PROVE  \E c \in revealed' : Minesweeper!Near(c) \ flagged \subseteq revealed' \ mines'
  BY DEF Minesweeper!FirstClickOpensUp
<1>1. PICK c \in Minesweeper!Cells : \E ms \in Minesweeper!Minefields(c) : Minesweeper!Click(c, ms)
  BY DEF Minesweeper!Next, Minesweeper!vars, Minesweeper!SetFlag, Minesweeper!TakeFlag, Minesweeper!Activate
<1>2. PICK ms \in Minesweeper!Minefields(c) : Minesweeper!Click(c, ms)
  BY <1>1
<1>3. ms \in SUBSET (Minesweeper!Cells \ Minesweeper!Near(c))
  BY DEF Minesweeper!Minefields, Minesweeper!kSubset, Minesweeper!SafePlaces
<1>4. c \notin ms /\ c \in Minesweeper!Blank(ms) /\ ms \in SUBSET Minesweeper!Cells
  BY <1>3, FieldFacts DEF Minesweeper!Blank
<1>5. revealed = {} /\ Minesweeper!Closed = Minesweeper!Cells \ flagged
  BY DEF MinesInv, Minesweeper!Closed
<1>6. /\ c \notin flagged /\ mines' = ms
      /\ revealed' = Minesweeper!Flood(c, ms)
  BY <1>2, <1>5, Zenon DEF Minesweeper!Click
<1>7. c \in Minesweeper!Closed
  BY <1>5, <1>6
<1>8. /\ c \in Minesweeper!Flood(c, ms)
      /\ Minesweeper!Flood(c, ms) \cap ms = {}
      /\ Minesweeper!Near(c) \cap Minesweeper!Closed \subseteq Minesweeper!Flood(c, ms)
  BY <1>4, <1>7, FloodFacts
<1>9. Minesweeper!Near(c) \subseteq Minesweeper!Cells
  BY FieldFacts
<1>10. Minesweeper!Near(c) \ flagged \subseteq revealed' \ mines'
  BY <1>5, <1>6, <1>8, <1>9
<1> QED BY <1>6, <1>8, <1>10

-----------------------------------------------------------------------------
(* The actions of the Copilot.                                             *)

\* What a path may hold, and what the paths may hold together.
Held == {CopilotActions!Absent, CopilotActions!Folder} \cup {f[p] : f \in Found, p \in SafePaths}
          \cup {t.content : t \in Tags}
Discs == [SafePaths -> Held]

\* What a tag does to the files, and which apps it starts, as functions.
EffectStep == [z \in Discs \X Tags |-> CopilotActions!Effect(z[1], z[2])]
StartStep == [z \in Seq(Apps) \X Tags |-> CopilotActions!Started(z[1], z[2])]

\* The kinds of a tag.
LEMMA TagKinds ==
  ASSUME NEW t \in Tags
  PROVE  t.kind \in {"create_folder", "create_file", "update_file", "download_file",
                     "delete", "move", "launch"}
  BY TagsAreSound DEF CopilotActions!Kinds

\* The paths of a tag that gets as far as the file system.
LEMMA TagPaths ==
  ASSUME NEW t \in Tags, CopilotActions!OnFiles(t)
  PROVE  t.path \in SafePaths /\ t.kind # "launch" /\ (t.kind = "move" => t.dest \in SafePaths)
  BY TagsAreSound DEF CopilotActions!OnFiles

\* What a path holds.
LEMMA HeldFacts ==
  /\ CopilotActions!Absent \in Held /\ CopilotActions!Folder \in Held
  /\ \A t \in Tags : t.content \in Held
  /\ Found \subseteq Discs
<1>1. \A f \in Found : f \in Discs
  <2> SUFFICES ASSUME NEW f \in Found PROVE f \in Discs
    OBVIOUS
  <2>1. \A p \in SafePaths : f[p] \in Held
    BY DEF Held
  <2>2. f = [p \in SafePaths |-> f[p]]
    BY TagsAreSound
  <2> HIDE DEF Held
  <2> QED BY <2>1, <2>2 DEF Discs
<1> QED BY <1>1 DEF Held

-----------------------------------------------------------------------------
(* The commands, by what they look at and what they change.                *)

\* A folder is made with those above it.
LEMMA MkdirFacts ==
  ASSUME NEW f \in Discs, NEW p \in SafePaths
  PROVE  /\ CopilotActions!Mkdir(f, p) \in Discs
         /\ \A q \in SafePaths \ CopilotActions!Above[p] : CopilotActions!Mkdir(f, p)[q] = f[q]
  BY HeldFacts DEF CopilotActions!Mkdir, CopilotActions!Within, Discs

\* A path is removed with what is in it.
LEMMA RmFacts ==
  ASSUME NEW f \in Discs, NEW p \in SafePaths
  PROVE  /\ CopilotActions!Rm(f, p) \in Discs
         /\ \A q \in SafePaths : CopilotActions!Rm(f, p)[q] =
              IF CopilotActions!Within(q, p) THEN CopilotActions!Absent ELSE f[q]
  BY HeldFacts DEF CopilotActions!Rm, Discs

\* A file is written where there is no folder.
LEMMA WriteFacts ==
  ASSUME NEW f \in Discs, NEW p \in SafePaths, NEW content \in Held
  PROVE  /\ CopilotActions!Write(f, p, content) \in Discs
         /\ \A q \in SafePaths \ {p} : CopilotActions!Write(f, p, content)[q] = f[q]
         /\ CopilotActions!Write(f, p, content)[p] =
              IF CopilotActions!HasParent(f, p) /\ f[p] # CopilotActions!Folder THEN content ELSE f[p]
  BY DEF CopilotActions!Write, Discs

\* Whether mv does nothing.
Refused(f, p, d) ==
  \/ f[p] = CopilotActions!Absent \/ CopilotActions!Within(d, p) \/ ~CopilotActions!HasParent(f, d)
  \/ f[p] = CopilotActions!Folder /\ CopilotActions!IsFile(f, d)
  \/ f[d] = CopilotActions!Folder /\ Parent[p] = d

\* What a move makes of every path.
LEMMA MvFacts ==
  ASSUME NEW f \in Discs, NEW p \in SafePaths, NEW d \in SafePaths
  PROVE  /\ CopilotActions!Mv(f, p, d) \in Discs
         /\ \A q \in SafePaths : CopilotActions!Mv(f, p, d)[q] =
              IF Refused(f, p, d) THEN f[q]
              ELSE IF q = d /\ f[d] # CopilotActions!Folder THEN f[p]
              ELSE IF CopilotActions!Within(q, p) THEN CopilotActions!Absent ELSE f[q]
<1> DEFINE r == CopilotActions!Rm(f, p)
<1>1. /\ r \in Discs
      /\ \A q \in SafePaths : r[q] =
           IF CopilotActions!Within(q, p) THEN CopilotActions!Absent ELSE f[q]
  BY RmFacts
<1>2. CopilotActions!Mv(f, p, d) =
        IF Refused(f, p, d) THEN f
        ELSE IF f[d] = CopilotActions!Folder THEN r ELSE [r EXCEPT ![d] = f[p]]
  BY Zenon DEF CopilotActions!Mv, Refused
<1> HIDE DEF r
<1>3. f[p] \in Held
  BY DEF Discs
<1>4. CASE Refused(f, p, d)
  BY <1>2, <1>4
<1>5. CASE ~Refused(f, p, d) /\ f[d] = CopilotActions!Folder
  BY <1>1, <1>2, <1>5
<1>6. CASE ~Refused(f, p, d) /\ f[d] # CopilotActions!Folder
  <2>1. CopilotActions!Mv(f, p, d) = [r EXCEPT ![d] = f[p]]
    BY <1>2, <1>6
  <2> QED BY <1>1, <1>3, <1>6, <2>1 DEF Discs
<1> QED BY <1>4, <1>5, <1>6

\* A tag leads from a disc to a disc.
LEMMA EffectType ==
  ASSUME NEW f \in Discs, NEW t \in Tags
  PROVE  CopilotActions!Effect(f, t) \in Discs
<1>1. CASE ~CopilotActions!OnFiles(t)
  BY <1>1 DEF CopilotActions!Effect
<1>2. CASE CopilotActions!OnFiles(t)
  <2>1. t.path \in SafePaths /\ (t.kind = "move" => t.dest \in SafePaths) /\ t.content \in Held
    BY <1>2, TagPaths, HeldFacts
  <2>2. /\ CopilotActions!Mkdir(f, t.path) \in Discs /\ CopilotActions!Rm(f, t.path) \in Discs
        /\ CopilotActions!Write(f, t.path, t.content) \in Discs
        /\ t.kind = "move" => CopilotActions!Mv(f, t.path, t.dest) \in Discs
    BY <2>1, MkdirFacts, RmFacts, WriteFacts, MvFacts
  <2> QED BY <1>2, <2>2, Zenon DEF CopilotActions!Effect
<1> QED BY <1>1, <1>2

\* A tag leaves the paths alone that it does not change, ...
LEMMA ChangesOnly ==
  ASSUME NEW f \in Discs, NEW t \in Tags, NEW q \in SafePaths \ CopilotActions!Changes(t)
  PROVE  CopilotActions!Effect(f, t)[q] = f[q]
<1>1. CASE ~CopilotActions!OnFiles(t)
  BY <1>1 DEF CopilotActions!Effect
<1>2. CASE CopilotActions!OnFiles(t)
  <2>0. t.path \in SafePaths /\ (t.kind = "move" => t.dest \in SafePaths) /\ t.content \in Held
    BY <1>2, TagPaths, HeldFacts
  <2>1. CASE t.kind = "create_folder"
    <3>1. q \notin CopilotActions!Above[t.path]
      BY <1>2, <2>1 DEF CopilotActions!Changes
    <3>2. CopilotActions!Effect(f, t) = CopilotActions!Mkdir(f, t.path)
      BY <1>2, <2>1 DEF CopilotActions!Effect
    <3> QED BY <2>0, <3>1, <3>2, MkdirFacts
  <2>2. CASE t.kind = "delete"
    <3>1. ~CopilotActions!Within(q, t.path)
      BY <1>2, <2>2 DEF CopilotActions!Changes
    <3>2. CopilotActions!Effect(f, t) = CopilotActions!Rm(f, t.path)
      BY <1>2, <2>2 DEF CopilotActions!Effect
    <3> QED BY <2>0, <3>1, <3>2, RmFacts
  <2>3. CASE t.kind = "move"
    <3>1. ~CopilotActions!Within(q, t.path) /\ q # t.dest
      BY <1>2, <2>3 DEF CopilotActions!Changes
    <3>2. CopilotActions!Effect(f, t) = CopilotActions!Mv(f, t.path, t.dest)
      BY <1>2, <2>3 DEF CopilotActions!Effect
    <3>3. CopilotActions!Mv(f, t.path, t.dest)[q] =
            IF Refused(f, t.path, t.dest) THEN f[q]
            ELSE IF q = t.dest /\ f[t.dest] # CopilotActions!Folder THEN f[t.path]
            ELSE IF CopilotActions!Within(q, t.path) THEN CopilotActions!Absent ELSE f[q]
      BY <2>0, <2>3, MvFacts, Zenon
    <3> QED BY <3>1, <3>2, <3>3, Zenon
  <2>4. CASE t.kind \notin {"create_folder", "delete", "move"}
    <3>1. q # t.path
      BY <1>2, <2>4 DEF CopilotActions!Changes
    <3>2. CopilotActions!Effect(f, t) \in {f, CopilotActions!Write(f, t.path, t.content)}
      BY <1>2, <2>4 DEF CopilotActions!Effect
    <3> QED BY <2>0, <3>1, <3>2, WriteFacts
  <2> QED BY <2>1, <2>2, <2>3, <2>4
<1> QED BY <1>1, <1>2

\* ... and what it makes of the others depends on what it looks at, ...
Agree(f, g, t) == \A q \in SafePaths \cap CopilotActions!LooksAt(t) : f[q] = g[q]

\* What a tag changes depends on what it looks at only ...
LEMMA LooksOnly ==
  ASSUME NEW f \in Discs, NEW g \in Discs, NEW t \in Tags, Agree(f, g, t),
         NEW q \in SafePaths \cap CopilotActions!Changes(t)
  PROVE  CopilotActions!Effect(f, t)[q] = CopilotActions!Effect(g, t)[q]
<1>1. CASE ~CopilotActions!OnFiles(t)
  BY <1>1 DEF CopilotActions!Changes
<1>2. CASE CopilotActions!OnFiles(t)
  <2>0. t.path \in SafePaths /\ (t.kind = "move" => t.dest \in SafePaths) /\ t.content \in Held
    BY <1>2, TagPaths, HeldFacts
  <2>r. ASSUME NEW p \in SafePaths, Parent[p] \in CopilotActions!LooksAt(t)
        PROVE  CopilotActions!HasParent(f, p) <=> CopilotActions!HasParent(g, p)
    <3>1. Parent[p] \in SafePaths \cup {CopilotActions!Root}
      BY TagsAreSound
    <3> QED BY <2>r, <3>1 DEF CopilotActions!HasParent, Agree
  <2>1. CASE t.kind = "create_folder"
    <3> DEFINE p == t.path
    <3>1. CopilotActions!LooksAt(t) = CopilotActions!Above[p] /\ q \in CopilotActions!Above[p]
      BY <1>2, <2>1 DEF CopilotActions!LooksAt, CopilotActions!Changes
    <3>2. /\ CopilotActions!Effect(f, t) = CopilotActions!Mkdir(f, p)
          /\ CopilotActions!Effect(g, t) = CopilotActions!Mkdir(g, p)
      BY <1>2, <2>1 DEF CopilotActions!Effect
    <3>3. \A a \in SafePaths : CopilotActions!Within(p, a) => f[a] = g[a]
      BY <3>1 DEF CopilotActions!Within, Agree
    <3>4. CopilotActions!Within(p, q)
      BY <3>1 DEF CopilotActions!Within
    <3> HIDE DEF p
    <3> QED BY <3>2, <3>3, <3>4 DEF CopilotActions!Mkdir, CopilotActions!IsFile
  <2>2. CASE t.kind = "delete"
    <3>1. CopilotActions!Within(q, t.path)
      BY <1>2, <2>2 DEF CopilotActions!Changes
    <3>2. /\ CopilotActions!Effect(f, t) = CopilotActions!Rm(f, t.path)
          /\ CopilotActions!Effect(g, t) = CopilotActions!Rm(g, t.path)
      BY <1>2, <2>2 DEF CopilotActions!Effect
    <3> QED BY <2>0, <3>1, <3>2, RmFacts
  <2>3. CASE t.kind = "move"
    <3> DEFINE p == t.path
               d == t.dest
    <3>1. {p, d, q, Parent[d]} \subseteq CopilotActions!LooksAt(t)
      BY <1>2, <2>3 DEF CopilotActions!LooksAt, CopilotActions!Changes
    <3>2. /\ CopilotActions!Effect(f, t) = CopilotActions!Mv(f, p, d)
          /\ CopilotActions!Effect(g, t) = CopilotActions!Mv(g, p, d)
      BY <1>2, <2>3 DEF CopilotActions!Effect
    <3>3. p \in SafePaths /\ d \in SafePaths
      BY <2>0, <2>3
    <3>4. f[p] = g[p] /\ f[d] = g[d] /\ f[q] = g[q]
      BY <3>1, <3>3 DEF Agree
    <3>5. CopilotActions!HasParent(f, d) <=> CopilotActions!HasParent(g, d)
      BY <2>r, <3>1, <3>3
    <3> HIDE DEF p, d
    <3>6. Refused(f, p, d) <=> Refused(g, p, d)
      BY <3>4, <3>5 DEF Refused, CopilotActions!IsFile
    <3>7. CopilotActions!Mv(f, p, d)[q] =
            IF Refused(f, p, d) THEN f[q]
            ELSE IF q = d /\ f[d] # CopilotActions!Folder THEN f[p]
            ELSE IF CopilotActions!Within(q, p) THEN CopilotActions!Absent ELSE f[q]
      BY <3>3, MvFacts, Zenon
    <3>8. CopilotActions!Mv(g, p, d)[q] =
            IF Refused(g, p, d) THEN g[q]
            ELSE IF q = d /\ g[d] # CopilotActions!Folder THEN g[p]
            ELSE IF CopilotActions!Within(q, p) THEN CopilotActions!Absent ELSE g[q]
      BY <3>3, MvFacts, Zenon
    <3>9. CopilotActions!Mv(f, p, d)[q] = CopilotActions!Mv(g, p, d)[q]
      <4> HIDE DEF Refused
      <4>1. CASE Refused(f, p, d)
        BY <3>4, <3>6, <3>7, <3>8, <4>1
      <4>2. CASE ~Refused(f, p, d)
        BY <3>4, <3>6, <3>7, <3>8, <4>2
      <4> QED BY <4>1, <4>2
    <3> QED BY <3>2, <3>9
  <2>4. CASE t.kind \notin {"create_folder", "delete", "move"}
    <3> DEFINE p == t.path
    <3>1. q = p /\ {p, Parent[p]} \subseteq CopilotActions!LooksAt(t)
      BY <1>2, <2>4 DEF CopilotActions!LooksAt, CopilotActions!Changes
    <3>2. f[p] = g[p] /\ (CopilotActions!HasParent(f, p) <=> CopilotActions!HasParent(g, p))
      BY <2>0, <2>r, <3>1 DEF Agree
    <3>3. /\ CopilotActions!Effect(f, t) =
               IF t.kind = "update_file" /\ f[p] # t.search THEN f
               ELSE CopilotActions!Write(f, p, t.content)
          /\ CopilotActions!Effect(g, t) =
               IF t.kind = "update_file" /\ g[p] # t.search THEN g
               ELSE CopilotActions!Write(g, p, t.content)
      BY <1>2, <2>4 DEF CopilotActions!Effect
    <3>4. CopilotActions!Write(f, p, t.content)[p] = CopilotActions!Write(g, p, t.content)[p]
      BY <2>0, <3>2, WriteFacts
    <3> HIDE DEF p
    <3> QED BY <3>1, <3>2, <3>3, <3>4
  <2> QED BY <2>1, <2>2, <2>3, <2>4
<1> QED BY <1>1, <1>2

\* ... which is all that it changes ...
LEMMA ChangesAreLookedAt ==
  ASSUME NEW t \in Tags
  PROVE  CopilotActions!Changes(t) \subseteq CopilotActions!LooksAt(t)
  BY DEF CopilotActions!LooksAt, CopilotActions!Changes

\* ... so that two tags that are apart may change places.
LEMMA ApartCommute ==
  ASSUME NEW f \in Discs, NEW s \in Tags, NEW t \in Tags, CopilotActions!Apart(s, t)
  PROVE  CopilotActions!Effect(CopilotActions!Effect(f, s), t)
           = CopilotActions!Effect(CopilotActions!Effect(f, t), s)
<1> DEFINE fs == CopilotActions!Effect(f, s)
           ft == CopilotActions!Effect(f, t)
           fst == CopilotActions!Effect(fs, t)
           fts == CopilotActions!Effect(ft, s)
           S == CopilotActions!Changes(s)
           T == CopilotActions!Changes(t)
<1>1. fs \in Discs /\ ft \in Discs /\ fst \in Discs /\ fts \in Discs
  BY EffectType
<1>2. /\ S \cap CopilotActions!LooksAt(t) = {} /\ T \cap CopilotActions!LooksAt(s) = {}
      /\ S \cap T = {}
  BY ChangesAreLookedAt DEF CopilotActions!Apart
<1>3. \A q \in SafePaths \ S : fs[q] = f[q] /\ fts[q] = ft[q]
  BY <1>1, ChangesOnly
<1>4. \A q \in SafePaths \ T : ft[q] = f[q] /\ fst[q] = fs[q]
  BY <1>1, ChangesOnly
<1>5. Agree(f, fs, t) /\ Agree(f, ft, s)
  BY <1>2, <1>3, <1>4 DEF Agree
<1>6. \A q \in SafePaths \cap T : ft[q] = fst[q]
  BY <1>1, <1>5, LooksOnly
<1>7. \A q \in SafePaths \cap S : fs[q] = fts[q]
  BY <1>1, <1>5, LooksOnly
<1> HIDE DEF fs, ft, fst, fts, S, T
<1>8. \A q \in SafePaths : fst[q] = fts[q]
  BY <1>2, <1>3, <1>4, <1>6, <1>7
<1> QED BY <1>1, <1>8 DEF Discs, fst, fts, fs, ft

-----------------------------------------------------------------------------
(* The fold over the tags, and what is left of it when one is carried out. *)

\* What the files and the apps come to when the tags are read from front to back.
Read(b, s) == CopilotActions!FoldLeft(CopilotActions!Effect, b, s)
StartedBy(s) == CopilotActions!FoldLeft(CopilotActions!Started, <<>>, s)

\* Max is that of the community modules.
LEMMA SameMax ==
  \A s : CopilotActions!Max(s) = Max(s)
  BY Zenon DEF CopilotActions!Max, Max

\* The effects of the tags as a function, for the fold ...
LEMMA EffectStepType ==
  /\ EffectStep \in [Discs \X Tags -> Discs]
  /\ \A f \in Discs, t \in Tags : EffectStep[<<f, t>>] = CopilotActions!Effect(f, t)
<1>1. \A f \in Discs, t \in Tags : CopilotActions!Effect(f, t) \in Discs
  BY EffectType
<1> HIDE DEF Discs
<1> QED BY <1>1 DEF EffectStep

\* ... and the launches.
LEMMA StartStepType ==
  /\ StartStep \in [Seq(Apps) \X Tags -> Seq(Apps)]
  /\ \A a \in Seq(Apps), t \in Tags : StartStep[<<a, t>>] = CopilotActions!Started(a, t)
<1>1. \A a \in Seq(Apps), t \in Tags : CopilotActions!Started(a, t) \in Seq(Apps)
  BY DEF CopilotActions!Started
<1> QED BY <1>1 DEF StartStep

\* What the fold of the tags does to the files is a run over them, ...
LEMMA ReadRuns ==
  ASSUME NEW b \in Discs, NEW s \in Seq(Tags)
  PROVE  RunsTo(Discs, b, EffectStep, s, Read(b, s))
<1> DEFINE D == SUBSET DOMAIN s
           P(g) == g = [d \in D |-> IF d = {} THEN b
                          ELSE CopilotActions!Effect(g[d \ {CopilotActions!Max(d)}],
                                                     s[CopilotActions!Max(d)])]
           iter == CHOOSE g : P(g)
<1>1. Len(s) \in Nat /\ DOMAIN s = 1..Len(s)
  OBVIOUS
<1>2. \A d \in D \ {{}} : /\ CopilotActions!Max(d) = Max(d) /\ Max(d) \in DOMAIN s
                          /\ s[Max(d)] \in Tags /\ d \ {Max(d)} \in D
  <2>1. ASSUME NEW d \in D \ {{}}
        PROVE  Max(d) \in DOMAIN s /\ s[Max(d)] \in Tags /\ d \ {Max(d)} \in D
    <3>1. Max(d) \in d
      BY <1>1, MaxOfSubset
    <3>2. Max(d) \in 1..Len(s)
      BY <1>1, <3>1
    <3> HIDE DEF Max
    <3> QED BY <1>1, <3>2
  <2> HIDE DEF D, Max
  <2> QED BY <2>1, SameMax
<1>3. \E g : P(g)
  <2>1. HasFoldLeft(Discs, b, EffectStep, s)
    BY EffectStepType, FoldLeftExists
  <2>2. PICK g \in [D -> Discs] : /\ g[{}] = b
           /\ \A d \in D \ {{}} : g[d] = EffectStep[<<g[d \ {Max(d)}], s[Max(d)]>>]
    BY <2>1 DEF HasFoldLeft
  <2>3. \A d \in D \ {{}} :
          g[d] = CopilotActions!Effect(g[d \ {CopilotActions!Max(d)}], s[CopilotActions!Max(d)])
    <3> HIDE DEF D, Max
    <3> QED BY <1>2, <2>2, EffectStepType
  <2> HIDE DEF D
  <2>4. g = [d \in D |-> IF d = {} THEN b
                ELSE CopilotActions!Effect(g[d \ {CopilotActions!Max(d)}],
                                           s[CopilotActions!Max(d)])]
    BY <2>2, <2>3
  <2> QED BY <2>4
<1>4. P(iter)
  <2> HIDE DEF P
  <2> QED BY <1>3
<1>5. Read(b, s) = iter[DOMAIN s]
  BY DEF Read, CopilotActions!FoldLeft, CopilotActions!MapThenFoldSet
<1>6. /\ iter[{}] = b
      /\ \A d \in D \ {{}} :
           iter[d] = CopilotActions!Effect(iter[d \ {CopilotActions!Max(d)}],
                                           s[CopilotActions!Max(d)])
  <2> HIDE DEF iter
  <2> QED BY <1>4
<1>7. \A d \in SUBSET DOMAIN s : d # {} /\ iter[d \ {Max(d)}] \in Discs =>
        iter[d] = EffectStep[<<iter[d \ {Max(d)}], s[Max(d)]>>]
  <2> HIDE DEF iter, Max
  <2> QED BY <1>2, <1>6, EffectStepType
<1> HIDE DEF iter
<1>8. RunsTo(Discs, b, EffectStep, s, iter[DOMAIN s])
  BY <1>6, <1>7, EffectStepType, FoldLeftRuns
<1> QED BY <1>5, <1>8

\* ... and so is the list of the apps that it starts.
LEMMA StartedRuns ==
  ASSUME NEW s \in Seq(Tags)
  PROVE  RunsTo(Seq(Apps), <<>>, StartStep, s, StartedBy(s))
<1> DEFINE D == SUBSET DOMAIN s
           X == Seq(Apps)
           P(g) == g = [d \in D |-> IF d = {} THEN <<>>
                          ELSE CopilotActions!Started(g[d \ {CopilotActions!Max(d)}],
                                                      s[CopilotActions!Max(d)])]
           iter == CHOOSE g : P(g)
<1>1. Len(s) \in Nat /\ DOMAIN s = 1..Len(s) /\ <<>> \in X
  OBVIOUS
<1>2. \A d \in D \ {{}} : /\ CopilotActions!Max(d) = Max(d) /\ Max(d) \in DOMAIN s
                          /\ s[Max(d)] \in Tags /\ d \ {Max(d)} \in D
  <2>1. ASSUME NEW d \in D \ {{}}
        PROVE  Max(d) \in DOMAIN s /\ s[Max(d)] \in Tags /\ d \ {Max(d)} \in D
    <3>1. Max(d) \in d
      BY <1>1, MaxOfSubset
    <3>2. Max(d) \in 1..Len(s)
      BY <1>1, <3>1
    <3> HIDE DEF Max
    <3> QED BY <1>1, <3>2
  <2> HIDE DEF D, Max
  <2> QED BY <2>1, SameMax
<1>s. StartStep \in [X \X Tags -> X]
      /\ \A a \in X, t \in Tags : StartStep[<<a, t>>] = CopilotActions!Started(a, t)
  BY StartStepType
<1> HIDE DEF X
<1>3. \E g : P(g)
  <2>1. HasFoldLeft(X, <<>>, StartStep, s)
    BY <1>1, <1>s, FoldLeftExists
  <2>2. PICK g \in [D -> X] : /\ g[{}] = <<>>
           /\ \A d \in D \ {{}} : g[d] = StartStep[<<g[d \ {Max(d)}], s[Max(d)]>>]
    BY <2>1 DEF HasFoldLeft
  <2>3. \A d \in D \ {{}} :
          g[d] = CopilotActions!Started(g[d \ {CopilotActions!Max(d)}], s[CopilotActions!Max(d)])
    <3> HIDE DEF D, Max
    <3> QED BY <1>2, <1>s, <2>2
  <2> HIDE DEF D
  <2>4. g = [d \in D |-> IF d = {} THEN <<>>
                ELSE CopilotActions!Started(g[d \ {CopilotActions!Max(d)}],
                                            s[CopilotActions!Max(d)])]
    BY <2>2, <2>3
  <2> QED BY <2>4
<1>4. P(iter)
  <2> HIDE DEF P
  <2> QED BY <1>3
<1>5. StartedBy(s) = iter[DOMAIN s]
  BY DEF StartedBy, CopilotActions!FoldLeft, CopilotActions!MapThenFoldSet
<1>6. /\ iter[{}] = <<>>
      /\ \A d \in D \ {{}} :
           iter[d] = CopilotActions!Started(iter[d \ {CopilotActions!Max(d)}],
                                            s[CopilotActions!Max(d)])
  <2> HIDE DEF iter
  <2> QED BY <1>4
<1>7. \A d \in SUBSET DOMAIN s : d # {} /\ iter[d \ {Max(d)}] \in X =>
        iter[d] = StartStep[<<iter[d \ {Max(d)}], s[Max(d)]>>]
  <2> HIDE DEF iter, Max
  <2> QED BY <1>2, <1>6, <1>s
<1> HIDE DEF iter
<1>8. RunsTo(X, <<>>, StartStep, s, iter[DOMAIN s])
  BY <1>1, <1>6, <1>7, <1>s, FoldLeftRuns
<1> QED BY <1>5, <1>8 DEF X

\* t is s without its element i.
IsRemoval(S, s, i, t) ==
  /\ t \in Seq(S) /\ Len(t) = Len(s) - 1
  /\ \A j \in 1..(Len(s) - 1) : t[j] = IF j < i THEN s[j] ELSE s[j + 1]

\* An element that commutes with those before it may be taken first.
LEMMA TakenFirst ==
  ASSUME NEW X, NEW V, NEW b \in X, NEW F \in [X \X V -> X], NEW s \in Seq(V),
         NEW i \in 1..Len(s), NEW t, IsRemoval(V, s, i, t), NEW r, RunsTo(X, b, F, s, r),
         \A j \in 1..(i - 1), x \in X :
           F[<<F[<<x, s[j]>>], s[i]>>] = F[<<F[<<x, s[i]>>], s[j]>>]
  PROVE  RunsTo(X, F[<<b, s[i]>>], F, t, r)
<1>1. /\ Len(s) \in Nat /\ i \in Nat /\ Len(t) = Len(s) - 1 /\ Len(t) \in Nat
      /\ \A k \in 1..Len(s) : s[k] \in V
  BY DEF IsRemoval
<1>2. PICK h \in [0..Len(s) -> X] :
            /\ h[0] = b
            /\ \A k \in 1..Len(s) : h[k] = F[<<h[k - 1], s[k]>>]
            /\ r = h[Len(s)]
  BY DEF RunsTo
<1> DEFINE g == [k \in 0..Len(t) |-> IF k < i THEN F[<<h[k], s[i]>>] ELSE h[k + 1]]
<1>3. \A k \in 0..Len(s) : h[k] \in X
  OBVIOUS
<1>4. ASSUME NEW k \in 0..Len(t) PROVE g[k] \in X
  <2>1. k \in 0..Len(s) /\ k + 1 \in 0..Len(s) /\ s[i] \in V
    BY <1>1
  <2> QED BY <1>3, <2>1
<1>5. ASSUME NEW k \in 1..Len(t) PROVE g[k] = F[<<g[k - 1], t[k]>>]
  <2>1. /\ k \in 0..Len(t) /\ k - 1 \in 0..Len(t) /\ k \in 1..Len(s) /\ k - 1 \in 0..Len(s)
        /\ k + 1 \in 1..Len(s) /\ (k + 1) - 1 = k /\ (k - 1) + 1 = k
        /\ s[i] \in V /\ s[k] \in V /\ k \in 1..(Len(s) - 1)
    BY <1>1
  <2>2. t[k] = IF k < i THEN s[k] ELSE s[k + 1]
    BY <2>1 DEF IsRemoval
  <2>3. h[k - 1] \in X /\ h[k] = F[<<h[k - 1], s[k]>>] /\ h[k + 1] = F[<<h[k], s[k + 1]>>]
    BY <1>2, <1>3, <2>1
  <2>4. CASE k < i
    <3>1. k - 1 < i /\ k \in 1..(i - 1)
      BY <1>1, <2>4
    <3>2. g[k] = F[<<h[k], s[i]>>] /\ g[k - 1] = F[<<h[k - 1], s[i]>>] /\ t[k] = s[k]
      BY <2>1, <2>2, <2>4, <3>1
    <3>3. F[<<F[<<h[k - 1], s[k]>>], s[i]>>] = F[<<F[<<h[k - 1], s[i]>>], s[k]>>]
      BY <2>3, <3>1
    <3> HIDE DEF g
    <3> QED BY <2>3, <3>2, <3>3
  <2>5. CASE k = i
    <3>1. k - 1 < i /\ ~(k < i)
      BY <1>1, <2>5
    <3>2. g[k] = h[k + 1] /\ g[k - 1] = F[<<h[k - 1], s[k]>>] /\ t[k] = s[k + 1]
      BY <2>1, <2>2, <2>5, <3>1
    <3> HIDE DEF g
    <3> QED BY <2>3, <3>2
  <2>6. CASE k > i
    <3>1. ~(k - 1 < i) /\ ~(k < i)
      BY <1>1, <2>6
    <3>2. g[k] = h[k + 1] /\ g[k - 1] = h[k] /\ t[k] = s[k + 1]
      BY <2>1, <2>2, <3>1
    <3> HIDE DEF g
    <3> QED BY <2>3, <3>2
  <2> QED BY <1>1, <2>4, <2>5, <2>6
<1>6. r = g[Len(t)]
  <2>1. Len(t) \in 0..Len(t) /\ Len(t) + 1 = Len(s) /\ i \in 1..Len(s)
    BY <1>1
  <2>2. CASE i = Len(s)
    BY <1>1, <1>2, <2>1, <2>2
  <2>3. CASE i # Len(s)
    BY <1>1, <1>2, <2>1, <2>3
  <2> QED BY <2>2, <2>3
<1>7. g[0] = F[<<b, s[i]>>]
  <2>1. 0 \in 0..Len(t) /\ 0 < i
    BY <1>1
  <2>2. g[0] = F[<<h[0], s[i]>>]
    BY <2>1
  <2> HIDE DEF g
  <2> QED BY <1>2, <2>2
<1>8. g \in [0..Len(t) -> X]
  BY <1>4
<1> HIDE DEF g
<1> QED BY <1>5, <1>6, <1>7, <1>8 DEF RunsTo

\* Nothing is left to run through.
LEMMA RunIsOver ==
  ASSUME NEW X, NEW b, NEW F, NEW s, Len(s) = 0, NEW r, RunsTo(X, b, F, s, r)
  PROVE  r = b
  BY DEF RunsTo

\* RemoveAt, which closes the gap.
LEMMA Removed ==
  ASSUME NEW S, NEW s \in Seq(S), NEW i \in 1..Len(s)
  PROVE  IsRemoval(S, s, i, CopilotActions!RemoveAt(s, i))
<1> DEFINE v == SubSeq(s, 1, i - 1)
           w == SubSeq(s, i + 1, Len(s))
<1>1. Len(s) \in Nat /\ i \in Nat
  OBVIOUS
<1>2. v \in Seq(S) /\ Len(v) = i - 1 /\ \A j \in 1..(i - 1) : v[j] = s[j]
  BY <1>1, SubSeqProperties
<1>3. w \in Seq(S) /\ Len(w) = Len(s) - i /\ \A j \in 1..(Len(s) - i) : w[j] = s[i + j]
  BY <1>1, SubSeqProperties
<1>4. CopilotActions!RemoveAt(s, i) = v \o w
  BY Zenon DEF CopilotActions!RemoveAt
<1> HIDE DEF v, w
<1>5. /\ v \o w \in Seq(S) /\ Len(v \o w) = Len(s) - 1
      /\ \A j \in 1..(Len(s) - 1) : (v \o w)[j] = IF j <= i - 1 THEN v[j] ELSE w[j - (i - 1)]
  <2>1. /\ v \o w \in Seq(S) /\ Len(v \o w) = Len(v) + Len(w)
        /\ \A j \in 1..(Len(v) + Len(w)) :
             (v \o w)[j] = IF j <= Len(v) THEN v[j] ELSE w[j - Len(v)]
    BY <1>2, <1>3, ConcatProperties
  <2>2. Len(v) + Len(w) = Len(s) - 1
    BY <1>1, <1>2, <1>3
  <2> QED BY <1>2, <2>1, <2>2
<1>6. ASSUME NEW j \in 1..(Len(s) - 1)
      PROVE  (v \o w)[j] = IF j < i THEN s[j] ELSE s[j + 1]
  <2>1. CASE j < i
    BY <1>1, <1>2, <1>5, <2>1
  <2>2. CASE ~(j < i)
    <3>1. j - (i - 1) \in 1..(Len(s) - i) /\ i + (j - (i - 1)) = j + 1 /\ ~(j <= i - 1)
      BY <1>1, <2>2
    <3> QED BY <1>3, <1>5, <2>2, <3>1
  <2> QED BY <2>1, <2>2
<1> QED BY <1>4, <1>5, <1>6 DEF IsRemoval

-----------------------------------------------------------------------------
(* An answer, tag by tag.                                                  *)

\* The tags that are still to be carried out.
Waiting == IF cut THEN CopilotActions!Front(display) ELSE display

\* Carrying out those that are waiting leads to what the answer says.
Coming ==
  /\ RunsTo(Seq(Apps), launched, StartStep, Waiting, StartedBy(CopilotActions!Written))
  /\ CopilotActions!WellOrdered(CopilotActions!Written) =>
       /\ CopilotActions!WellOrdered(Waiting)
       /\ RunsTo(Discs, place, EffectStep, Waiting, Read(found, CopilotActions!Written))

\* The types, and that only tags of the answer wait.
ActionsTyped ==
  /\ CopilotActions!TypeOK
  /\ found \in Discs /\ place \in Discs
  /\ cut => display # <<>>
  /\ \A i \in DOMAIN display : \E j \in DOMAIN answer : answer[j] = display[i]

\* The flag is up when the files were changed but by a download.
Raised ==
  place # found /\ (\A i \in DOMAIN answer : answer[i].kind # "download_file") => fs_modified

\* The signal, or that there is none, comes when nothing is waiting and goes by the flag.
EndsOnce ==
  /\ signalled # "pending" => CopilotActions!Closed = {}
  /\ signalled = "nobody" => ~fs_modified

ActionsInv == ActionsTyped /\ Coming /\ Raised /\ EndsOnce

\* A sequence without its last element.
LEMMA FrontOfActions ==
  ASSUME NEW S, NEW s \in Seq(S), s # <<>>
  PROVE  /\ CopilotActions!Front(s) \in Seq(S) /\ Len(CopilotActions!Front(s)) = Len(s) - 1
         /\ \A j \in 1..(Len(s) - 1) : CopilotActions!Front(s)[j] = s[j]
<1>1. Len(s) \in Nat /\ Len(s) # 0
  BY EmptySeq
<1>2. CopilotActions!Front(s) = SubSeq(s, 1, Len(s) - 1)
  BY Zenon DEF CopilotActions!Front
<1> DEFINE n == Len(s) - 1
<1>3. n \in Nat /\ 1 \in Int /\ n \in Int /\ \A j \in 1..n : s[j] \in S
  BY <1>1
<1> HIDE DEF n
<1>4. /\ SubSeq(s, 1, n) \in Seq(S)
      /\ Len(SubSeq(s, 1, n)) = IF 1 <= n THEN n - 1 + 1 ELSE 0
      /\ \A j \in 1..(n - 1 + 1) : SubSeq(s, 1, n)[j] = s[1 + j - 1]
  BY <1>3, SubSeqProperties
<1>5. Len(SubSeq(s, 1, n)) = n /\ \A j \in 1..n : SubSeq(s, 1, n)[j] = s[j]
  BY <1>3, <1>4
<1> QED BY <1>2, <1>4, <1>5 DEF n

\* The tags that are waiting are the first ones of the text.
LEMMA WaitingFacts ==
  ASSUME display \in Seq(Tags), cut \in BOOLEAN, cut => display # <<>>
  PROVE  /\ Waiting \in Seq(Tags) /\ Len(Waiting) \in Nat /\ Len(display) \in Nat
         /\ Len(Waiting) = IF cut THEN Len(display) - 1 ELSE Len(display)
         /\ \A j \in 1..Len(Waiting) : Waiting[j] = display[j]
         /\ CopilotActions!Closed = 1..Len(Waiting)
<1>1. Len(display) \in Nat /\ DOMAIN display = 1..Len(display)
  OBVIOUS
<1>2. CASE cut
  <2>1. Waiting = CopilotActions!Front(display)
    BY <1>2 DEF Waiting
  <2>2. /\ Waiting \in Seq(Tags) /\ Len(Waiting) = Len(display) - 1
        /\ \A j \in 1..(Len(display) - 1) : Waiting[j] = display[j]
    BY <1>2, <2>1, FrontOfActions
  <2>3. CopilotActions!Closed = 1..(Len(display) - 1)
    BY <1>1, <1>2 DEF CopilotActions!Closed
  <2> QED BY <1>1, <1>2, <2>2, <2>3
<1>3. CASE ~cut
  <2>1. Waiting = display
    BY <1>3 DEF Waiting
  <2>2. CopilotActions!Closed = 1..Len(display)
    BY <1>1, <1>3 DEF CopilotActions!Closed
  <2> QED BY <1>1, <1>3, <2>1, <2>2
<1> QED BY <1>2, <1>3

\* What carrying out a tag changes of the text and of the files.
Taken(i) ==
  /\ CopilotActions!IsNext(i) /\ i \in DOMAIN display
  /\ display' = CopilotActions!RemoveAt(display, i)
  /\ answer' = answer /\ cut' = cut /\ found' = found

\* What is known of the tag that is taken.
LEMMA TakenFacts ==
  ASSUME ActionsTyped, NEW i, Taken(i)
  PROVE  /\ i \in 1..Len(Waiting) /\ display[i] \in Tags /\ Waiting[i] = display[i]
         /\ display' \in Seq(Tags) /\ (cut' => display' # <<>>)
         /\ \A k \in DOMAIN display' : \E j \in DOMAIN display : display'[k] = display[j]
         /\ Waiting \in Seq(Tags) /\ IsRemoval(Tags, Waiting, i, Waiting')
         /\ \A j \in 1..(i - 1) :
              CopilotActions!Pass(Waiting[i]) < CopilotActions!Pass(Waiting[j])
<1>1. /\ Waiting \in Seq(Tags) /\ Len(Waiting) \in Nat /\ Len(display) \in Nat
      /\ Len(Waiting) = IF cut THEN Len(display) - 1 ELSE Len(display)
      /\ \A j \in 1..Len(Waiting) : Waiting[j] = display[j]
      /\ CopilotActions!Closed = 1..Len(Waiting)
  BY WaitingFacts DEF ActionsTyped, CopilotActions!TypeOK
<1>2. display \in Seq(Tags) /\ cut \in BOOLEAN /\ DOMAIN display = 1..Len(display)
  BY DEF ActionsTyped, CopilotActions!TypeOK
<1>3. i \in 1..Len(Waiting) /\ i \in 1..Len(display)
  BY <1>1, <1>2 DEF Taken, CopilotActions!IsNext
<1>4. IsRemoval(Tags, display, i, display')
  BY <1>2, <1>3, Removed DEF Taken
<1>5. /\ display' \in Seq(Tags) /\ Len(display') = Len(display) - 1
      /\ \A j \in 1..(Len(display) - 1) :
           display'[j] = IF j < i THEN display[j] ELSE display[j + 1]
      /\ DOMAIN display' = 1..Len(display')
  BY <1>4 DEF IsRemoval
<1>6. cut' => display' # <<>>
  <2>1. SUFFICES ASSUME cut, display' = <<>> PROVE FALSE
    BY DEF Taken
  <2>2. Len(display') = 0
    BY <2>1
  <2> QED BY <1>1, <1>3, <1>5, <2>1, <2>2
<1>7. \A k \in DOMAIN display' : \E j \in DOMAIN display : display'[k] = display[j]
  <2> SUFFICES ASSUME NEW k \in DOMAIN display'
               PROVE  \E j \in DOMAIN display : display'[k] = display[j]
    OBVIOUS
  <2>1. k \in 1..Len(display) /\ k + 1 \in 1..Len(display) /\ k \in 1..(Len(display) - 1)
    BY <1>1, <1>5
  <2>2. display'[k] = display[k] \/ display'[k] = display[k + 1]
    BY <1>5, <2>1
  <2> QED BY <1>2, <2>1, <2>2
<1>8. /\ Waiting' \in Seq(Tags) /\ Len(Waiting') = Len(Waiting) - 1
      /\ \A j \in 1..Len(Waiting') : Waiting'[j] = display'[j]
  <2>1. cut' = cut
    BY DEF Taken
  <2>2. CASE cut
    <3>1. Waiting' = CopilotActions!Front(display')
      BY <2>1, <2>2 DEF Waiting
    <3>2. display' # <<>>
      BY <1>6, <2>1, <2>2
    <3>3. /\ Waiting' \in Seq(Tags) /\ Len(Waiting') = Len(display') - 1
          /\ \A j \in 1..(Len(display') - 1) : Waiting'[j] = display'[j]
      BY <1>5, <3>1, <3>2, FrontOfActions
    <3> QED BY <1>1, <1>5, <2>2, <3>3
  <2>3. CASE ~cut
    <3>1. Waiting' = display'
      BY <2>1, <2>3 DEF Waiting
    <3> QED BY <1>1, <1>5, <2>3, <3>1
  <2> QED BY <2>2, <2>3
<1>9. IsRemoval(Tags, Waiting, i, Waiting')
  <2>1. ASSUME NEW j \in 1..(Len(Waiting) - 1)
        PROVE  Waiting'[j] = IF j < i THEN Waiting[j] ELSE Waiting[j + 1]
    <3>1. j \in 1..(Len(display) - 1) /\ j \in 1..Len(Waiting) /\ j + 1 \in 1..Len(Waiting)
          /\ j \in 1..Len(Waiting')
      BY <1>1, <1>8
    <3> QED BY <1>1, <1>5, <1>8, <3>1
  <2> QED BY <1>8, <2>1 DEF IsRemoval
<1>10. \A j \in 1..(i - 1) : CopilotActions!Pass(Waiting[i]) < CopilotActions!Pass(Waiting[j])
  <2> SUFFICES ASSUME NEW j \in 1..(i - 1)
               PROVE  CopilotActions!Pass(Waiting[i]) < CopilotActions!Pass(Waiting[j])
    OBVIOUS
  <2>1. j \in 1..Len(Waiting) /\ ~(i <= j)
    BY <1>1, <1>3
  <2>2. Waiting[i] = display[i] /\ Waiting[j] = display[j]
    BY <1>1, <1>3, <2>1
  <2>3. \/ CopilotActions!Pass(display[i]) < CopilotActions!Pass(display[j])
        \/ CopilotActions!Pass(display[i]) = CopilotActions!Pass(display[j]) /\ i <= j
    BY <1>1, <2>1, Zenon DEF Taken, CopilotActions!IsNext
  <2>4. CopilotActions!Pass(display[i]) < CopilotActions!Pass(display[j])
    BY <2>1, <2>3
  <2>5. /\ CopilotActions!Pass(Waiting[i]) = CopilotActions!Pass(display[i])
        /\ CopilotActions!Pass(Waiting[j]) = CopilotActions!Pass(display[j])
    BY <2>2, Zenon
  <2> QED BY <2>4, <2>5, Zenon
<1>11. display[i] \in Tags
  BY <1>2, <1>3
<1>12. Waiting[i] = display[i]
  BY <1>1, <1>3, Zenon
<1> QED BY <1>1, <1>3, <1>5, <1>6, <1>7, <1>9, <1>10, <1>11, <1>12, Zenon

\* No kind comes after the launches.
LEMMA LaunchComesLast ==
  ASSUME NEW s \in Tags, NEW t \in Tags, s.kind = "launch"
  PROVE  ~(CopilotActions!Pass(s) < CopilotActions!Pass(t))
<1>1. DOMAIN CopilotActions!Kinds = 1..7 /\ CopilotActions!Kinds[7] = "launch"
      /\ \A i \in 1..6 : CopilotActions!Kinds[i] # "launch"
  BY DEF CopilotActions!Kinds
<1>2. \A u \in Tags : \E i \in 1..7 : CopilotActions!Kinds[i] = u.kind
  BY TagsAreSound, Zenon
<1> HIDE DEF CopilotActions!Kinds
<1>3. \A u \in Tags : /\ CopilotActions!Pass(u) \in 1..7
                      /\ CopilotActions!Kinds[CopilotActions!Pass(u)] = u.kind
  BY <1>1, <1>2, Zenon DEF CopilotActions!Pass
<1>4. CopilotActions!Pass(s) = 7
  <2>1. CopilotActions!Pass(s) \in 1..7 /\ ~(CopilotActions!Pass(s) \in 1..6)
    BY <1>1, <1>3
  <2> QED BY <2>1
<1>5. CopilotActions!Pass(t) \in 1..7
  BY <1>3
<1> QED BY <1>4, <1>5

\* Taking a tag out keeps the rest in order.
LEMMA StillOrdered ==
  ASSUME NEW s \in Seq(Tags), NEW i \in 1..Len(s), NEW t, IsRemoval(Tags, s, i, t),
         CopilotActions!WellOrdered(s)
  PROVE  CopilotActions!WellOrdered(t)
<1> SUFFICES ASSUME NEW j \in DOMAIN t, NEW k \in DOMAIN t, j < k,
                    CopilotActions!Pass(t[k]) < CopilotActions!Pass(t[j])
             PROVE  CopilotActions!Apart(t[j], t[k])
  BY Zenon DEF CopilotActions!WellOrdered
<1> DEFINE m(n) == IF n < i THEN n ELSE n + 1
<1>1. /\ j \in Nat /\ k \in Nat /\ i \in Nat /\ j \in 1..(Len(s) - 1) /\ k \in 1..(Len(s) - 1)
      /\ DOMAIN s = 1..Len(s) /\ Len(s) \in Nat
  BY DEF IsRemoval
<1>2. t[j] = s[m(j)] /\ t[k] = s[m(k)]
  BY <1>1 DEF IsRemoval
<1>3. m(j) \in DOMAIN s /\ m(k) \in DOMAIN s /\ m(j) < m(k)
  BY <1>1
<1> HIDE DEF m
<1> QED BY <1>2, <1>3, Zenon DEF CopilotActions!WellOrdered

\* The file system's part of an answer, ...
LEMMA FilesComing ==
  ASSUME ActionsTyped, Coming, NEW i, Taken(i), place' = CopilotActions!Effect(place, display[i])
  PROVE  CopilotActions!WellOrdered(CopilotActions!Written) =>
           /\ CopilotActions!WellOrdered(Waiting')
           /\ RunsTo(Discs, place', EffectStep, Waiting', Read(found, CopilotActions!Written))
<1> SUFFICES ASSUME CopilotActions!WellOrdered(CopilotActions!Written)
             PROVE  /\ CopilotActions!WellOrdered(Waiting')
                    /\ RunsTo(Discs, place', EffectStep, Waiting',
                              Read(found, CopilotActions!Written))
  OBVIOUS
<1> DEFINE w == Waiting
           v == Waiting'
           r == Read(found, CopilotActions!Written)
<1>1. /\ i \in 1..Len(w) /\ w[i] = display[i] /\ w \in Seq(Tags) /\ IsRemoval(Tags, w, i, v)
      /\ \A j \in 1..(i - 1) : CopilotActions!Pass(w[i]) < CopilotActions!Pass(w[j])
  BY TakenFacts
<1>2. CopilotActions!WellOrdered(w) /\ RunsTo(Discs, place, EffectStep, w, r)
  BY DEF Coming
<1>3. place \in Discs
  BY DEF ActionsTyped
<1> HIDE DEF w, v, r
<1>4. CopilotActions!WellOrdered(v)
  BY <1>1, <1>2, StillOrdered
<1>5. Len(w) \in Nat /\ i \in Nat /\ DOMAIN w = 1..Len(w)
  BY <1>1
<1>6. ASSUME NEW j \in 1..(i - 1), NEW f \in Discs
      PROVE  EffectStep[<<EffectStep[<<f, w[j]>>], w[i]>>]
               = EffectStep[<<EffectStep[<<f, w[i]>>], w[j]>>]
  <2>1. j \in DOMAIN w /\ i \in DOMAIN w /\ j < i
    BY <1>1, <1>5
  <2>2. w[j] \in Tags /\ w[i] \in Tags
    BY <1>1, <2>1
  <2>3. CopilotActions!Pass(w[i]) < CopilotActions!Pass(w[j])
    BY <1>1
  <2>4. CopilotActions!Apart(w[j], w[i])
    BY <1>2, <2>1, <2>3, Zenon DEF CopilotActions!WellOrdered
  <2>5. CopilotActions!Effect(CopilotActions!Effect(f, w[j]), w[i])
          = CopilotActions!Effect(CopilotActions!Effect(f, w[i]), w[j])
    BY <2>2, <2>4, ApartCommute
  <2>6. CopilotActions!Effect(f, w[j]) \in Discs /\ CopilotActions!Effect(f, w[i]) \in Discs
    BY <2>2, EffectType
  <2> QED BY <2>2, <2>5, <2>6, EffectStepType
<1>7. RunsTo(Discs, EffectStep[<<place, w[i]>>], EffectStep, v, r)
  BY <1>1, <1>2, <1>3, <1>6, EffectStepType, TakenFirst
<1>8. EffectStep[<<place, w[i]>>] = place'
  <2>1. w[i] \in Tags
    BY <1>1
  <2> QED BY <1>1, <1>3, <2>1, EffectStepType
<1> QED BY <1>4, <1>7, <1>8 DEF v, r

\* ... and the apps of one.
LEMMA AppsComing ==
  ASSUME ActionsTyped, Coming, NEW i, Taken(i),
         launched' = CopilotActions!Started(launched, display[i])
  PROVE  RunsTo(Seq(Apps), launched', StartStep, Waiting', StartedBy(CopilotActions!Written))
<1> DEFINE w == Waiting
           v == Waiting'
           r == StartedBy(CopilotActions!Written)
           X == Seq(Apps)
<1>1. /\ i \in 1..Len(w) /\ w[i] = display[i] /\ w \in Seq(Tags) /\ IsRemoval(Tags, w, i, v)
      /\ \A j \in 1..(i - 1) : CopilotActions!Pass(w[i]) < CopilotActions!Pass(w[j])
  BY TakenFacts
<1>2. RunsTo(X, launched, StartStep, w, r)
  BY DEF Coming
<1>3. launched \in X
  BY DEF ActionsTyped, CopilotActions!TypeOK
<1>4. /\ StartStep \in [X \X Tags -> X]
      /\ \A a \in X, t \in Tags : StartStep[<<a, t>>] = CopilotActions!Started(a, t)
  BY StartStepType
<1> HIDE DEF w, v, r, X
<1>5. Len(w) \in Nat /\ i \in Nat /\ DOMAIN w = 1..Len(w) /\ w[i] \in Tags
  BY <1>1
<1>6. ASSUME NEW j \in 1..(i - 1), NEW a \in X
      PROVE  StartStep[<<StartStep[<<a, w[j]>>], w[i]>>]
               = StartStep[<<StartStep[<<a, w[i]>>], w[j]>>]
  <2>1. w[j] \in Tags
    BY <1>1, <1>5
  <2>2. w[i].kind # "launch"
    <3>1. CopilotActions!Pass(w[i]) < CopilotActions!Pass(w[j])
      BY <1>1
    <3> QED BY <1>5, <2>1, <3>1, LaunchComesLast, Zenon
  <2>3. \A x \in X : StartStep[<<x, w[i]>>] = x
    BY <1>4, <1>5, <2>2 DEF CopilotActions!Started
  <2>4. StartStep[<<a, w[j]>>] \in X
    BY <1>4, <2>1
  <2> QED BY <2>3, <2>4
<1>7. RunsTo(X, StartStep[<<launched, w[i]>>], StartStep, v, r)
  BY <1>1, <1>2, <1>3, <1>4, <1>6, TakenFirst
<1>8. StartStep[<<launched, w[i]>>] = launched'
  BY <1>1, <1>3, <1>4, <1>5
<1> QED BY <1>7, <1>8 DEF v, r, X

\* An answer that is carried out: its types, ...
LEMMA StillTyped ==
  ASSUME ActionsTyped, NEW i, Taken(i), place' \in Discs, launched' \in Seq(Apps),
         fs_modified' \in BOOLEAN, signalled' = signalled
  PROVE  ActionsTyped'
<1>1. /\ display' \in Seq(Tags) /\ (cut' => display' # <<>>)
      /\ \A k \in DOMAIN display' : \E j \in DOMAIN display : display'[k] = display[j]
  BY TakenFacts
<1>2. answer' = answer /\ cut' = cut /\ found' = found
  BY DEF Taken
<1>3. \A k \in DOMAIN display' : \E j \in DOMAIN answer' : answer'[j] = display'[k]
  <2>1. \A k \in DOMAIN display : \E j \in DOMAIN answer : answer[j] = display[k]
    BY DEF ActionsTyped
  <2> QED BY <1>1, <1>2, <2>1, Zenon
<1>4. DOMAIN place' = SafePaths
  BY DEF Discs
<1>5. /\ answer' \in Seq(Tags) /\ cut' \in BOOLEAN /\ found' \in Discs
      /\ signalled' \in {"pending", "ams_os", "nobody"}
  BY <1>2 DEF ActionsTyped, CopilotActions!TypeOK
<1> QED BY <1>1, <1>3, <1>4, <1>5 DEF ActionsTyped, CopilotActions!TypeOK

\* ... and that the flag is raised.
LEMMA StillRaised ==
  ASSUME ActionsTyped, Raised, NEW i, Taken(i),
         place' = CopilotActions!Effect(place, display[i]),
         fs_modified' = (fs_modified \/ CopilotActions!Raises(place, display[i]))
  PROVE  Raised'
<1> DEFINE tag == display[i]
<1>1. answer' = answer /\ found' = found /\ i \in DOMAIN display
  BY DEF Taken
<1>2. PICK j \in DOMAIN answer : answer[j] = tag
  BY <1>1 DEF ActionsTyped
<1> SUFFICES ASSUME place' # found, \A k \in DOMAIN answer : answer[k].kind # "download_file",
                    ~fs_modified'
             PROVE  FALSE
  BY <1>1 DEF Raised
<1>3. ~fs_modified /\ ~CopilotActions!Raises(place, tag)
  OBVIOUS
<1>4. place = found
  BY <1>3, Zenon DEF Raised
<1>5. tag.kind # "download_file"
  BY <1>2
<1>6. ~CopilotActions!OnFiles(tag) \/ (tag.kind = "update_file" /\ place[tag.path] # tag.search)
  BY <1>3, <1>5 DEF CopilotActions!Raises
<1> HIDE DEF tag
<1>7. CopilotActions!Effect(place, tag) = place
  BY <1>6 DEF CopilotActions!Effect
<1> QED BY <1>4, <1>7 DEF tag

\* An answer has all its tags waiting.
LEMMA ActionsStart ==
  ASSUME CopilotActions!Init
  PROVE  ActionsInv
<1>1. PICK n \in 1..MaxTags : answer \in [1..n -> Tags]
  BY DEF CopilotActions!Init
<1>2. answer \in Seq(Tags) /\ Len(answer) = n /\ answer # <<>> /\ n \in Nat
  <2>1. n \in Nat /\ n # 0
    BY TagsAreSound
  <2>2. answer \in Seq(Tags) /\ DOMAIN answer = 1..n
    BY <1>1, <2>1, SeqDef
  <2>3. Len(answer) = n
    BY <2>1, <2>2, LenProperties
  <2> QED BY <2>1, <2>2, <2>3, EmptySeq
<1>3. /\ cut \in BOOLEAN /\ display = answer /\ place \in Found /\ found = place
      /\ launched = <<>> /\ fs_modified = FALSE /\ signalled = "pending"
  BY Zenon DEF CopilotActions!Init
<1>4. place \in Discs /\ found \in Discs
  BY <1>3, HeldFacts
<1>5. ActionsTyped
  <2>1. DOMAIN place = SafePaths
    BY <1>4 DEF Discs
  <2>2. launched \in Seq(Apps)
    BY <1>3
  <2>3. fs_modified \in BOOLEAN
    BY <1>3, Zenon
  <2> QED BY <1>2, <1>3, <1>4, <2>1, <2>2, <2>3 DEF ActionsTyped, CopilotActions!TypeOK
<1>6. Waiting = CopilotActions!Written
  BY <1>3, Zenon DEF Waiting, CopilotActions!Written
<1>7. Waiting \in Seq(Tags)
  BY <1>2, <1>3, WaitingFacts
<1>8. Coming
  BY <1>3, <1>4, <1>6, <1>7, ReadRuns, StartedRuns DEF Coming
<1>9. Raised /\ EndsOnce
  BY <1>3, Zenon DEF Raised, EndsOnce
<1> QED BY <1>5, <1>8, <1>9 DEF ActionsInv

\* A tag that is carried out keeps the invariant, ...
LEMMA ActionsTaken ==
  ASSUME ActionsInv,
         \E i \in DOMAIN display : CopilotActions!Execute(i) \/ CopilotActions!Launch(i)
  PROVE  ActionsInv'
<1>1. ActionsTyped /\ Coming /\ Raised /\ EndsOnce
  BY DEF ActionsInv
<1>2. /\ place \in Discs /\ launched \in Seq(Apps) /\ fs_modified \in BOOLEAN
      /\ display \in Seq(Tags)
  BY <1>1 DEF ActionsTyped, CopilotActions!TypeOK
<1>3. PICK i \in DOMAIN display : CopilotActions!Execute(i) \/ CopilotActions!Launch(i)
  OBVIOUS
<1>4. Taken(i) /\ CopilotActions!Written' = CopilotActions!Written /\ display[i] \in Tags
  <2>1. CopilotActions!IsNext(i) /\ display' = CopilotActions!RemoveAt(display, i)
        /\ answer' = answer /\ cut' = cut /\ found' = found
    BY <1>3, Zenon DEF CopilotActions!Execute, CopilotActions!Launch
  <2>2. Taken(i)
    BY <1>3, <2>1 DEF Taken
  <2>3. CopilotActions!Written' = CopilotActions!Written
    BY <2>1, Zenon DEF CopilotActions!Written
  <2> QED BY <1>2, <2>2, <2>3
<1>s. signalled' = signalled
  BY <1>3, Zenon DEF CopilotActions!Execute, CopilotActions!Launch
<1>5. place' = CopilotActions!Effect(place, display[i])
  <2>1. CASE CopilotActions!Execute(i)
    BY <2>1 DEF CopilotActions!Execute
  <2>2. CASE CopilotActions!Launch(i)
    BY <2>2 DEF CopilotActions!Launch, CopilotActions!Effect, CopilotActions!OnFiles
  <2> QED BY <1>3, <2>1, <2>2
<1>6. launched' = CopilotActions!Started(launched, display[i])
  <2>1. CASE CopilotActions!Execute(i)
    BY <2>1 DEF CopilotActions!Execute, CopilotActions!Started
  <2>2. CASE CopilotActions!Launch(i)
    BY <2>2 DEF CopilotActions!Launch
  <2> QED BY <1>3, <2>1, <2>2
<1>7. fs_modified' = (fs_modified \/ CopilotActions!Raises(place, display[i]))
  <2>1. CASE CopilotActions!Execute(i)
    BY <2>1, Zenon DEF CopilotActions!Execute
  <2>2. CASE CopilotActions!Launch(i)
    <3>1. fs_modified' = fs_modified /\ ~CopilotActions!Raises(place, display[i])
      BY <2>2, Zenon DEF CopilotActions!Launch, CopilotActions!Raises, CopilotActions!OnFiles
    <3> QED BY <1>2, <3>1
  <2> QED BY <1>3, <2>1, <2>2
<1>8. ActionsTyped'
  <2>1. place' \in Discs
    BY <1>2, <1>4, <1>5, EffectType
  <2>2. launched' \in Seq(Apps)
    BY <1>2, <1>4, <1>6 DEF CopilotActions!Started
  <2>3. fs_modified' \in BOOLEAN
    BY <1>7, Zenon
  <2> QED BY <1>1, <1>4, <1>s, <2>1, <2>2, <2>3, StillTyped
<1>9. Coming'
  <2>1. RunsTo(Seq(Apps), launched', StartStep, Waiting', StartedBy(CopilotActions!Written))
    BY <1>1, <1>4, <1>6, AppsComing
  <2>2. CopilotActions!WellOrdered(CopilotActions!Written) =>
           /\ CopilotActions!WellOrdered(Waiting')
           /\ RunsTo(Discs, place', EffectStep, Waiting', Read(found, CopilotActions!Written))
    BY <1>1, <1>4, <1>5, FilesComing
  <2>3. found' = found
    BY <1>4 DEF Taken
  <2> QED BY <1>4, <2>1, <2>2, <2>3, Zenon DEF Coming
<1>10. Raised'
  BY <1>1, <1>4, <1>5, <1>7, StillRaised
<1>11. EndsOnce'
  <2>1. signalled = "pending"
    <3>1. CopilotActions!Closed # {}
      BY <1>4, Zenon DEF Taken, CopilotActions!IsNext
    <3> QED BY <1>1, <3>1, Zenon DEF EndsOnce
  <2> QED BY <1>s, <2>1 DEF EndsOnce
<1> QED BY <1>8, <1>9, <1>10, <1>11 DEF ActionsInv

\* ... and so does every step.
LEMMA ActionsSteps ==
  ASSUME ActionsInv, CopilotActions!Next
  PROVE  ActionsInv'
<1>1. ActionsTyped /\ Coming /\ Raised /\ EndsOnce
  BY DEF ActionsInv
<1>s. CASE CopilotActions!Signal
  <2>1. /\ answer' = answer /\ cut' = cut /\ display' = display /\ found' = found
        /\ place' = place /\ launched' = launched /\ fs_modified' = fs_modified
        /\ CopilotActions!Closed = {}
        /\ signalled' = IF fs_modified THEN "ams_os" ELSE "nobody"
    BY <1>s, Zenon DEF CopilotActions!Signal
  <2>2. Waiting' = Waiting /\ CopilotActions!Written' = CopilotActions!Written
    BY <2>1, Zenon DEF Waiting, CopilotActions!Written
  <2>3. CopilotActions!Closed' = {}
    BY <2>1, Zenon DEF CopilotActions!Closed
  <2>4. signalled' \in {"pending", "ams_os", "nobody"} /\ (signalled' = "nobody" => ~fs_modified')
    BY <2>1
  <2>5. ActionsTyped' /\ Raised'
    BY <1>1, <2>1, <2>4, Zenon DEF ActionsTyped, Raised, CopilotActions!TypeOK
  <2>6. Coming'
    BY <1>1, <2>1, <2>2, Zenon DEF Coming
  <2>7. EndsOnce'
    BY <2>3, <2>4, Zenon DEF EndsOnce
  <2> QED BY <2>5, <2>6, <2>7 DEF ActionsInv
<1>t. CASE \E i \in DOMAIN display : CopilotActions!Execute(i) \/ CopilotActions!Launch(i)
  BY <1>t, ActionsTaken
<1> QED BY <1>s, <1>t, Zenon DEF CopilotActions!Next


\* When nothing is left, the files and the apps are what the answer says.
LEMMA ActionsAreAsWritten ==
  ASSUME ActionsInv
  PROVE  CopilotActions!TypeOK /\ CopilotActions!AsWritten /\ CopilotActions!ChangesAreSignalled
<1>1. ActionsTyped /\ Coming /\ Raised /\ EndsOnce
  BY DEF ActionsInv
<1>2. CopilotActions!TypeOK /\ cut \in BOOLEAN /\ display \in Seq(Tags) /\ (cut => display # <<>>)
  BY <1>1 DEF ActionsTyped, CopilotActions!TypeOK
<1>3. ASSUME CopilotActions!Closed = {}
      PROVE  /\ CopilotActions!WellOrdered(CopilotActions!Written) =>
                  place = Read(found, CopilotActions!Written)
             /\ launched = StartedBy(CopilotActions!Written)
  <2>1. Len(Waiting) \in Nat /\ CopilotActions!Closed = 1..Len(Waiting)
    BY <1>2, WaitingFacts
  <2>2. Len(Waiting) = 0
    BY <1>3, <2>1
  <2> QED BY <1>1, <2>2, RunIsOver DEF Coming
<1>4. CopilotActions!AsWritten
  BY <1>3, Zenon DEF CopilotActions!AsWritten, Read, StartedBy
<1>5. CopilotActions!ChangesAreSignalled
  BY <1>1, Zenon DEF Raised, EndsOnce, CopilotActions!ChangesAreSignalled
<1> QED BY <1>2, <1>4, <1>5

-----------------------------------------------------------------------------
(* Tic-tac-toe.                                                            *)

\* Among finitely many cells with numbers there is one with the greatest.
Highest(E, w) == \E c \in E : \A d \in E : w[d] <= w[c]

\* There is one: by induction on the cells.
LEMMA HighestExists ==
  ASSUME NEW E, IsFiniteSet(E), E # {}, NEW w, \A c \in E : w[c] \in Int
  PROVE  Highest(E, w)
<1> DEFINE B == {s \in SUBSET E : s = {} \/ Highest(s, w)}
<1>1. {} \in B
  OBVIOUS
<1>2. ASSUME NEW s \in SUBSET E, s # {}, \A x \in s : s \ {x} \in B
      PROVE  s \in B
  <2>1. PICK x \in s : TRUE
    BY <1>2
  <2>2. s \ {x} = {} \/ Highest(s \ {x}, w)
    BY <1>2, <2>1
  <2>3. CASE s \ {x} = {}
    <3>1. w[x] \in Int /\ \A d \in s : d = x
      BY <2>1, <2>3
    <3>2. \A d \in s : w[d] <= w[x]
      BY <3>1
    <3> QED BY <2>1, <3>2 DEF Highest
  <2>4. CASE Highest(s \ {x}, w)
    <3>1. PICK z \in s \ {x} : \A d \in s \ {x} : w[d] <= w[z]
      BY <2>4 DEF Highest
    <3>2. w[x] \in Int /\ w[z] \in Int /\ \A d \in s : w[d] \in Int
      BY <2>1, <3>1
    <3>3. CASE w[x] <= w[z]
      <4>1. \A d \in s : w[d] <= w[z]
        BY <3>1, <3>3
      <4> QED BY <3>1, <4>1 DEF Highest
    <3>4. CASE ~(w[x] <= w[z])
      <4>1. \A d \in s : w[d] <= w[x]
        BY <3>1, <3>2, <3>4
      <4> QED BY <2>1, <4>1 DEF Highest
    <3> QED BY <3>3, <3>4
  <2> QED BY <2>2, <2>3, <2>4
<1>3. E \in B
  <2> HIDE DEF B
  <2> QED BY <1>1, <1>2, SubsetInduction
<1> QED BY <1>3

\* The greatest and the least of the numbers.
LEMMA Extremes ==
  ASSUME NEW E, IsFiniteSet(E), E # {}, NEW w, \A c \in E : w[c] \in Int,
         NEW V, \A y : y \in V <=> \E d \in E : y = w[d]
  PROVE  /\ \E c \in E : TicTacToe!Max(V) = w[c]
         /\ \A d \in E : w[d] <= TicTacToe!Max(V)
         /\ \E c \in E : TicTacToe!Min(V) = w[c]
         /\ \A d \in E : TicTacToe!Min(V) <= w[d]
<1> DEFINE v == [c \in E |-> -w[c]]
<1>1. PICK a \in E : \A d \in E : w[d] <= w[a]
  BY HighestExists DEF Highest
<1>2. PICK b \in E : \A d \in E : v[d] <= v[b]
  <2>1. \A c \in E : v[c] \in Int
    OBVIOUS
  <2> HIDE DEF v
  <2> QED BY <2>1, HighestExists DEF Highest
<1>3. \A d \in E : w[b] <= w[d]
  <2> SUFFICES ASSUME NEW d \in E PROVE w[b] <= w[d]
    OBVIOUS
  <2>1. -w[d] <= -w[b] /\ w[d] \in Int /\ w[b] \in Int
    BY <1>2
  <2> QED BY <2>1
<1>4. \E x \in V : \A y \in V : x >= y
  BY <1>1
<1>5. \E x \in V : \A y \in V : x <= y
  BY <1>3
<1>6. TicTacToe!Max(V) \in V /\ \A y \in V : TicTacToe!Max(V) >= y
  BY <1>4 DEF TicTacToe!Max
<1>7. TicTacToe!Min(V) \in V /\ \A y \in V : TicTacToe!Min(V) <= y
  BY <1>5 DEF TicTacToe!Min
<1>8. TicTacToe!Max(V) \in Int
  BY <1>6
<1> QED BY <1>6, <1>7, <1>8

-----------------------------------------------------------------------------
(* The grids.                                                              *)

\* What a cell may show, a grid with one mark more, and the empty cells of a grid.
Marks == {TicTacToe!Blank, "X", "O"}
Mark(g, c, mark) == [g EXCEPT ![c] = mark]
Size(g) == Cardinality(TicTacToe!Empty(g))

\* The size of an interval that is not empty.
LEMMA IntervalSize ==
  \A a \in Int, b \in Int : a <= b => IsFiniteSet(a..b) /\ Cardinality(a..b) = b - a + 1
<1> SUFFICES ASSUME NEW a \in Int, NEW b \in Int, a <= b
             PROVE  IsFiniteSet(a..b) /\ Cardinality(a..b) = b - a + 1
  OBVIOUS
<1> QED BY FS_Interval

\* The empty cells are finitely many, nine at most.
LEMMA EmptyCells ==
  ASSUME NEW g
  PROVE  /\ IsFiniteSet(TicTacToe!Empty(g)) /\ Size(g) \in Nat /\ Size(g) <= 9
         /\ Size(g) = 0 <=> TicTacToe!Empty(g) = {}
<1>1. IsFiniteSet(0..8) /\ Cardinality(0..8) = 9
  <2>1. 0 \in Int /\ 8 \in Int /\ 0 <= 8 => IsFiniteSet(0..8) /\ Cardinality(0..8) = 8 - 0 + 1
    BY IntervalSize, Zenon
  <2> QED BY <2>1
<1>2. TicTacToe!Empty(g) \subseteq 0..8
  BY DEF TicTacToe!Empty, TicTacToe!Cells
<1>3. IsFiniteSet(TicTacToe!Empty(g)) /\ Size(g) <= Cardinality(0..8)
  BY <1>1, <1>2, FS_Subset DEF Size
<1> QED BY <1>1, <1>3, FS_CardinalityType, FS_EmptySet DEF Size

\* A mark fills one empty cell.
LEMMA MarkFacts ==
  ASSUME NEW g \in TicTacToe!Grids, NEW c \in TicTacToe!Empty(g), NEW mark \in {"X", "O"}
  PROVE  /\ c \in TicTacToe!Cells
         /\ Mark(g, c, mark) \in TicTacToe!Grids /\ Mark(g, c, mark)[c] = mark
         /\ \A d \in TicTacToe!Cells \ {c} : Mark(g, c, mark)[d] = g[d]
         /\ Size(Mark(g, c, mark)) = Size(g) - 1
<1> DEFINE h == Mark(g, c, mark)
<1>1. c \in TicTacToe!Cells /\ g[c] = TicTacToe!Blank
  BY DEF TicTacToe!Empty
<1>2. /\ h \in TicTacToe!Grids /\ h[c] = mark /\ \A d \in TicTacToe!Cells \ {c} : h[d] = g[d]
  BY <1>1 DEF TicTacToe!Grids, Mark
<1> HIDE DEF h
<1>3. TicTacToe!Empty(h) = TicTacToe!Empty(g) \ {c}
  BY <1>1, <1>2 DEF TicTacToe!Empty, TicTacToe!Blank
<1>4. Cardinality(TicTacToe!Empty(g) \ {c}) = Cardinality(TicTacToe!Empty(g)) - 1
  BY EmptyCells, FS_RemoveElement
<1> QED BY <1>1, <1>2, <1>3, <1>4 DEF h, Size

\* A grid without an empty cell is over.
LEMMA FullIsOver ==
  ASSUME NEW g, ~TicTacToe!Over(g)
  PROVE  TicTacToe!Empty(g) # {}
  BY DEF TicTacToe!Over, TicTacToe!check_draw, TicTacToe!Empty

\* A mark makes no line of the other player.
LEMMA NoLineOfTheOther ==
  ASSUME NEW g \in TicTacToe!Grids, NEW c \in TicTacToe!Empty(g),
         NEW mark \in {"X", "O"}, NEW other \in {"X", "O"}, mark # other,
         TicTacToe!check_win(Mark(g, c, mark), other)
  PROVE  TicTacToe!check_win(g, other)
<1> DEFINE h == Mark(g, c, mark)
<1>1. \A d \in TicTacToe!Cells : h[d] = other => g[d] = other
  BY MarkFacts
<1>2. TicTacToe!check_win(h, other)
  OBVIOUS
<1> HIDE DEF h
<1> QED BY <1>1, <1>2 DEF TicTacToe!check_win, TicTacToe!Cells

-----------------------------------------------------------------------------
(* The search.                                                             *)

\* The value of a grid, given those of the grids after it.
Value(m, s) ==
  IF TicTacToe!Over(s[1]) THEN TicTacToe!evaluate(s[1], s[2])
  ELSE IF s[3] THEN TicTacToe!Max({m[TicTacToe!After(s, c, "O")] : c \in TicTacToe!Empty(s[1])})
  ELSE TicTacToe!Min({m[TicTacToe!After(s, c, "X")] : c \in TicTacToe!Empty(s[1])})

\* A call of minimax on the grid after a mark is a search with one cell less.
LEMMA AfterFacts ==
  ASSUME NEW s \in TicTacToe!Searched, NEW c \in TicTacToe!Empty(s[1]), NEW mark \in {"X", "O"}
  PROVE  /\ TicTacToe!After(s, c, mark) \in TicTacToe!Searched
         /\ TicTacToe!After(s, c, mark)[1] = Mark(s[1], c, mark)
         /\ Size(TicTacToe!After(s, c, mark)[1]) = Size(s[1]) - 1
<1>1. s[1] \in TicTacToe!Grids /\ s[2] \in Nat
  BY DEF TicTacToe!Searched
<1>2. Mark(s[1], c, mark) \in TicTacToe!Grids /\ Size(Mark(s[1], c, mark)) = Size(s[1]) - 1
  BY <1>1, MarkFacts
<1>3. TicTacToe!After(s, c, mark) = <<Mark(s[1], c, mark), s[2] + 1, mark = "X">>
  BY Zenon DEF TicTacToe!After, Mark
<1> DEFINE b == mark = "X"
<1>4. b \in BOOLEAN /\ TicTacToe!After(s, c, mark) = <<Mark(s[1], c, mark), s[2] + 1, b>>
  BY <1>3
<1> HIDE DEF b
<1> QED BY <1>1, <1>2, <1>4 DEF TicTacToe!Searched

\* What a game that is over is worth.
LEMMA EvaluateFacts ==
  ASSUME NEW g, NEW depth \in Nat
  PROVE  /\ TicTacToe!evaluate(g, depth) \in Int
         /\ TicTacToe!check_win(g, "O") => TicTacToe!evaluate(g, depth) = 10 - depth
         /\ ~TicTacToe!check_win(g, "O") =>
              TicTacToe!evaluate(g, depth) =
                IF TicTacToe!check_win(g, "X") THEN depth - 10 ELSE 0
  BY DEF TicTacToe!evaluate

\* The values of the moves of a grid that is not over.
LEMMA ValueFacts ==
  ASSUME NEW m, NEW s \in TicTacToe!Searched,
         \A c \in TicTacToe!Empty(s[1]), mark \in {"X", "O"} : m[TicTacToe!After(s, c, mark)] \in Int
  PROVE  /\ Value(m, s) \in Int
         /\ TicTacToe!Over(s[1]) => Value(m, s) = TicTacToe!evaluate(s[1], s[2])
         /\ ~TicTacToe!Over(s[1]) /\ s[3] =>
              /\ \E c \in TicTacToe!Empty(s[1]) : Value(m, s) = m[TicTacToe!After(s, c, "O")]
              /\ \A c \in TicTacToe!Empty(s[1]) : m[TicTacToe!After(s, c, "O")] <= Value(m, s)
         /\ ~TicTacToe!Over(s[1]) /\ ~s[3] =>
              /\ \E c \in TicTacToe!Empty(s[1]) : Value(m, s) = m[TicTacToe!After(s, c, "X")]
              /\ \A c \in TicTacToe!Empty(s[1]) : Value(m, s) <= m[TicTacToe!After(s, c, "X")]
<1> DEFINE E == TicTacToe!Empty(s[1])
           o == [c \in E |-> m[TicTacToe!After(s, c, "O")]]
           x == [c \in E |-> m[TicTacToe!After(s, c, "X")]]
<1>1. s[1] \in TicTacToe!Grids /\ s[2] \in Nat /\ s[3] \in BOOLEAN
  BY DEF TicTacToe!Searched
<1>2. IsFiniteSet(E)
  BY EmptyCells
<1>3. \A c \in E : o[c] \in Int /\ x[c] \in Int
  OBVIOUS
<1>4. /\ {m[TicTacToe!After(s, c, "O")] : c \in E} = {o[c] : c \in E}
      /\ {m[TicTacToe!After(s, c, "X")] : c \in E} = {x[c] : c \in E}
  OBVIOUS
<1>5. CASE TicTacToe!Over(s[1])
  BY <1>1, <1>5, EvaluateFacts DEF Value
<1>6. CASE ~TicTacToe!Over(s[1]) /\ s[3]
  <2>1. E # {}
    BY <1>6, FullIsOver
  <2> DEFINE V == {o[c] : c \in E}
  <2>2. Value(m, s) = TicTacToe!Max(V)
    BY <1>4, <1>6, Zenon DEF Value
  <2>v. \A y : y \in V <=> \E d \in E : y = o[d]
    OBVIOUS
  <2>3. \A c \in E : o[c] = m[TicTacToe!After(s, c, "O")]
    OBVIOUS
  <2> HIDE DEF E, o, V
  <2>4. /\ \E c \in E : Value(m, s) = o[c]
        /\ \A c \in E : o[c] <= Value(m, s)
    BY <1>2, <1>3, <2>1, <2>2, <2>v, Extremes
  <2>5. Value(m, s) \in Int
    BY <1>3, <2>4
  <2> QED BY <1>6, <2>3, <2>4, <2>5 DEF E
<1>7. CASE ~TicTacToe!Over(s[1]) /\ ~s[3]
  <2>1. E # {}
    BY <1>7, FullIsOver
  <2> DEFINE V == {x[c] : c \in E}
  <2>2. Value(m, s) = TicTacToe!Min(V)
    BY <1>4, <1>7, Zenon DEF Value
  <2>v. \A y : y \in V <=> \E d \in E : y = x[d]
    OBVIOUS
  <2>3. \A c \in E : x[c] = m[TicTacToe!After(s, c, "X")]
    OBVIOUS
  <2> HIDE DEF E, x, V
  <2>4. /\ \E c \in E : Value(m, s) = x[c]
        /\ \A c \in E : Value(m, s) <= x[c]
    BY <1>2, <1>3, <2>1, <2>2, <2>v, Extremes
  <2>5. Value(m, s) \in Int
    BY <1>3, <2>4
  <2> QED BY <1>7, <2>3, <2>4, <2>5 DEF E
<1> QED BY <1>5, <1>6, <1>7

\* The function that minimax is exists, by induction on the empty cells.
LEMMA SearchExists ==
  \E m \in [TicTacToe!Searched -> Int] :
    m = [s \in TicTacToe!Searched |-> Value(m, s)]
<1> DEFINE Good(m, n) == \A s \in TicTacToe!Searched : Size(s[1]) <= n => m[s] = Value(m, s)
           T == {n \in Nat : \E m \in [TicTacToe!Searched -> Int] : Good(m, n)}
<1>1. 0 \in T
  <2> DEFINE m == [s \in TicTacToe!Searched |-> TicTacToe!evaluate(s[1], s[2])]
  <2>1. m \in [TicTacToe!Searched -> Int]
    BY EvaluateFacts DEF TicTacToe!Searched
  <2>2. ASSUME NEW s \in TicTacToe!Searched, Size(s[1]) <= 0 PROVE m[s] = Value(m, s)
    <3>1. TicTacToe!Empty(s[1]) = {}
      BY <2>2, EmptyCells
    <3>2. TicTacToe!Over(s[1])
      BY <3>1, FullIsOver
    <3> QED BY <3>2, Zenon DEF Value
  <2> HIDE DEF m
  <2>3. Good(m, 0)
    BY <2>2
  <2> HIDE DEF Good
  <2> QED BY <2>1, <2>3
<1>2. ASSUME NEW n \in Nat, n \in T PROVE n + 1 \in T
  <2>1. PICK k \in [TicTacToe!Searched -> Int] : Good(k, n)
    BY <1>2
  <2> DEFINE m == [s \in TicTacToe!Searched |-> Value(k, s)]
  <2>2. m \in [TicTacToe!Searched -> Int]
    <3>1. \A s \in TicTacToe!Searched : \A c \in TicTacToe!Empty(s[1]), mark \in {"X", "O"} :
            k[TicTacToe!After(s, c, mark)] \in Int
      BY AfterFacts
    <3> QED BY <3>1, ValueFacts
  <2>3. ASSUME NEW s \in TicTacToe!Searched, Size(s[1]) <= n + 1 PROVE m[s] = Value(m, s)
    <3>1. ASSUME NEW c \in TicTacToe!Empty(s[1]), NEW mark \in {"X", "O"}
          PROVE  m[TicTacToe!After(s, c, mark)] = k[TicTacToe!After(s, c, mark)]
      <4> DEFINE t == TicTacToe!After(s, c, mark)
      <4>1. t \in TicTacToe!Searched /\ Size(t[1]) = Size(s[1]) - 1
        BY AfterFacts
      <4>2. Size(t[1]) <= n
        BY <2>3, <4>1, EmptyCells
      <4> HIDE DEF t
      <4>3. k[t] = Value(k, t)
        BY <2>1, <4>1, <4>2
      <4> QED BY <4>1, <4>3 DEF t
    <3> HIDE DEF m
    <3>2. /\ {m[TicTacToe!After(s, c, "O")] : c \in TicTacToe!Empty(s[1])}
               = {k[TicTacToe!After(s, c, "O")] : c \in TicTacToe!Empty(s[1])}
          /\ {m[TicTacToe!After(s, c, "X")] : c \in TicTacToe!Empty(s[1])}
               = {k[TicTacToe!After(s, c, "X")] : c \in TicTacToe!Empty(s[1])}
      BY <3>1
    <3>3. Value(m, s) = Value(k, s)
      BY <3>2, Zenon DEF Value
    <3> QED BY <3>3 DEF m
  <2> HIDE DEF m
  <2>4. Good(m, n + 1)
    BY <2>3
  <2> HIDE DEF Good
  <2> QED BY <2>2, <2>4
<1>3. \A n \in Nat : n \in T
  <2> HIDE DEF T
  <2> QED BY <1>1, <1>2, SetInduction
<1>4. PICK m \in [TicTacToe!Searched -> Int] : Good(m, 9)
  <2> HIDE DEF Good
  <2> QED BY <1>3
<1>5. \A s \in TicTacToe!Searched : m[s] = Value(m, s)
  BY <1>4, EmptyCells
<1>6. m = [s \in TicTacToe!Searched |-> m[s]]
  OBVIOUS
<1>7. m = [s \in TicTacToe!Searched |-> Value(m, s)]
  BY <1>5, <1>6, Zenon
<1> QED BY <1>7

\* minimax is a function of the kind, ...
LEMMA MinimaxIsOne ==
  /\ TicTacToe!minimax \in [TicTacToe!Searched -> Int]
  /\ \A s \in TicTacToe!Searched : TicTacToe!minimax[s] = Value(TicTacToe!minimax, s)
<1> DEFINE P(m) == m = [s \in TicTacToe!Searched |-> Value(m, s)]
           r == CHOOSE m : P(m)
<1>1. TicTacToe!minimax = r
  BY Zenon DEF TicTacToe!minimax, Value
<1>2. \E m : P(m)
  BY SearchExists
<1>3. P(r)
  <2> HIDE DEF P
  <2> QED BY <1>2
<1>4. \A s \in TicTacToe!Searched : r[s] = Value(r, s)
  BY <1>3
<1>5. r = [s \in TicTacToe!Searched |-> r[s]]
  BY <1>3, <1>4
<1> HIDE DEF r
<1> DEFINE T == {n \in Nat : \A s \in TicTacToe!Searched : Size(s[1]) <= n => r[s] \in Int}
<1>6. ASSUME NEW s \in TicTacToe!Searched,
             \A t \in TicTacToe!Searched : Size(t[1]) < Size(s[1]) => r[t] \in Int
      PROVE  r[s] \in Int
  <2>1. \A c \in TicTacToe!Empty(s[1]), mark \in {"X", "O"} : r[TicTacToe!After(s, c, mark)] \in Int
    <3> SUFFICES ASSUME NEW c \in TicTacToe!Empty(s[1]), NEW mark \in {"X", "O"}
                 PROVE  r[TicTacToe!After(s, c, mark)] \in Int
      OBVIOUS
    <3> DEFINE t == TicTacToe!After(s, c, mark)
    <3>1. t \in TicTacToe!Searched /\ Size(t[1]) = Size(s[1]) - 1 /\ Size(s[1]) \in Nat
      BY AfterFacts, EmptyCells
    <3> HIDE DEF t
    <3>2. r[t] \in Int
      BY <1>6, <3>1
    <3> QED BY <3>2 DEF t
  <2> QED BY <1>4, <2>1, ValueFacts
<1>7. 0 \in T
  <2> SUFFICES ASSUME NEW s \in TicTacToe!Searched, Size(s[1]) <= 0 PROVE r[s] \in Int
    OBVIOUS
  <2>1. \A t \in TicTacToe!Searched : ~(Size(t[1]) < Size(s[1]))
    BY EmptyCells
  <2> QED BY <1>6, <2>1
<1>8. ASSUME NEW n \in Nat, n \in T PROVE n + 1 \in T
  <2> SUFFICES ASSUME NEW s \in TicTacToe!Searched, Size(s[1]) <= n + 1 PROVE r[s] \in Int
    OBVIOUS
  <2>1. \A t \in TicTacToe!Searched : Size(t[1]) < Size(s[1]) => Size(t[1]) <= n
    BY EmptyCells
  <2> QED BY <1>6, <1>8, <2>1
<1>9. \A n \in Nat : n \in T
  <2> HIDE DEF T
  <2> QED BY <1>7, <1>8, SetInduction
<1>10. \A s \in TicTacToe!Searched : r[s] \in Int
  BY <1>9, EmptyCells
<1>11. r \in [TicTacToe!Searched -> Int]
  BY <1>5, <1>10
<1> QED BY <1>1, <1>4, <1>11

-----------------------------------------------------------------------------
(* What the search finds.                                                  *)

\* The value of a grid at a depth, with the Copilot (b) or the player to move.
Worth(g, d, b) == TicTacToe!minimax[<<g, d, b>>]

\* It is that of the game if it is over, and the best for the side on turn else.
LEMMA WorthFacts ==
  ASSUME NEW g \in TicTacToe!Grids, NEW d \in Nat, NEW b \in BOOLEAN
  PROVE  /\ Worth(g, d, b) \in Int
         /\ TicTacToe!Over(g) => Worth(g, d, b) = TicTacToe!evaluate(g, d)
         /\ ~TicTacToe!Over(g) /\ b =>
              /\ \E c \in TicTacToe!Empty(g) : Worth(g, d, b) = Worth(Mark(g, c, "O"), d + 1, FALSE)
              /\ \A c \in TicTacToe!Empty(g) : Worth(Mark(g, c, "O"), d + 1, FALSE) <= Worth(g, d, b)
         /\ ~TicTacToe!Over(g) /\ ~b =>
              /\ \E c \in TicTacToe!Empty(g) : Worth(g, d, b) = Worth(Mark(g, c, "X"), d + 1, TRUE)
              /\ \A c \in TicTacToe!Empty(g) : Worth(g, d, b) <= Worth(Mark(g, c, "X"), d + 1, TRUE)
<1> DEFINE s == <<g, d, b>>
           m == TicTacToe!minimax
<1>1. s \in TicTacToe!Searched /\ s[1] = g /\ s[2] = d /\ s[3] = b
  BY DEF TicTacToe!Searched
<1>2. \A c : TicTacToe!After(s, c, "O") = <<Mark(g, c, "O"), d + 1, FALSE>>
  <2> SUFFICES ASSUME NEW c PROVE TicTacToe!After(s, c, "O") = <<Mark(g, c, "O"), d + 1, FALSE>>
    OBVIOUS
  <2>1. ("O" = "X") = FALSE
    OBVIOUS
  <2>2. TicTacToe!After(s, c, "O") = <<Mark(g, c, "O"), d + 1, "O" = "X">>
    BY <1>1, Zenon DEF TicTacToe!After, Mark
  <2> QED BY <2>1, <2>2, Zenon
<1>3. \A c : TicTacToe!After(s, c, "X") = <<Mark(g, c, "X"), d + 1, TRUE>>
  <2> SUFFICES ASSUME NEW c PROVE TicTacToe!After(s, c, "X") = <<Mark(g, c, "X"), d + 1, TRUE>>
    OBVIOUS
  <2>1. ("X" = "X") = TRUE
    OBVIOUS
  <2>2. TicTacToe!After(s, c, "X") = <<Mark(g, c, "X"), d + 1, "X" = "X">>
    BY <1>1, Zenon DEF TicTacToe!After, Mark
  <2> QED BY <2>1, <2>2, Zenon
<1>4. m \in [TicTacToe!Searched -> Int] /\ m[s] = Value(m, s)
  BY <1>1, MinimaxIsOne
<1> HIDE DEF s, m
<1>5. \A c \in TicTacToe!Empty(s[1]), mark \in {"X", "O"} : m[TicTacToe!After(s, c, mark)] \in Int
  BY <1>1, <1>4, AfterFacts
<1>6. /\ Value(m, s) \in Int
      /\ TicTacToe!Over(s[1]) => Value(m, s) = TicTacToe!evaluate(s[1], s[2])
      /\ ~TicTacToe!Over(s[1]) /\ s[3] =>
           /\ \E c \in TicTacToe!Empty(s[1]) : Value(m, s) = m[TicTacToe!After(s, c, "O")]
           /\ \A c \in TicTacToe!Empty(s[1]) : m[TicTacToe!After(s, c, "O")] <= Value(m, s)
      /\ ~TicTacToe!Over(s[1]) /\ ~s[3] =>
           /\ \E c \in TicTacToe!Empty(s[1]) : Value(m, s) = m[TicTacToe!After(s, c, "X")]
           /\ \A c \in TicTacToe!Empty(s[1]) : Value(m, s) <= m[TicTacToe!After(s, c, "X")]
  BY <1>1, <1>5, ValueFacts
<1>7. Worth(g, d, b) = Value(m, s)
  BY <1>4, Zenon DEF Worth, m, s
<1>8. /\ \A c : m[TicTacToe!After(s, c, "O")] = Worth(Mark(g, c, "O"), d + 1, FALSE)
      /\ \A c : m[TicTacToe!After(s, c, "X")] = Worth(Mark(g, c, "X"), d + 1, TRUE)
  BY <1>2, <1>3, Zenon DEF Worth, m
<1> QED BY <1>1, <1>6, <1>7, <1>8

\* No game is worth more than to win it at once.
LEMMA WorthIsBounded ==
  \A g \in TicTacToe!Grids, d \in Nat, b \in BOOLEAN :
    d + Size(g) <= 9 => Worth(g, d, b) <= 10 - d
<1> DEFINE T == {n \in Nat : \A g \in TicTacToe!Grids, d \in Nat, b \in BOOLEAN :
                               Size(g) <= n /\ d + Size(g) <= 9 => Worth(g, d, b) <= 10 - d}
<1>1. ASSUME NEW g \in TicTacToe!Grids, NEW d \in Nat, NEW b \in BOOLEAN, d + Size(g) <= 9,
             \A h \in TicTacToe!Grids, c \in BOOLEAN :
               Size(h) = Size(g) - 1 => Worth(h, d + 1, c) <= 10 - (d + 1)
      PROVE  Worth(g, d, b) <= 10 - d
  <2>1. Size(g) \in Nat
    BY EmptyCells
  <2>2. CASE TicTacToe!Over(g)
    <3>1. Worth(g, d, b) = TicTacToe!evaluate(g, d)
      BY <2>2, WorthFacts
    <3>2. TicTacToe!evaluate(g, d) \in {10 - d, d - 10, 0}
      BY EvaluateFacts
    <3> QED BY <1>1, <2>1, <3>1, <3>2
  <2>3. CASE ~TicTacToe!Over(g)
    <3>1. PICK c \in TicTacToe!Empty(g), mark \in {"X", "O"}, e \in BOOLEAN :
            Worth(g, d, b) = Worth(Mark(g, c, mark), d + 1, e)
      BY <2>3, WorthFacts
    <3>2. Mark(g, c, mark) \in TicTacToe!Grids /\ Size(Mark(g, c, mark)) = Size(g) - 1
      BY MarkFacts
    <3>3. Worth(Mark(g, c, mark), d + 1, e) <= 10 - (d + 1)
      BY <1>1, <3>2
    <3>4. Worth(g, d, b) \in Int
      BY WorthFacts
    <3> QED BY <3>1, <3>3, <3>4
  <2> QED BY <2>2, <2>3
<1>2. 0 \in T
  <2> SUFFICES ASSUME NEW g \in TicTacToe!Grids, NEW d \in Nat, NEW b \in BOOLEAN,
                      Size(g) <= 0, d + Size(g) <= 9
               PROVE  Worth(g, d, b) <= 10 - d
    OBVIOUS
  <2>1. \A h \in TicTacToe!Grids : Size(h) # Size(g) - 1
    BY EmptyCells
  <2> QED BY <1>1, <2>1
<1>3. ASSUME NEW n \in Nat, n \in T PROVE n + 1 \in T
  <2> SUFFICES ASSUME NEW g \in TicTacToe!Grids, NEW d \in Nat, NEW b \in BOOLEAN,
                      Size(g) <= n + 1, d + Size(g) <= 9
               PROVE  Worth(g, d, b) <= 10 - d
    OBVIOUS
  <2>1. Size(g) \in Nat /\ d + 1 \in Nat
    BY EmptyCells
  <2>2. ASSUME NEW h \in TicTacToe!Grids, NEW c \in BOOLEAN, Size(h) = Size(g) - 1
        PROVE  Worth(h, d + 1, c) <= 10 - (d + 1)
    <3>1. Size(h) <= n /\ d + 1 + Size(h) <= 9
      BY <2>1, <2>2
    <3> QED BY <1>3, <2>1, <3>1
  <2> HIDE DEF T
  <2> QED BY <1>1, <2>2
<1>4. \A n \in Nat : n \in T
  <2> HIDE DEF T
  <2> QED BY <1>2, <1>3, SetInduction
<1>5. 9 \in T
  <2> HIDE DEF T
  <2> QED BY <1>4
<1> QED BY <1>5, EmptyCells

\* Who is ahead does not depend on the depth from which one counts.
LEMMA SignOfTheWorth ==
  \A g \in TicTacToe!Grids, b \in BOOLEAN, d \in Nat, e \in Nat :
    d + Size(g) <= 9 /\ e + Size(g) <= 9 /\ Worth(g, d, b) >= 0 => Worth(g, e, b) >= 0
<1> DEFINE T == {n \in Nat : \A g \in TicTacToe!Grids, b \in BOOLEAN, d \in Nat, e \in Nat :
                   Size(g) <= n /\ d + Size(g) <= 9 /\ e + Size(g) <= 9 /\ Worth(g, d, b) >= 0
                     => Worth(g, e, b) >= 0}
<1>1. ASSUME NEW g \in TicTacToe!Grids, NEW b \in BOOLEAN, NEW d \in Nat, NEW e \in Nat,
             d + Size(g) <= 9, e + Size(g) <= 9, Worth(g, d, b) >= 0,
             \A h \in TicTacToe!Grids, c \in BOOLEAN :
               Size(h) = Size(g) - 1 /\ Worth(h, d + 1, c) >= 0 => Worth(h, e + 1, c) >= 0
      PROVE  Worth(g, e, b) >= 0
  <2>1. Size(g) \in Nat /\ Worth(g, d, b) \in Int /\ Worth(g, e, b) \in Int
    BY EmptyCells, WorthFacts
  <2>2. CASE TicTacToe!Over(g)
    <3>1. Worth(g, d, b) = TicTacToe!evaluate(g, d) /\ Worth(g, e, b) = TicTacToe!evaluate(g, e)
      BY <2>2, WorthFacts
    <3>2. CASE TicTacToe!check_win(g, "O")
      <4>1. TicTacToe!evaluate(g, e) = 10 - e
        BY <3>2, EvaluateFacts
      <4> QED BY <1>1, <2>1, <3>1, <4>1
    <3>3. CASE ~TicTacToe!check_win(g, "O") /\ TicTacToe!check_win(g, "X")
      <4>1. TicTacToe!evaluate(g, d) = d - 10
        BY <3>3, EvaluateFacts
      <4> QED BY <1>1, <2>1, <3>1, <4>1
    <3>4. CASE ~TicTacToe!check_win(g, "O") /\ ~TicTacToe!check_win(g, "X")
      <4>1. TicTacToe!evaluate(g, e) = 0
        BY <3>4, EvaluateFacts
      <4> QED BY <3>1, <4>1
    <3> QED BY <3>2, <3>3, <3>4
  <2>3. ASSUME NEW c \in TicTacToe!Empty(g), NEW mark \in {"X", "O"}, NEW f \in BOOLEAN,
               Worth(Mark(g, c, mark), d + 1, f) >= 0
        PROVE  Worth(Mark(g, c, mark), e + 1, f) >= 0
    <3>1. Mark(g, c, mark) \in TicTacToe!Grids /\ Size(Mark(g, c, mark)) = Size(g) - 1
      BY MarkFacts
    <3> QED BY <1>1, <2>3, <3>1
  <2>4. ASSUME NEW c \in TicTacToe!Empty(g), NEW mark \in {"X", "O"}, NEW f \in BOOLEAN, NEW k \in Nat
        PROVE  Worth(Mark(g, c, mark), k + 1, f) \in Int
    <3>1. Mark(g, c, mark) \in TicTacToe!Grids /\ k + 1 \in Nat
      BY MarkFacts
    <3> QED BY <3>1, WorthFacts
  <2>o. \A x \in Int, y \in Int : x >= 0 /\ x <= y => y >= 0
    OBVIOUS
  <2>5. CASE ~TicTacToe!Over(g) /\ b
    <3>1. PICK c \in TicTacToe!Empty(g) : Worth(g, d, b) = Worth(Mark(g, c, "O"), d + 1, FALSE)
      BY <2>5, WorthFacts
    <3>2. Worth(Mark(g, c, "O"), d + 1, FALSE) >= 0
      BY <1>1, <3>1, Zenon
    <3>3. Worth(Mark(g, c, "O"), e + 1, FALSE) >= 0
      BY <2>3, <3>2
    <3>4. Worth(Mark(g, c, "O"), e + 1, FALSE) <= Worth(g, e, b)
      BY <2>5, WorthFacts
    <3>5. Worth(Mark(g, c, "O"), e + 1, FALSE) \in Int
      BY <2>4
    <3> QED BY <2>1, <2>o, <3>3, <3>4, <3>5, Zenon
  <2>6. CASE ~TicTacToe!Over(g) /\ ~b
    <3>1. PICK c \in TicTacToe!Empty(g) : Worth(g, e, b) = Worth(Mark(g, c, "X"), e + 1, TRUE)
      BY <2>6, WorthFacts
    <3>2. Worth(g, d, b) <= Worth(Mark(g, c, "X"), d + 1, TRUE)
      BY <2>6, WorthFacts
    <3>3. Worth(Mark(g, c, "X"), d + 1, TRUE) \in Int
      BY <2>4
    <3>4. Worth(Mark(g, c, "X"), d + 1, TRUE) >= 0
      BY <1>1, <2>1, <2>o, <3>2, <3>3, Zenon
    <3>5. Worth(Mark(g, c, "X"), e + 1, TRUE) >= 0
      BY <2>3, <3>4
    <3> QED BY <3>1, <3>5
  <2> QED BY <2>2, <2>5, <2>6
<1>2. 0 \in T
  <2> SUFFICES ASSUME NEW g \in TicTacToe!Grids, NEW b \in BOOLEAN, NEW d \in Nat, NEW e \in Nat,
                      Size(g) <= 0, d + Size(g) <= 9, e + Size(g) <= 9, Worth(g, d, b) >= 0
               PROVE  Worth(g, e, b) >= 0
    OBVIOUS
  <2>1. \A h \in TicTacToe!Grids : Size(h) # Size(g) - 1
    BY EmptyCells
  <2> QED BY <1>1, <2>1
<1>3. ASSUME NEW n \in Nat, n \in T PROVE n + 1 \in T
  <2> SUFFICES ASSUME NEW g \in TicTacToe!Grids, NEW b \in BOOLEAN, NEW d \in Nat, NEW e \in Nat,
                      Size(g) <= n + 1, d + Size(g) <= 9, e + Size(g) <= 9, Worth(g, d, b) >= 0
               PROVE  Worth(g, e, b) >= 0
    OBVIOUS
  <2>1. Size(g) \in Nat /\ d + 1 \in Nat /\ e + 1 \in Nat
    BY EmptyCells
  <2>2. ASSUME NEW h \in TicTacToe!Grids, NEW c \in BOOLEAN,
               Size(h) = Size(g) - 1, Worth(h, d + 1, c) >= 0
        PROVE  Worth(h, e + 1, c) >= 0
    <3>1. Size(h) <= n /\ d + 1 + Size(h) <= 9 /\ e + 1 + Size(h) <= 9
      BY <2>1, <2>2
    <3> QED BY <1>3, <2>1, <2>2, <3>1
  <2> HIDE DEF T
  <2> QED BY <1>1, <2>2
<1>4. \A n \in Nat : n \in T
  <2> HIDE DEF T
  <2> QED BY <1>2, <1>3, SetInduction
<1>5. 9 \in T
  <2> HIDE DEF T
  <2> QED BY <1>4
<1> QED BY <1>5, EmptyCells

\* copilot_move marks an empty cell, and none is worth more.
LEMMA BestCell ==
  ASSUME NEW g \in TicTacToe!Grids, TicTacToe!Empty(g) # {}
  PROVE  /\ TicTacToe!bestCell(g) \in TicTacToe!Empty(g)
         /\ \A c \in TicTacToe!Empty(g) :
              Worth(Mark(g, c, "O"), 0, FALSE) <= Worth(Mark(g, TicTacToe!bestCell(g), "O"), 0, FALSE)
<1> DEFINE E == TicTacToe!Empty(g)
           value == [c \in E |-> Worth(Mark(g, c, "O"), 0, FALSE)]
           tops == {c \in E : \A d \in E : value[d] <= value[c]}
<1>1. TicTacToe!bestCell(g) = TicTacToe!Min(tops)
  BY Zenon DEF TicTacToe!bestCell, Worth, Mark
<1>2. ASSUME NEW c \in E PROVE Worth(Mark(g, c, "O"), 0, FALSE) \in Int
  <2>1. Mark(g, c, "O") \in TicTacToe!Grids
    BY MarkFacts
  <2> QED BY <2>1, WorthFacts
<1>3. IsFiniteSet(E) /\ E \subseteq Int
  <2>1. E \subseteq 0..8
    BY DEF TicTacToe!Empty, TicTacToe!Cells
  <2> QED BY <2>1, EmptyCells
<1>4. \A c \in E : value[c] \in Int /\ value[c] = Worth(Mark(g, c, "O"), 0, FALSE)
  BY <1>2
<1> HIDE DEF value
<1>5. tops # {}
  <2>1. E # {}
    OBVIOUS
  <2>2. Highest(E, value)
    <3> HIDE DEF E
    <3> QED BY <1>3, <1>4, <2>1, HighestExists
  <2> QED BY <2>2 DEF Highest
<1>6. IsFiniteSet(tops) /\ tops \subseteq E
  BY <1>3, FS_Subset
<1>7. TicTacToe!Min(tops) \in tops
  <2> DEFINE id == [c \in tops |-> c]
  <2>1. \A c \in tops : id[c] \in Int
    BY <1>3
  <2>2. \A y : y \in tops <=> \E d \in tops : y = id[d]
    OBVIOUS
  <2>3. \A c \in tops : id[c] = c
    OBVIOUS
  <2> HIDE DEF tops, id
  <2>4. \E c \in tops : TicTacToe!Min(tops) = id[c]
    BY <1>5, <1>6, <2>1, <2>2, Extremes
  <2> QED BY <2>3, <2>4
<1> QED BY <1>1, <1>4, <1>7

-----------------------------------------------------------------------------
(* The game.                                                               *)

\* Against the Copilot the player is on turn, has no line, and cannot force one.
TttInv ==
  /\ TicTacToe!TypeOK
  /\ vs_copilot =>
       /\ current_player = "X" /\ ~TicTacToe!check_win(grid, "X")
       /\ ~game_ended => ~TicTacToe!check_win(grid, "O") /\ Worth(grid, 0, FALSE) >= 0

\* No one has a line on the empty grid.
LEMMA NewGridFacts ==
  /\ TicTacToe!NewGrid \in TicTacToe!Grids
  /\ \A p \in {"X", "O"} : ~TicTacToe!check_win(TicTacToe!NewGrid, p)
  /\ Worth(TicTacToe!NewGrid, 0, FALSE) >= 0
<1>1. TicTacToe!NewGrid \in TicTacToe!Grids
  BY DEF TicTacToe!NewGrid, TicTacToe!Grids
<1>2. \A p \in {"X", "O"} : ~TicTacToe!check_win(TicTacToe!NewGrid, p)
  BY DEF TicTacToe!NewGrid, TicTacToe!check_win, TicTacToe!Cells, TicTacToe!Blank
<1>3. Worth(TicTacToe!NewGrid, 0, FALSE) >= 0
  BY TheGameIsADraw, Zenon DEF Worth
<1> QED BY <1>1, <1>2, <1>3

\* The game starts so, ...
LEMMA TttStarts == TicTacToe!Init => TttInv
<1> SUFFICES ASSUME TicTacToe!Init PROVE TttInv
  OBVIOUS
<1>1. /\ grid = TicTacToe!NewGrid /\ current_player = "X"
      /\ game_ended \in BOOLEAN /\ vs_copilot \in BOOLEAN
  BY DEF TicTacToe!Init
<1>2. TicTacToe!TypeOK
  BY <1>1, NewGridFacts DEF TicTacToe!TypeOK, TicTacToe!Grids
<1>3. /\ ~TicTacToe!check_win(grid, "X") /\ ~TicTacToe!check_win(grid, "O")
      /\ Worth(grid, 0, FALSE) >= 0
  BY <1>1, NewGridFacts, Zenon
<1> QED BY <1>1, <1>2, <1>3, Zenon DEF TttInv

\* Of numbers, for values that are not looked into.
LEMMA OrderFacts ==
  /\ \A x \in Int, y \in Int : x >= 0 /\ x <= y => y >= 0
  /\ \A x \in Int : x >= 0 => x # 1 - 10
  /\ \A x \in Int : x >= 10 => ~(x <= 9)
  /\ \A x \in Int, y \in Int : x <= y /\ y <= 10 - 1 => x <= 9
  /\ \A x \in Int : 10 <= x => x >= 10
  /\ 0 <= 9 /\ 0 + 1 = 1
  OBVIOUS

\* A move of the player in a game that is not over: he has no line after it, and
\* the Copilot, on turn, stands no worse than even.
LEMMA PlayersMove ==
  ASSUME NEW g \in TicTacToe!Grids, NEW c \in TicTacToe!Empty(g),
         ~TicTacToe!check_win(g, "X"), ~TicTacToe!check_win(g, "O"), Worth(g, 0, FALSE) >= 0
  PROVE  /\ ~TicTacToe!check_win(Mark(g, c, "X"), "X")
         /\ ~TicTacToe!check_win(Mark(g, c, "X"), "O")
         /\ Worth(Mark(g, c, "X"), 1, TRUE) >= 0
<1> DEFINE h == Mark(g, c, "X")
<1>1. ~TicTacToe!check_win(h, "O")
  BY NoLineOfTheOther
<1>2. ~TicTacToe!Over(g)
  BY DEF TicTacToe!Over, TicTacToe!check_draw, TicTacToe!Empty
<1>3. Worth(g, 0, FALSE) <= Worth(h, 1, TRUE) /\ Worth(g, 0, FALSE) \in Int
  <2>1. Worth(g, 0, FALSE) <= Worth(Mark(g, c, "X"), 0 + 1, TRUE)
    BY <1>2, WorthFacts
  <2>2. 0 + 1 = 1
    OBVIOUS
  <2> QED BY <2>1, <2>2, WorthFacts
<1>4. h \in TicTacToe!Grids
  BY MarkFacts
<1> HIDE DEF h
<1>5. Worth(h, 1, TRUE) \in Int
  BY <1>4, WorthFacts
<1>6. Worth(h, 1, TRUE) >= 0
  BY <1>3, <1>5, OrderFacts, Zenon
<1>7. ASSUME TicTacToe!check_win(h, "X") PROVE FALSE
  <2>1. TicTacToe!evaluate(h, 1) = 1 - 10
    BY <1>1, <1>7, EvaluateFacts
  <2>2. Worth(h, 1, TRUE) = TicTacToe!evaluate(h, 1)
    BY <1>4, <1>7, WorthFacts DEF TicTacToe!Over
  <2> QED BY <1>5, <1>6, <2>1, <2>2, OrderFacts, Zenon
<1> QED BY <1>1, <1>6, <1>7 DEF h

\* The reply of the Copilot to it, and that it is a win if there is one.
LEMMA CopilotsReply ==
  ASSUME NEW g \in TicTacToe!Grids, Size(g) <= 8, ~TicTacToe!Over(g), Worth(g, 1, TRUE) >= 0
  PROVE  LET h == Mark(g, TicTacToe!bestCell(g), "O")
         IN  /\ TicTacToe!bestCell(g) \in TicTacToe!Empty(g) /\ h \in TicTacToe!Grids
             /\ ~TicTacToe!check_win(h, "X") /\ Worth(h, 0, FALSE) >= 0
             /\ (\E d \in TicTacToe!Empty(g) : TicTacToe!check_win(Mark(g, d, "O"), "O"))
                  => TicTacToe!check_win(h, "O")
<1> DEFINE h == Mark(g, TicTacToe!bestCell(g), "O")
<1>1. /\ TicTacToe!bestCell(g) \in TicTacToe!Empty(g)
      /\ \A c \in TicTacToe!Empty(g) : Worth(Mark(g, c, "O"), 0, FALSE) <= Worth(h, 0, FALSE)
  <2>1. TicTacToe!Empty(g) # {}
    BY FullIsOver
  <2> QED BY <2>1, BestCell
<1>2. /\ \A c \in TicTacToe!Empty(g) :
           /\ Mark(g, c, "O") \in TicTacToe!Grids /\ Size(Mark(g, c, "O")) = Size(g) - 1
           /\ Worth(Mark(g, c, "O"), 0, FALSE) \in Int
      /\ Size(g) \in Nat
  BY MarkFacts, WorthFacts, EmptyCells
<1>3. h \in TicTacToe!Grids /\ Size(h) = Size(g) - 1 /\ Worth(h, 0, FALSE) \in Int
  BY <1>1, <1>2
<1>4. ~TicTacToe!check_win(h, "X")
  BY <1>1, NoLineOfTheOther DEF TicTacToe!Over
<1>5. Worth(h, 0, FALSE) >= 0
  <2>1. PICK c \in TicTacToe!Empty(g) : Worth(g, 1, TRUE) = Worth(Mark(g, c, "O"), 1 + 1, FALSE)
    BY WorthFacts
  <2>2. 1 + 1 = 2
    OBVIOUS
  <2>3. Worth(Mark(g, c, "O"), 2, FALSE) >= 0
    BY <2>1, <2>2, Zenon
  <2>4. Mark(g, c, "O") \in TicTacToe!Grids /\ Size(Mark(g, c, "O")) <= 7 /\ Size(Mark(g, c, "O")) \in Nat
    <3>1. Mark(g, c, "O") \in TicTacToe!Grids /\ Size(Mark(g, c, "O")) = Size(g) - 1
      BY <1>2
    <3> QED BY <1>2, <3>1, EmptyCells
  <2>5. Worth(Mark(g, c, "O"), 0, FALSE) >= 0
    <3>1. 2 + Size(Mark(g, c, "O")) <= 9 /\ 0 + Size(Mark(g, c, "O")) <= 9
      BY <2>4
    <3> QED BY <2>3, <2>4, <3>1, SignOfTheWorth
  <2> QED BY <1>1, <1>2, <1>3, <2>5, OrderFacts, Zenon
<1>6. ASSUME NEW d \in TicTacToe!Empty(g), TicTacToe!check_win(Mark(g, d, "O"), "O")
      PROVE  TicTacToe!check_win(h, "O")
  <2>1. Worth(Mark(g, d, "O"), 0, FALSE) = 10
    <3>1. TicTacToe!evaluate(Mark(g, d, "O"), 0) = 10
      BY <1>6, EvaluateFacts
    <3>2. TicTacToe!Over(Mark(g, d, "O"))
      BY <1>6 DEF TicTacToe!Over
    <3> QED BY <1>2, <3>1, <3>2, WorthFacts
  <2>2. Worth(h, 0, FALSE) >= 10
    BY <1>1, <1>3, <2>1, OrderFacts, Zenon
  <2> HIDE DEF h
  <2>3. ASSUME ~TicTacToe!check_win(h, "O") PROVE Worth(h, 0, FALSE) <= 9
    <3>1. CASE TicTacToe!Over(h)
      <4>1. Worth(h, 0, FALSE) = TicTacToe!evaluate(h, 0)
        BY <1>3, <3>1, WorthFacts
      <4>2. TicTacToe!evaluate(h, 0) = 0
        BY <1>4, <2>3, EvaluateFacts
      <4> QED BY <4>1, <4>2, OrderFacts, Zenon
    <3>2. CASE ~TicTacToe!Over(h)
      <4>1. PICK c \in TicTacToe!Empty(h) : TRUE
        BY <3>2, FullIsOver
      <4>2. /\ Mark(h, c, "X") \in TicTacToe!Grids
            /\ Size(Mark(h, c, "X")) = Size(h) - 1
        BY <1>3, MarkFacts
      <4>3. Worth(h, 0, FALSE) <= Worth(Mark(h, c, "X"), 0 + 1, TRUE)
        BY <1>3, <3>2, WorthFacts
      <4>4. Worth(Mark(h, c, "X"), 1, TRUE) <= 10 - 1
        <5>1. 1 + Size(Mark(h, c, "X")) <= 9
          BY <1>2, <1>3, <4>2
        <5> QED BY <4>2, <5>1, WorthIsBounded
      <4>5. Worth(Mark(h, c, "X"), 1, TRUE) \in Int
        BY <4>2, WorthFacts
      <4> QED BY <1>3, <4>3, <4>4, <4>5, OrderFacts, Zenon
    <3> QED BY <3>1, <3>2
  <2> QED BY <1>3, <2>2, <2>3, OrderFacts, Zenon
<1> QED BY <1>1, <1>3, <1>4, <1>5, <1>6

\* A game of two players keeps the types.
LEMMA TttMoveOfTwo ==
  ASSUME TttInv, NEW c \in TicTacToe!Cells, TicTacToe!MoveOfTwo(c)
  PROVE  TttInv' /\ TicTacToe!CopilotTakesTheWin
<1> DEFINE g == TicTacToe!Marked(c)
           ends == TicTacToe!check_win(g, current_player) \/ TicTacToe!check_draw(g)
<1>1. /\ ~game_ended /\ grid[c] = TicTacToe!Blank /\ (ends \/ ~vs_copilot)
      /\ grid' = g /\ game_ended' = ends /\ vs_copilot' = vs_copilot
      /\ current_player' = IF ends THEN current_player
                           ELSE IF current_player = "X" THEN "O" ELSE "X"
  BY Zenon DEF TicTacToe!MoveOfTwo
<1>2. /\ grid \in TicTacToe!Grids /\ current_player \in {"X", "O"} /\ vs_copilot \in BOOLEAN
  BY DEF TttInv, TicTacToe!TypeOK, TicTacToe!Grids
<1>3. c \in TicTacToe!Empty(grid)
  BY <1>1 DEF TicTacToe!Empty
<1>4. g = Mark(grid, c, current_player)
  BY Zenon DEF TicTacToe!Marked, Mark
<1>5. g \in TicTacToe!Grids
  BY <1>2, <1>3, <1>4, MarkFacts
<1>6. ends \in BOOLEAN
  BY Zenon DEF TicTacToe!check_draw
<1>7. current_player' \in {"X", "O"} /\ (ends => current_player' = current_player)
  <2>1. CASE ends
    <3>1. current_player' = current_player
      BY <1>1, <2>1, Zenon
    <3> QED BY <1>2, <2>1, <3>1
  <2>2. CASE ~ends
    <3>1. current_player' = IF current_player = "X" THEN "O" ELSE "X"
      BY <1>1, <2>2, Zenon
    <3> HIDE DEF g
    <3> QED BY <2>2, <3>1
  <2> QED BY <2>1, <2>2
<1>8. game_ended' \in BOOLEAN
  BY <1>1, <1>6, Zenon
<1>9. TicTacToe!TypeOK'
  <2>1. grid' \in TicTacToe!Grids
    BY <1>1, <1>5, Zenon
  <2>2. vs_copilot' \in BOOLEAN
    BY <1>1, <1>2, Zenon
  <2> QED BY <1>7, <1>8, <2>1, <2>2, Zenon DEF TicTacToe!TypeOK, TicTacToe!Grids
<1>10. CASE ~vs_copilot
  <2>1. ~vs_copilot'
    BY <1>1, <1>10, Zenon
  <2>2. TttInv'
    BY <1>9, <2>1, Zenon DEF TttInv
  <2>3. TicTacToe!CopilotTakesTheWin
    BY <1>10, Zenon DEF TicTacToe!CopilotTakesTheWin
  <2> QED BY <2>2, <2>3
<1>11. CASE vs_copilot
  <2>1. /\ current_player = "X" /\ ~TicTacToe!check_win(grid, "X")
        /\ ~TicTacToe!check_win(grid, "O") /\ Worth(grid, 0, FALSE) >= 0
    BY <1>1, <1>11, Zenon DEF TttInv
  <2>2. ends
    BY <1>1, <1>11, Zenon
  <2>3. ~TicTacToe!check_win(g, "X")
    BY <1>2, <1>3, <1>4, <2>1, PlayersMove
  <2>4. TicTacToe!check_draw(g)
    BY <2>1, <2>2, <2>3, Zenon
  <2>5. TttInv'
    <3>1. current_player' = "X"
      BY <1>7, <2>1, <2>2, Zenon
    <3>2. ~TicTacToe!check_win(grid', "X")
      BY <1>1, <2>3, Zenon
    <3>3. game_ended'
      BY <1>1, <2>2, Zenon
    <3> QED BY <1>9, <3>1, <3>2, <3>3, Zenon DEF TttInv
  <2>6. ASSUME NEW b \in TicTacToe!Cells, grid[b] = TicTacToe!Blank, grid'[b] = "X",
               NEW d \in TicTacToe!Empty([grid EXCEPT ![b] = "X"])
        PROVE  FALSE
    <3>1. b = c
      <4>1. \A e \in TicTacToe!Cells \ {c} : g[e] = grid[e]
        BY <1>2, <1>3, <1>4, MarkFacts
      <4>2. g[b] = "X"
        BY <1>1, <2>6, Zenon
      <4> HIDE DEF g
      <4> QED BY <2>6, <4>1, <4>2 DEF TicTacToe!Blank
    <3>2. d \in TicTacToe!Empty(g)
      BY <1>4, <2>1, <2>6, <3>1, Zenon DEF Mark
    <3> HIDE DEF g
    <3> QED BY <2>4, <3>2 DEF TicTacToe!check_draw, TicTacToe!Empty
  <2>7. TicTacToe!CopilotTakesTheWin
    BY <2>6, Zenon DEF TicTacToe!CopilotTakesTheWin
  <2> QED BY <2>5, <2>7
<1> QED BY <1>2, <1>10, <1>11

\* A move that the Copilot answers.
LEMMA TttMoveAndReply ==
  ASSUME TttInv, NEW c \in TicTacToe!Cells, TicTacToe!MoveAndReply(c)
  PROVE  TttInv' /\ TicTacToe!CopilotTakesTheWin
<1> DEFINE g == Mark(grid, c, "X")
           h == Mark(g, TicTacToe!bestCell(g), "O")
<1>1. /\ ~game_ended /\ grid[c] = TicTacToe!Blank /\ vs_copilot
      /\ ~TicTacToe!check_win(TicTacToe!Marked(c), current_player)
      /\ ~TicTacToe!check_draw(TicTacToe!Marked(c))
      /\ grid' = [TicTacToe!Marked(c) EXCEPT ![TicTacToe!bestCell(TicTacToe!Marked(c))] = "O"]
      /\ game_ended' = (TicTacToe!check_win(grid', "O") \/ TicTacToe!check_draw(grid'))
      /\ current_player' = current_player /\ vs_copilot' = vs_copilot
  BY Zenon DEF TicTacToe!MoveAndReply
<1>2. /\ grid \in TicTacToe!Grids /\ vs_copilot \in BOOLEAN
  BY DEF TttInv, TicTacToe!TypeOK, TicTacToe!Grids
<1>3. /\ current_player = "X" /\ ~TicTacToe!check_win(grid, "X")
      /\ ~TicTacToe!check_win(grid, "O") /\ Worth(grid, 0, FALSE) >= 0
  BY <1>1, Zenon DEF TttInv
<1>4. TicTacToe!Marked(c) = g
  BY <1>3, Zenon DEF TicTacToe!Marked, Mark
<1>5. grid' = h /\ ~TicTacToe!check_draw(g)
  BY <1>1, <1>4, Zenon DEF Mark
<1>6. c \in TicTacToe!Empty(grid)
  BY <1>1 DEF TicTacToe!Empty
<1>7. g \in TicTacToe!Grids /\ Size(g) <= 8 /\ (\A e \in TicTacToe!Cells \ {c} : g[e] = grid[e])
  <2>1. Size(grid) \in Nat /\ Size(grid) <= 9
    BY EmptyCells
  <2> QED BY <1>2, <1>6, <2>1, MarkFacts
<1>8. /\ ~TicTacToe!check_win(g, "X") /\ ~TicTacToe!check_win(g, "O") /\ Worth(g, 1, TRUE) >= 0
  BY <1>2, <1>3, <1>6, PlayersMove
<1> HIDE DEF g
<1>9. ~TicTacToe!Over(g)
  BY <1>5, <1>8 DEF TicTacToe!Over
<1>10. /\ TicTacToe!bestCell(g) \in TicTacToe!Empty(g) /\ h \in TicTacToe!Grids
       /\ ~TicTacToe!check_win(h, "X") /\ Worth(h, 0, FALSE) >= 0
       /\ (\E d \in TicTacToe!Empty(g) : TicTacToe!check_win(Mark(g, d, "O"), "O"))
            => TicTacToe!check_win(h, "O")
  BY <1>7, <1>8, <1>9, CopilotsReply
<1>11. /\ h[TicTacToe!bestCell(g)] = "O"
       /\ \A e \in TicTacToe!Cells \ {TicTacToe!bestCell(g)} : h[e] = g[e]
  BY <1>7, <1>10, MarkFacts
<1> HIDE DEF h
<1>12. TttInv'
  <2>1. game_ended' \in BOOLEAN
    BY <1>1, Zenon DEF TicTacToe!check_draw
  <2>2. current_player' = "X" /\ grid' \in TicTacToe!Grids /\ vs_copilot' \in BOOLEAN
    BY <1>1, <1>2, <1>3, <1>5, <1>10, Zenon
  <2>3. TicTacToe!TypeOK'
    <3>1. current_player' \in {"X", "O"}
      BY <2>2, Zenon
    <3> QED BY <2>1, <2>2, <3>1, Zenon DEF TicTacToe!TypeOK, TicTacToe!Grids
  <2>4. ~TicTacToe!check_win(grid', "X") /\ Worth(grid', 0, FALSE) >= 0
    BY <1>5, <1>10, Zenon
  <2>5. ~game_ended' => ~TicTacToe!check_win(grid', "O")
    BY <1>1, Zenon
  <2> QED BY <2>2, <2>3, <2>4, <2>5, Zenon DEF TttInv
<1>13. ASSUME NEW b \in TicTacToe!Cells, grid[b] = TicTacToe!Blank, grid'[b] = "X",
              NEW d \in TicTacToe!Empty([grid EXCEPT ![b] = "X"]),
              TicTacToe!check_win([[grid EXCEPT ![b] = "X"] EXCEPT ![d] = "O"], "O")
       PROVE  TicTacToe!check_win(grid', "O")
  <2>1. b = c
    <3>1. h[b] = "X"
      BY <1>5, <1>13, Zenon
    <3> QED BY <1>7, <1>11, <1>13, <3>1 DEF TicTacToe!Blank
  <2>2. d \in TicTacToe!Empty(g) /\ TicTacToe!check_win(Mark(g, d, "O"), "O")
    BY <1>13, <2>1, Zenon DEF Mark, g
  <2> QED BY <1>5, <1>10, <2>2, Zenon
<1>14. TicTacToe!CopilotTakesTheWin
  BY <1>13, Zenon DEF TicTacToe!CopilotTakesTheWin
<1> QED BY <1>12, <1>14

\* A new game.
LEMMA TttNewGame ==
  ASSUME TttInv, NEW copilot \in BOOLEAN, TicTacToe!NewGame(copilot)
  PROVE  TttInv' /\ TicTacToe!CopilotTakesTheWin
<1>1. /\ grid' = TicTacToe!NewGrid /\ current_player' = "X" /\ game_ended' = FALSE
      /\ vs_copilot' = copilot
  BY DEF TicTacToe!NewGame
<1>2. TttInv'
  <2>1. /\ ~TicTacToe!check_win(grid', "X") /\ ~TicTacToe!check_win(grid', "O")
        /\ Worth(grid', 0, FALSE) >= 0
    BY <1>1, NewGridFacts, Zenon
  <2>2. TicTacToe!TypeOK'
    BY <1>1, NewGridFacts DEF TicTacToe!TypeOK, TicTacToe!Grids
  <2> QED BY <1>1, <2>1, <2>2, Zenon DEF TttInv
<1>3. \A b \in TicTacToe!Cells : grid'[b] # "X"
  BY <1>1 DEF TicTacToe!NewGrid, TicTacToe!Blank
<1>4. TicTacToe!CopilotTakesTheWin
  BY <1>3, Zenon DEF TicTacToe!CopilotTakesTheWin
<1> QED BY <1>2, <1>4

\* ... and stays so, with a win taken wherever there is one.
LEMMA TttSteps ==
  ASSUME TttInv, TicTacToe!Next
  PROVE  TttInv' /\ TicTacToe!CopilotTakesTheWin
<1>1. CASE \E c \in TicTacToe!Cells : TicTacToe!MoveOfTwo(c) \/ TicTacToe!MoveAndReply(c)
  BY <1>1, TttMoveOfTwo, TttMoveAndReply, Zenon
<1>2. CASE \E copilot \in BOOLEAN : TicTacToe!NewGame(copilot)
  BY <1>2, TttNewGame, Zenon
<1> QED BY <1>1, <1>2, Zenon DEF TicTacToe!Next

\* What the run checks of the game.
LEMMA CopilotIsUnbeaten == TttInv => TicTacToe!TypeOK /\ TicTacToe!CopilotNeverLoses
  BY DEF TttInv, TicTacToe!CopilotNeverLoses

-----------------------------------------------------------------------------
(* Chess.                                                                  *)

\* Boards, and what stands on them.
Colours == {Chess!White, Chess!Black}
Boards == [Chess!Cells -> Chess!White \cup Chess!Black \cup {"."}]
Homes == {0, 7} \X {0, 4, 7}
Counts == [white : Nat, black : Nat]
Standing(b, colour) == {s \in Chess!Cells : b[s] \in colour}
Ones(b, t, colour) == IF b[t] \in colour THEN 1 ELSE 0

\* No piece has two colours.
LEMMA ColourFacts ==
  /\ Chess!White \cap Chess!Black = {} /\ "." \notin Chess!White /\ "." \notin Chess!Black
  BY DEF Chess!White, Chess!Black


\* The cells of the board are finitely many.
LEMMA CellsOfChess ==
  /\ IsFiniteSet(0..7) /\ Cardinality(0..7) = 8
  /\ IsFiniteSet(Chess!Cells)
  /\ \A s : Chess!Cardinality(s) = Cardinality(s)
<1>1. IsFiniteSet(0..7) /\ Cardinality(0..7) = 8
  <2>1. 0 \in Int /\ 7 \in Int /\ 0 <= 7 => IsFiniteSet(0..7) /\ Cardinality(0..7) = 7 - 0 + 1
    BY IntervalSize, Zenon
  <2> QED BY <2>1
<1>2. IsFiniteSet(Chess!Cells)
  BY <1>1, FS_Product DEF Chess!Cells
<1>3. \A s : Chess!Cardinality(s) = Cardinality(s)
  BY Zenon DEF Chess!Cardinality, Cardinality
<1> QED BY <1>1, <1>2, <1>3

\* What stands on the board can be counted.
LEMMA StandingFacts ==
  ASSUME NEW b, NEW colour
  PROVE  IsFiniteSet(Standing(b, colour)) /\ Cardinality(Standing(b, colour)) \in Nat
<1>1. Standing(b, colour) \subseteq Chess!Cells
  BY DEF Standing
<1> QED BY <1>1, CellsOfChess, FS_Subset, FS_CardinalityType

\* A set of which an element changes places.
LEMMA ChangePlaces ==
  ASSUME NEW S, IsFiniteSet(S), NEW x \in S, NEW y, y \notin S
  PROVE  Cardinality((S \ {x}) \cup {y}) = Cardinality(S)
<1>1. IsFiniteSet(S \ {x}) /\ Cardinality(S \ {x}) = Cardinality(S) - 1 /\ Cardinality(S) \in Nat
  BY FS_RemoveElement, FS_CardinalityType
<1>2. Cardinality((S \ {x}) \cup {y}) = Cardinality(S \ {x}) + 1
  BY <1>1, FS_AddElement
<1> QED BY <1>1, <1>2

\* The board after a move, on its way: before the rook of a castling moves.
Half(b, f, t) == [b EXCEPT ![t] = Chess!Promoted(b[f], t), ![f] = "."]

\* A promotion keeps the colour, and only a pawn is promoted.
LEMMA PromotedFacts ==
  ASSUME NEW p \in Chess!White \cup Chess!Black, NEW t
  PROVE  /\ \A colour \in Colours : Chess!Promoted(p, t) \in colour <=> p \in colour
         /\ Chess!Promoted(p, t) \in Chess!White \cup Chess!Black
         /\ p \notin {"P", "p"} => Chess!Promoted(p, t) = p
         /\ Chess!Promoted(p, t) \notin {"K", "k"} \/ p \in {"K", "k"}
  BY DEF Chess!Promoted, Chess!White, Chess!Black, Colours

\* What half a move makes of the board.
LEMMA HalfFacts ==
  ASSUME NEW b \in Boards, NEW f \in Chess!Cells, NEW t \in Chess!Cells, f # t, b[f] # "."
  PROVE  /\ Half(b, f, t) \in Boards /\ Half(b, f, t)[f] = "."
         /\ Half(b, f, t)[t] = Chess!Promoted(b[f], t)
         /\ \A s \in Chess!Cells \ {f, t} : Half(b, f, t)[s] = b[s]
         /\ \A colour \in Colours : Half(b, f, t)[t] \in colour <=> b[f] \in colour
<1>1. b[f] \in Chess!White \cup Chess!Black
  BY DEF Boards
<1>2. /\ Chess!Promoted(b[f], t) \in Chess!White \cup Chess!Black
      /\ \A colour \in Colours : Chess!Promoted(b[f], t) \in colour <=> b[f] \in colour
  BY <1>1, PromotedFacts
<1> DEFINE p == Chess!Promoted(b[f], t)
<1> HIDE DEF p
<1>3. Half(b, f, t) = [b EXCEPT ![t] = p, ![f] = "."]
  BY DEF Half, p
<1>4. /\ Half(b, f, t) \in Boards /\ Half(b, f, t)[f] = "." /\ Half(b, f, t)[t] = p
      /\ \A s \in Chess!Cells \ {f, t} : Half(b, f, t)[s] = b[s]
  BY <1>2, <1>3 DEF Boards, p
<1> QED BY <1>2, <1>4 DEF p

\* The piece that moves is counted on its new cell, the captured one is not.
LEMMA HalfCounts ==
  ASSUME NEW b \in Boards, NEW f \in Chess!Cells, NEW t \in Chess!Cells, f # t, b[f] # ".",
         b[t] # "." => (b[f] \in Chess!White) # (b[t] \in Chess!White), NEW colour \in Colours
  PROVE  Cardinality(Standing(Half(b, f, t), colour)) + Ones(b, t, colour)
           = Cardinality(Standing(b, colour))
<1> DEFINE h == Half(b, f, t)
           S == Standing(b, colour)
<1>1. /\ h \in Boards /\ h[f] = "." /\ \A s \in Chess!Cells \ {f, t} : h[s] = b[s]
      /\ h[t] \in colour <=> b[f] \in colour
  BY HalfFacts
<1>2. "." \notin colour
  BY ColourFacts DEF Colours
<1>3. IsFiniteSet(S) /\ Cardinality(S) \in Nat
  BY StandingFacts
<1> HIDE DEF h
<1>4. CASE b[f] \in colour
  <2>1. b[t] \notin colour
    BY <1>2, <1>4, ColourFacts DEF Colours, Boards
  <2>2. Standing(h, colour) = (S \ {f}) \cup {t}
    BY <1>1, <1>2, <1>4 DEF Standing
  <2>3. f \in S /\ t \notin S
    BY <1>4, <2>1 DEF Standing
  <2>4. Cardinality(Standing(h, colour)) = Cardinality(S)
    <3> HIDE DEF S
    <3> QED BY <1>3, <2>2, <2>3, ChangePlaces
  <2> QED BY <1>3, <2>1, <2>4 DEF Ones, h
<1>5. CASE b[f] \notin colour
  <2>1. Standing(h, colour) = S \ {t}
    BY <1>1, <1>2, <1>5 DEF Standing
  <2>2. t \in S <=> b[t] \in colour
    BY DEF Standing
  <2>3. Cardinality(S \ {t}) = IF t \in S THEN Cardinality(S) - 1 ELSE Cardinality(S)
    <3> HIDE DEF S
    <3> QED BY <1>3, FS_RemoveElement
  <2> QED BY <1>3, <2>1, <2>2, <2>3 DEF Ones, h
<1> QED BY <1>4, <1>5

\* When a king castles the cells of its path are empty, and the rook's cells are
\* others than its own two.
LEMMA CastlingFacts ==
  ASSUME NEW b \in Boards, NEW m, NEW f \in Chess!Cells, NEW t \in Chess!Cells,
         Chess!Castling(b, f, t), Chess!can_castle(b, m, f, t)
  PROVE  /\ Chess!RookFrom(t) \in Chess!Cells \ {f, t} /\ Chess!RookTo(t) \in Chess!Cells \ {f, t}
         /\ Chess!RookFrom(t) # Chess!RookTo(t)
         /\ b[Chess!RookTo(t)] = "." /\ b[t] = "." /\ b[f] \in {"K", "k"}
<1> DEFINE home == IF b[f] = "K" THEN 7 ELSE 0
<1>1. /\ b[f] \in {"K", "k"} /\ f[1] = t[1] /\ Chess!Distance(f[2], t[2]) = 2
      /\ f = <<home, 4>>
      /\ \A c \in (IF t[2] = 6 THEN 5..6 ELSE 1..3) : b[<<home, c>>] = "."
  BY DEF Chess!Castling, Chess!can_castle
<1>2. home \in {0, 7} /\ home \in 0..7
  OBVIOUS
<1> HIDE DEF home
<1>3. PICK x \in 0..7, y \in 0..7 : t = <<x, y>>
  BY DEF Chess!Cells
<1>4. x = home /\ Chess!Distance(4, y) = 2
  BY <1>1, <1>3
<1>5. y = 2 \/ y = 6
  BY <1>3, <1>4 DEF Chess!Distance
<1>6. CASE y = 6
  <2>1. t = <<home, 6>> /\ Chess!RookFrom(t) = <<home, 7>> /\ Chess!RookTo(t) = <<home, 5>>
    BY <1>3, <1>4, <1>6 DEF Chess!RookFrom, Chess!RookTo
  <2>2. b[<<home, 5>>] = "." /\ b[<<home, 6>>] = "."
    BY <1>1, <2>1
  <2> QED BY <1>1, <1>2, <2>1, <2>2 DEF Chess!Cells
<1>7. CASE y = 2
  <2>1. t = <<home, 2>> /\ Chess!RookFrom(t) = <<home, 0>> /\ Chess!RookTo(t) = <<home, 3>>
    BY <1>3, <1>4, <1>7 DEF Chess!RookFrom, Chess!RookTo
  <2>2. b[<<home, 2>>] = "." /\ b[<<home, 3>>] = "."
    BY <1>1, <2>1
  <2> QED BY <1>1, <1>2, <2>1, <2>2 DEF Chess!Cells
<1> QED BY <1>5, <1>6, <1>7

\* Any move leaves a board, ...
LEMMA BoardAfterType ==
  ASSUME NEW b \in Boards, NEW f \in Chess!Cells, NEW t \in Chess!Cells
  PROVE  Chess!BoardAfter(b, f, t) \in Boards
<1> DEFINE p == Chess!Promoted(b[f], t)
           h == [b EXCEPT ![t] = p, ![f] = "."]
<1>1. p \in Chess!White \cup Chess!Black \cup {"."}
  <2>1. b[f] \in Chess!White \cup Chess!Black \cup {"."}
    BY DEF Boards
  <2> QED BY <2>1 DEF Chess!Promoted, Chess!White, Chess!Black
<1>2. h \in Boards
  <2> HIDE DEF p
  <2> QED BY <1>1 DEF Boards
<1>3. Chess!RookFrom(t) \in Chess!Cells
  BY DEF Chess!RookFrom, Chess!Cells
<1>4. b[Chess!RookFrom(t)] \in Chess!White \cup Chess!Black \cup {"."}
  BY <1>3 DEF Boards
<1> HIDE DEF h
<1>5. [h EXCEPT ![Chess!RookTo(t)] = b[Chess!RookFrom(t)], ![Chess!RookFrom(t)] = "."] \in Boards
  BY <1>2, <1>4 DEF Boards
<1>6. Chess!BoardAfter(b, f, t) = IF Chess!Castling(b, f, t)
        THEN [h EXCEPT ![Chess!RookTo(t)] = b[Chess!RookFrom(t)], ![Chess!RookFrom(t)] = "."]
        ELSE h
  BY DEF Chess!BoardAfter, h
<1> QED BY <1>2, <1>5, <1>6

\* ... and one by the rules the pieces that were not captured.
LEMMA MoveCounts ==
  ASSUME NEW b \in Boards, NEW m, NEW f \in Chess!Cells, NEW t \in Chess!Cells,
         Chess!is_valid_move(b, m, f, t), NEW colour \in Colours
  PROVE  Cardinality(Standing(Chess!BoardAfter(b, f, t), colour)) + Ones(b, t, colour)
           = Cardinality(Standing(b, colour))
<1> DEFINE h == Half(b, f, t)
           r0 == Chess!RookFrom(t)
           r1 == Chess!RookTo(t)
<1>1. /\ f # t /\ b[f] # "."
      /\ b[t] # "." => (b[f] \in Chess!White) # (b[t] \in Chess!White)
      /\ Chess!Castling(b, f, t) => Chess!can_castle(b, m, f, t)
  BY Zenon DEF Chess!is_valid_move
<1>2. /\ h \in Boards /\ h[f] = "." /\ \A s \in Chess!Cells \ {f, t} : h[s] = b[s]
      /\ h[t] \in colour <=> b[f] \in colour
  BY <1>1, HalfFacts
<1>3. Cardinality(Standing(h, colour)) + Ones(b, t, colour) = Cardinality(Standing(b, colour))
  BY <1>1, HalfCounts
<1>4. CASE ~Chess!Castling(b, f, t)
  <2>1. Chess!BoardAfter(b, f, t) = h
    BY <1>4 DEF Chess!BoardAfter, Half
  <2> QED BY <1>3, <2>1
<1>5. CASE Chess!Castling(b, f, t)
  <2>1. /\ r0 \in Chess!Cells \ {f, t} /\ r1 \in Chess!Cells \ {f, t} /\ r0 # r1
        /\ b[r1] = "."
    BY <1>1, <1>5, CastlingFacts
  <2>2. Chess!BoardAfter(b, f, t) = [h EXCEPT ![r1] = b[r0], ![r0] = "."]
    BY <1>5 DEF Chess!BoardAfter, Half
  <2> DEFINE a == Chess!BoardAfter(b, f, t)
             S == Standing(h, colour)
  <2> HIDE DEF h, r0, r1, a
  <2>3. a[r1] = h[r0] /\ a[r0] = "." /\ h[r1] = "." /\ \A s \in Chess!Cells \ {r0, r1} : a[s] = h[s]
    BY <1>2, <2>1, <2>2 DEF Boards, a
  <2>4. "." \notin colour
    BY ColourFacts DEF Colours
  <2>5. CASE h[r0] \in colour
    <3>1. Standing(a, colour) = (S \ {r0}) \cup {r1} /\ r0 \in S /\ r1 \notin S
      BY <2>1, <2>3, <2>4, <2>5 DEF Standing
    <3>2. IsFiniteSet(S)
      BY StandingFacts
    <3> HIDE DEF S
    <3>3. Cardinality(Standing(a, colour)) = Cardinality(S)
      BY <3>1, <3>2, ChangePlaces
    <3> QED BY <1>3, <3>3 DEF a, S
  <2>6. CASE h[r0] \notin colour
    <3>1. Standing(a, colour) = S
      BY <2>1, <2>3, <2>4, <2>6 DEF Standing
    <3> QED BY <1>3, <3>1 DEF a
  <2> QED BY <2>5, <2>6
<1> QED BY <1>4, <1>5

-----------------------------------------------------------------------------
(* A game, move by move.                                                   *)

\* The pieces on the board and those that were captured.
AllCounted(b, c) ==
  /\ Cardinality(Standing(b, Chess!White)) + c.white = 16
  /\ Cardinality(Standing(b, Chess!Black)) + c.black = 16

GameSound(b, m, c) == b \in Boards /\ m \subseteq Homes /\ c \in Counts /\ AllCounted(b, c)

\* The captured pieces, counted.
LEMMA CapturedFacts ==
  ASSUME NEW b, NEW c \in Counts, NEW t
  PROVE  /\ Chess!CapturedAfter(b, c, t) \in Counts
         /\ Chess!CapturedAfter(b, c, t).white = c.white + Ones(b, t, Chess!White)
         /\ Chess!CapturedAfter(b, c, t).black = c.black + Ones(b, t, Chess!Black)
<1> DEFINE w == Ones(b, t, Chess!White)
           k == Ones(b, t, Chess!Black)
<1>1. w \in Nat /\ k \in Nat
  BY DEF Ones
<1>2. Chess!CapturedAfter(b, c, t) = [c EXCEPT !.white = c.white + w, !.black = c.black + k]
  BY Zenon DEF Chess!CapturedAfter, Ones
<1> HIDE DEF w, k
<1>3. c.white + w \in Nat /\ c.black + k \in Nat
  BY <1>1 DEF Counts
<1> QED BY <1>2, <1>3 DEF Counts, w, k

\* A valid move keeps a sound game sound.
LEMMA GameGoesOn ==
  ASSUME NEW b, NEW m, NEW c, GameSound(b, m, c), NEW f \in Chess!Cells, NEW t \in Chess!Cells,
         Chess!is_valid_move(b, m, f, t)
  PROVE  GameSound(Chess!BoardAfter(b, f, t), Chess!MovedAfter(m, f),
                   Chess!CapturedAfter(b, c, t))
<1> DEFINE a == Chess!BoardAfter(b, f, t)
           d == Chess!CapturedAfter(b, c, t)
<1>1. b \in Boards /\ m \subseteq Homes /\ c \in Counts /\ AllCounted(b, c)
  BY DEF GameSound
<1>2. a \in Boards
  BY <1>1, BoardAfterType
<1>3. Chess!MovedAfter(m, f) \subseteq Homes
  BY <1>1 DEF Chess!MovedAfter, Homes
<1>4. /\ d \in Counts /\ d.white = c.white + Ones(b, t, Chess!White)
      /\ d.black = c.black + Ones(b, t, Chess!Black)
  BY <1>1, CapturedFacts
<1>5. Chess!White \in Colours /\ Chess!Black \in Colours
  BY DEF Colours
<1>6. /\ Cardinality(Standing(a, Chess!White)) + Ones(b, t, Chess!White)
           = Cardinality(Standing(b, Chess!White))
      /\ Cardinality(Standing(a, Chess!Black)) + Ones(b, t, Chess!Black)
           = Cardinality(Standing(b, Chess!Black))
  BY <1>1, <1>5, MoveCounts
<1>7. /\ Cardinality(Standing(a, Chess!White)) \in Nat
      /\ Cardinality(Standing(a, Chess!Black)) \in Nat
      /\ Ones(b, t, Chess!White) \in Nat /\ Ones(b, t, Chess!Black) \in Nat
      /\ c.white \in Nat /\ c.black \in Nat
  <2>1. c.white \in Nat /\ c.black \in Nat
    BY <1>1 DEF Counts
  <2>2. Ones(b, t, Chess!White) \in Nat /\ Ones(b, t, Chess!Black) \in Nat
    BY DEF Ones
  <2> QED BY <2>1, <2>2, StandingFacts
<1> HIDE DEF a, d
<1>8. AllCounted(a, d)
  BY <1>1, <1>4, <1>6, <1>7 DEF AllCounted
<1> QED BY <1>2, <1>3, <1>4, <1>8 DEF GameSound, a, d

\* Two rows of eight for each.
LEMMA NewGameSound ==
  GameSound(Chess!init_board, {}, Chess!New.captured)
<1>1. Chess!init_board \in Boards
  BY DEF Chess!init_board, Boards, Chess!White, Chess!Black, Chess!Cells
<1>2. /\ Standing(Chess!init_board, Chess!White) = (6..7) \X (0..7)
      /\ Standing(Chess!init_board, Chess!Black) = (0..1) \X (0..7)
  <2>1. ASSUME NEW x \in 0..7, NEW y \in 0..7
        PROVE  /\ Chess!init_board[<<x, y>>] \in Chess!White <=> x \in 6..7
               /\ Chess!init_board[<<x, y>>] \in Chess!Black <=> x \in 0..1
    BY DEF Chess!init_board, Chess!White, Chess!Black, Chess!Cells
  <2>2. Chess!Cells = (0..7) \X (0..7)
    BY DEF Chess!Cells
  <2>3. ASSUME NEW s
        PROVE  /\ s \in Standing(Chess!init_board, Chess!White) <=> s \in (6..7) \X (0..7)
               /\ s \in Standing(Chess!init_board, Chess!Black) <=> s \in (0..1) \X (0..7)
    <3>1. s \in (6..7) \X (0..7) => s \in Chess!Cells
      BY <2>2
    <3>2. s \in (0..1) \X (0..7) => s \in Chess!Cells
      BY <2>2
    <3>3. ASSUME s \in Chess!Cells
          PROVE  /\ Chess!init_board[s] \in Chess!White <=> s \in (6..7) \X (0..7)
                 /\ Chess!init_board[s] \in Chess!Black <=> s \in (0..1) \X (0..7)
      <4>1. PICK x \in 0..7, y \in 0..7 : s = <<x, y>>
        BY <2>2, <3>3
      <4>2. /\ Chess!init_board[s] \in Chess!White <=> x \in 6..7
            /\ Chess!init_board[s] \in Chess!Black <=> x \in 0..1
        BY <2>1, <4>1
      <4>3. (s \in (6..7) \X (0..7) <=> x \in 6..7) /\ (s \in (0..1) \X (0..7) <=> x \in 0..1)
        BY <4>1
      <4> QED BY <4>2, <4>3, Zenon
    <3> QED BY <3>1, <3>2, <3>3 DEF Standing
  <2> QED BY <2>3
<1>3. Cardinality((6..7) \X (0..7)) = 16 /\ Cardinality((0..1) \X (0..7)) = 16
  <2>1. 6 \in Int /\ 7 \in Int /\ 6 <= 7 => IsFiniteSet(6..7) /\ Cardinality(6..7) = 7 - 6 + 1
    BY IntervalSize, Zenon
  <2>2. 0 \in Int /\ 1 \in Int /\ 0 <= 1 => IsFiniteSet(0..1) /\ Cardinality(0..1) = 1 - 0 + 1
    BY IntervalSize, Zenon
  <2>3. /\ IsFiniteSet(6..7) /\ Cardinality(6..7) = 2
        /\ IsFiniteSet(0..1) /\ Cardinality(0..1) = 2
    BY <2>1, <2>2
  <2>4. /\ Cardinality((6..7) \X (0..7)) = Cardinality(6..7) * Cardinality(0..7)
        /\ Cardinality((0..1) \X (0..7)) = Cardinality(0..1) * Cardinality(0..7)
    BY <2>3, CellsOfChess, FS_Product, Zenon
  <2> QED BY <2>3, <2>4, CellsOfChess
<1>4. Chess!New.captured = [white |-> 0, black |-> 0]
  BY Zenon DEF Chess!New
<1>5. Chess!New.captured \in Counts /\ AllCounted(Chess!init_board, Chess!New.captured)
  BY <1>2, <1>3, <1>4 DEF Counts, AllCounted
<1> QED BY <1>1, <1>5 DEF GameSound

-----------------------------------------------------------------------------
(* The opening.                                                            *)

Games == [board : Boards, moved : SUBSET Homes, captured : Counts]

\* A move of an opening leads from a game to a game.
LEMMA MovedType ==
  ASSUME NEW g \in Games, NEW m \in Chess!Cells \X Chess!Cells
  PROVE  Chess!Moved(g, m) \in Games
<1>1. g.board \in Boards /\ g.moved \subseteq Homes /\ g.captured \in Counts
      /\ m[1] \in Chess!Cells /\ m[2] \in Chess!Cells
  BY DEF Games
<1>2. Chess!BoardAfter(g.board, m[1], m[2]) \in Boards
  BY <1>1, BoardAfterType
<1>3. Chess!MovedAfter(g.moved, m[1]) \in SUBSET Homes
  BY <1>1 DEF Chess!MovedAfter, Homes
<1>4. Chess!CapturedAfter(g.board, g.captured, m[2]) \in Counts
  BY <1>1, CapturedFacts
<1> QED BY <1>2, <1>3, <1>4 DEF Chess!Moved, Games

\* The function that Replay chooses exists, and it steps through the moves.
LEMMA ReplaySteps ==
  ASSUME NEW s \in Seq(Chess!Cells \X Chess!Cells)
  PROVE  /\ Chess!Replay(s)[0] = Chess!New
         /\ \A i \in 1..Len(s) : Chess!Replay(s)[i] = Chess!Moved(Chess!Replay(s)[i - 1], s[i])
<1> DEFINE V == Chess!Cells \X Chess!Cells
           F == [z \in Games \X V |-> Chess!Moved(z[1], z[2])]
           P(a) == a = [i \in 0 .. Len(s) |-> IF i = 0 THEN Chess!New
                                              ELSE Chess!Moved(a[i - 1], s[i])]
           after == CHOOSE a : P(a)
<1>1. Chess!New \in Games
  <2>1. Chess!New = [board |-> Chess!init_board, moved |-> {}, captured |-> Chess!New.captured]
    BY Zenon DEF Chess!New
  <2>2. Chess!init_board \in Boards /\ Chess!New.captured \in Counts
    BY NewGameSound, Zenon DEF GameSound
  <2> HIDE DEF V
  <2> QED BY <2>1, <2>2 DEF Games
<1>2. F \in [Games \X V -> Games] /\ \A g \in Games, m \in V : F[<<g, m>>] = Chess!Moved(g, m)
  <2>1. \A g \in Games, m \in V : Chess!Moved(g, m) \in Games
    BY MovedType
  <2> HIDE DEF V
  <2> QED BY <2>1
<1> HIDE DEF F
<1>3. HasFoldLeft(Games, Chess!New, F, s)
  BY <1>1, <1>2, FoldLeftExists
<1>4. PICK k \in [SUBSET DOMAIN s -> Games] :
            /\ k[{}] = Chess!New
            /\ \A d \in (SUBSET DOMAIN s) \ {{}} : k[d] = F[<<k[d \ {Max(d)}], s[Max(d)]>>]
  BY <1>3 DEF HasFoldLeft
<1>5. \A d \in SUBSET DOMAIN s :
        d # {} /\ k[d \ {Max(d)}] \in Games => k[d] = F[<<k[d \ {Max(d)}], s[Max(d)]>>]
  <2> HIDE DEF Max
  <2> QED BY <1>4
<1>6. RunsTo(Games, Chess!New, F, s, k[DOMAIN s])
  BY <1>1, <1>2, <1>4, <1>5, FoldLeftRuns
<1>7. PICK h \in [0..Len(s) -> Games] :
            h[0] = Chess!New /\ \A i \in 1..Len(s) : h[i] = F[<<h[i - 1], s[i]>>]
  BY <1>6 DEF RunsTo
<1>8. Len(s) \in Nat /\ \A i \in 1..Len(s) : s[i] \in V /\ i - 1 \in 0..Len(s)
  OBVIOUS
<1> HIDE DEF V
<1>9. \A i \in 1..Len(s) : h[i] = Chess!Moved(h[i - 1], s[i])
  BY <1>2, <1>7, <1>8
<1>10. P(h)
  BY <1>7, <1>8, <1>9
<1>11. P(after)
  <2> HIDE DEF P
  <2> QED BY <1>10
<1>12. Chess!Replay(s) = after
  BY Zenon DEF Chess!Replay
<1> HIDE DEF after
<1> QED BY <1>8, <1>11, <1>12

\* A game that was played by the rules.
LEMMA OpeningSound ==
  ASSUME NEW o \in Openings
  PROVE  GameSound(Chess!Replay(o.moves)[Len(o.moves)].board,
                   Chess!Replay(o.moves)[Len(o.moves)].moved,
                   Chess!Replay(o.moves)[Len(o.moves)].captured)
<1> DEFINE s == o.moves
           r == Chess!Replay(s)
           Sound(i) == GameSound(r[i].board, r[i].moved, r[i].captured)
<1>1. s \in Seq(Chess!Cells \X Chess!Cells)
  BY OpeningsAreGames
<1>2. \A i \in 1..Len(s) : Chess!is_valid_move(r[i - 1].board, r[i - 1].moved, s[i][1], s[i][2])
  BY OpeningsAreGames
<1>3. Len(s) \in Nat /\ \A i \in 1..Len(s) : s[i][1] \in Chess!Cells /\ s[i][2] \in Chess!Cells
  BY <1>1
<1>4. r[0] = Chess!New /\ \A i \in 1..Len(s) : r[i] = Chess!Moved(r[i - 1], s[i])
  BY <1>1, ReplaySteps
<1> HIDE DEF s, r
<1> DEFINE T == {n \in Nat : n <= Len(s) => Sound(n)}
<1>5. 0 \in T
  <2>1. r[0].board = Chess!init_board /\ r[0].moved = {} /\ r[0].captured = Chess!New.captured
    BY <1>4 DEF Chess!New
  <2>2. Sound(0)
    BY <2>1, NewGameSound, Zenon
  <2> HIDE DEF Sound
  <2> QED BY <2>2
<1>6. ASSUME NEW n \in Nat, n \in T PROVE n + 1 \in T
  <2> SUFFICES ASSUME n + 1 <= Len(s) PROVE Sound(n + 1)
    OBVIOUS
  <2> DEFINE i == n + 1
             g == r[n]
  <2>1. i \in 1..Len(s) /\ i - 1 = n /\ n <= Len(s)
    BY <1>3
  <2>2. Sound(n)
    BY <1>6, <2>1
  <2>3. Chess!is_valid_move(g.board, g.moved, s[i][1], s[i][2])
    BY <1>2, <2>1
  <2>4. r[i] = Chess!Moved(g, s[i]) /\ s[i][1] \in Chess!Cells /\ s[i][2] \in Chess!Cells
    BY <1>3, <1>4, <2>1
  <2> HIDE DEF i, g
  <2>5. GameSound(g.board, g.moved, g.captured)
    BY <2>2 DEF g
  <2>6. /\ r[i].board = Chess!BoardAfter(g.board, s[i][1], s[i][2])
        /\ r[i].moved = Chess!MovedAfter(g.moved, s[i][1])
        /\ r[i].captured = Chess!CapturedAfter(g.board, g.captured, s[i][2])
    BY <2>4 DEF Chess!Moved
  <2>7. GameSound(r[i].board, r[i].moved, r[i].captured)
    BY <2>3, <2>4, <2>5, <2>6, GameGoesOn
  <2> QED BY <2>7 DEF i
<1>7. \A n \in Nat : n \in T
  <2> HIDE DEF T
  <2> QED BY <1>5, <1>6, SetInduction
<1>8. Sound(Len(s))
  BY <1>3, <1>7
<1> QED BY <1>8 DEF r, s

-----------------------------------------------------------------------------
(* A look at the king.                                                     *)

\* The cells between two cells of a line are cells.
LEMMA BetweenCells ==
  ASSUME NEW f \in Chess!Cells, NEW t \in Chess!Cells, Chess!Straight(f, t) \/ Chess!Diagonal(f, t)
  PROVE  Chess!Between(f, t) \subseteq Chess!Cells
<1> DEFINE dr == Chess!Sign(t[1] - f[1])
           dc == Chess!Sign(t[2] - f[2])
           n == Chess!Largest(Chess!Distance(f[1], t[1]), Chess!Distance(f[2], t[2]))
<1>1. f[1] \in 0..7 /\ f[2] \in 0..7 /\ t[1] \in 0..7 /\ t[2] \in 0..7
  BY DEF Chess!Cells
<1>2. n \in 0..7
  BY <1>1 DEF Chess!Largest, Chess!Distance
<1>3. ASSUME NEW k \in 1 .. n - 1
      PROVE  f[1] + k * dr \in 0..7 /\ f[2] + k * dc \in 0..7
  <2>0. k \in Nat /\ 0 < k /\ k < n
    BY <1>2
  <2>1. dr \in {-1, 0, 1} /\ dc \in {-1, 0, 1}
    BY DEF Chess!Sign
  <2>2. k * dr = (IF dr = 1 THEN k ELSE IF dr = 0 THEN 0 ELSE -k)
    <3> HIDE DEF dr
    <3> QED BY <2>0, <2>1
  <2>3. k * dc = (IF dc = 1 THEN k ELSE IF dc = 0 THEN 0 ELSE -k)
    <3> HIDE DEF dc
    <3> QED BY <2>0, <2>1
  <2>4. /\ dr = (IF t[1] > f[1] THEN 1 ELSE IF t[1] < f[1] THEN -1 ELSE 0)
        /\ dc = (IF t[2] > f[2] THEN 1 ELSE IF t[2] < f[2] THEN -1 ELSE 0)
    BY <1>1 DEF Chess!Sign
  <2> DEFINE x == k * dr
             y == k * dc
  <2>5. /\ t[1] > f[1] => x = k
        /\ t[1] = f[1] => x = 0
        /\ t[1] < f[1] => x = -k
    BY <1>1, <2>2, <2>4
  <2>6. /\ t[2] > f[2] => y = k
        /\ t[2] = f[2] => y = 0
        /\ t[2] < f[2] => y = -k
    BY <1>1, <2>3, <2>4
  <2>7. CASE Chess!Straight(f, t)
    <3>1. /\ t[1] > f[1] => n = t[1] - f[1]
          /\ t[1] < f[1] => n = f[1] - t[1]
          /\ t[2] > f[2] => n = t[2] - f[2]
          /\ t[2] < f[2] => n = f[2] - t[2]
      BY <1>1, <2>7 DEF Chess!Straight, Chess!Largest, Chess!Distance
    <3> HIDE DEF x, y, n
    <3>2. f[1] + x \in 0..7 /\ f[2] + y \in 0..7
      BY <1>1, <2>0, <2>5, <2>6, <3>1
    <3> QED BY <3>2 DEF x, y
  <2>8. CASE Chess!Diagonal(f, t)
    <3>1. /\ t[1] > f[1] => n = t[1] - f[1]
          /\ t[1] < f[1] => n = f[1] - t[1]
          /\ t[2] > f[2] => n = t[2] - f[2]
          /\ t[2] < f[2] => n = f[2] - t[2]
      BY <1>1, <2>8 DEF Chess!Diagonal, Chess!Largest, Chess!Distance
    <3> HIDE DEF x, y, n
    <3>2. f[1] + x \in 0..7 /\ f[2] + y \in 0..7
      BY <1>1, <2>0, <2>5, <2>6, <3>1
    <3> QED BY <3>2 DEF x, y
  <2> QED BY <2>7, <2>8
<1>4. Chess!Between(f, t) = {<<f[1] + k * dr, f[2] + k * dc>> : k \in 1 .. n - 1}
  BY Zenon DEF Chess!Between
<1> HIDE DEF n, dr, dc
<1> QED BY <1>3, <1>4 DEF Chess!Cells

\* What a piece reaches depends on it and on which cells are empty.
SameWay(b, c, s) == b[s] = c[s] /\ \A e \in Chess!Cells : b[e] = "." <=> c[e] = "."

\* What one piece reaches depends on where the others stand only.
LEMMA SameReach ==
  ASSUME NEW b, NEW c, NEW s \in Chess!Cells, SameWay(b, c, s), NEW k \in Chess!Cells
  PROVE  Chess!can_reach(b, s, k) <=> Chess!can_reach(c, s, k)
<1>1. b[s] = c[s]
  BY DEF SameWay
<1>2. ASSUME Chess!Straight(s, k) \/ Chess!Diagonal(s, k)
      PROVE  Chess!is_path_clear(b, s, k) <=> Chess!is_path_clear(c, s, k)
  BY <1>2, BetweenCells DEF Chess!is_path_clear, SameWay
<1>3. Chess!Reaches(b, s, k) <=> Chess!Reaches(c, s, k)
  BY <1>1, <1>2, Zenon DEF Chess!Reaches
<1> QED BY <1>1, <1>3, Zenon DEF Chess!can_reach

\* A pawn that becomes a queen covers its own king as well as the pawn did, so that
\* a move that was found safe is safe.
LEMMA MoveIsSafe ==
  ASSUME NEW b \in Boards, NEW f \in Chess!Cells, NEW t \in Chess!Cells, f # t, b[f] # ".",
         NEW white \in BOOLEAN, white <=> b[f] \in Chess!White,
         ~Chess!is_in_check(Chess!Moving(b, f, t), white)
  PROVE  ~Chess!is_in_check(Half(b, f, t), white)
<1> DEFINE a == Chess!Moving(b, f, t)
           h == Half(b, f, t)
           own == IF white THEN Chess!White ELSE Chess!Black
           king == IF white THEN "K" ELSE "k"
<1>1. /\ a[f] = "." /\ a[t] = b[f] /\ \A s \in Chess!Cells \ {f, t} : a[s] = b[s]
  BY DEF Chess!Moving, Boards
<1>2. /\ h[f] = "." /\ h[t] = Chess!Promoted(b[f], t)
      /\ \A s \in Chess!Cells \ {f, t} : h[s] = b[s]
  BY HalfFacts
<1>3. b[f] \in own /\ b[f] \in Chess!White \cup Chess!Black
  BY ColourFacts DEF Boards
<1>4. h[t] \in own /\ (h[t] = king <=> a[t] = king) /\ (b[f] \notin {"P", "p"} => h[t] = b[f])
  <2>1. own \in Colours
    BY DEF Colours
  <2>2. h[t] \in own
    BY <1>2, <1>3, <2>1, PromotedFacts
  <2>3. b[f] \notin {"P", "p"} => h[t] = b[f]
    BY <1>2, <1>3, PromotedFacts
  <2>4. b[f] \in {"P", "p"} => h[t] \in {"P", "p", "Q", "q"}
    BY <1>2 DEF Chess!Promoted
  <2> QED BY <1>1, <2>2, <2>3, <2>4
<1>5. PICK k \in Chess!Cells : /\ a[k] = king
        /\ \A s \in Chess!Cells : Chess!is_own(a[s], ~white) => ~Chess!can_reach(a, s, k)
  BY DEF Chess!is_in_check
<1>6. h[k] = king
  <2>1. k # f
    BY <1>1, <1>5
  <2>2. CASE k = t
    BY <1>4, <1>5, <2>2
  <2>3. CASE k # t
    BY <1>1, <1>2, <1>5, <2>1, <2>3
  <2> QED BY <2>2, <2>3
<1>7. ASSUME NEW s \in Chess!Cells, Chess!is_own(h[s], ~white)
      PROVE  ~Chess!can_reach(h, s, k)
  <2>1. s # t /\ s # f
    BY <1>2, <1>4, <1>7, ColourFacts DEF Chess!is_own
  <2>2. h[s] = a[s]
    BY <1>1, <1>2, <2>1
  <2>3. SameWay(a, h, s)
    <3>1. h[t] # "." /\ a[t] # "."
      BY <1>1, <1>3, <1>4, ColourFacts
    <3> HIDE DEF a, h
    <3> QED BY <1>1, <1>2, <2>2, <3>1 DEF SameWay
  <2>4. ~Chess!can_reach(a, s, k)
    BY <1>5, <1>7, <2>2
  <2> HIDE DEF a, h
  <2> QED BY <2>3, <2>4, SameReach
<1> HIDE DEF a, h
<1>8. ~Chess!is_in_check(h, white)
  BY <1>6, <1>7, Zenon DEF Chess!is_in_check
<1> QED BY <1>8 DEF h

-----------------------------------------------------------------------------
(* The task.                                                               *)

\* The switches of the window.
Switches ==
  /\ white_turn \in BOOLEAN /\ game_over \in BOOLEAN /\ copilot_thinking \in BOOLEAN
  /\ stale \in BOOLEAN

\* A timer that is the last one allowed is that of a thought: the user may not move.
Clocks ==
  /\ copilot_timers \in 0 .. MaxTimers /\ moves \in Nat
  /\ moves + copilot_timers <= MaxMoves + MaxTimers
  /\ copilot_timers = MaxTimers => copilot_thinking = TRUE

Picked == sel \in Chess!Cells \cup {Chess!None} /\ mode \in {"none", "white", "black"}

ChessInv ==
  GameSound(board, moved, captured) /\ Switches /\ Clocks /\ Picked /\ Chess!ThinksOnItsTurn

\* Every opening leads to a sound game.
LEMMA ChessStarts ==
  ASSUME Chess!Init
  PROVE  ChessInv
<1>1. PICK o \in Openings :
        /\ board = Chess!Replay(o.moves)[Len(o.moves)].board
        /\ moved = Chess!Replay(o.moves)[Len(o.moves)].moved
        /\ captured = Chess!Replay(o.moves)[Len(o.moves)].captured
        /\ white_turn = (Len(o.moves) % 2 = 0)
        /\ sel = Chess!None /\ game_over = FALSE /\ mode = o.mode /\ moves = 0 /\ stale = FALSE
        /\ copilot_thinking = Chess!CopilotPlays(white_turn)
        /\ copilot_timers = IF copilot_thinking THEN 1 ELSE 0
  BY Zenon DEF Chess!Init
<1>2. GameSound(board, moved, captured)
  BY <1>1, OpeningSound
<1>3. Switches
  BY <1>1, Zenon DEF Switches, Chess!CopilotPlays
<1>4. Picked
  BY <1>1, OpeningsAreGames DEF Picked
<1>5. Clocks
  <2>1. moves = 0 /\ copilot_timers = (IF copilot_thinking = TRUE THEN 1 ELSE 0)
    BY <1>1
  <2> QED BY <2>1, BoundsAreNumbers DEF Clocks
<1>6. Chess!ThinksOnItsTurn
  BY <1>1, <1>3, Zenon DEF Chess!ThinksOnItsTurn, Switches
<1> QED BY <1>2, <1>3, <1>4, <1>5, <1>6 DEF ChessInv

\* A move by the rules.
LEMMA MakeKeeps ==
  ASSUME GameSound(board, moved, captured), white_turn \in BOOLEAN, moves \in Nat,
         NEW f \in Chess!Cells, NEW t \in Chess!Cells, Chess!is_valid_move(board, moved, f, t),
         Chess!Make(f, t)
  PROVE  /\ GameSound(board', moved', captured')
         /\ white_turn' = ~white_turn /\ game_over' \in BOOLEAN /\ moves' = moves + 1
<1>1. /\ board' = Chess!BoardAfter(board, f, t) /\ moved' = Chess!MovedAfter(moved, f)
      /\ captured' = Chess!CapturedAfter(board, captured, t)
      /\ white_turn' = ~white_turn /\ moves' = moves + 1
      /\ game_over' = ~Chess!has_any_legal_move(board', moved', white_turn')
  BY Zenon DEF Chess!Make
<1>2. GameSound(board', moved', captured')
  BY <1>1, GameGoesOn
<1>3. game_over' \in BOOLEAN
  BY <1>1, Zenon
<1> QED BY <1>1, <1>2, <1>3

\* The moves that are made: the user's by a click, the Copilot's by a timer.
LEMMA MovesMade ==
  ASSUME ChessInv,
         (\E s \in Clickable : Chess!ClickToMove(s)) \/ Chess!TimerMoves
  PROVE  \E f, t \in Chess!Cells :
           /\ Chess!is_valid_move(board, moved, f, t) /\ Chess!Make(f, t)
<1>1. ASSUME NEW s \in Clickable, Chess!ClickToMove(s)
      PROVE  \E f, t \in Chess!Cells :
               /\ Chess!is_valid_move(board, moved, f, t) /\ Chess!Make(f, t)
  <2>1. sel # Chess!None /\ Chess!is_valid_move(board, moved, sel, s) /\ Chess!Make(sel, s)
    BY <1>1, Zenon DEF Chess!ClickToMove
  <2>2. sel \in Chess!Cells /\ s \in Chess!Cells
    BY <2>1, OpeningsAreGames, Zenon DEF ChessInv, Picked
  <2> QED BY <2>1, <2>2, Zenon
<1>2. ASSUME Chess!TimerMoves
      PROVE  \E f, t \in Chess!Cells :
               /\ Chess!is_valid_move(board, moved, f, t) /\ Chess!Make(f, t)
  <2>1. PICK m \in Chess!LegalMoves(board, moved, white_turn) : Chess!Make(m[1], m[2])
    BY <1>2, Zenon DEF Chess!TimerMoves
  <2>2. /\ m[1] \in Chess!Cells /\ m[2] \in Chess!Cells
        /\ Chess!is_valid_move(board, moved, m[1], m[2])
    BY <2>1 DEF Chess!LegalMoves
  <2> QED BY <2>1, <2>2, Zenon
<1> QED BY <1>1, <1>2

\* Every step keeps the invariant.
LEMMA ChessSteps ==
  ASSUME ChessInv, Chess!Next
  PROVE  ChessInv'
<1>1. /\ GameSound(board, moved, captured) /\ Switches /\ Clocks /\ Picked
      /\ Chess!ThinksOnItsTurn
      /\ white_turn \in BOOLEAN /\ copilot_thinking \in BOOLEAN /\ moves \in Nat
  BY Zenon DEF ChessInv, Switches, Clocks
<1>2. ASSUME NEW s \in Clickable, Chess!ClickToSelect(s)
      PROVE  ChessInv'
  <2>1. /\ board' = board /\ white_turn' = white_turn /\ moved' = moved /\ captured' = captured
        /\ moves' = moves /\ game_over' = game_over /\ mode' = mode
        /\ copilot_thinking' = copilot_thinking /\ copilot_timers' = copilot_timers
        /\ stale' = stale /\ sel' \in {s, Chess!None}
    BY <1>2, Zenon DEF Chess!ClickToSelect, Chess!game
  <2>2. sel' \in Chess!Cells \cup {Chess!None}
    BY <2>1, OpeningsAreGames
  <2>3. GameSound(board, moved, captured)' /\ Switches'
    BY <1>1, <2>1, Zenon DEF Switches
  <2>4. Clocks'
    BY <1>1, <2>1, Zenon DEF Clocks
  <2>5. Picked'
    BY <1>1, <2>1, <2>2, Zenon DEF Picked
  <2>6. Chess!ThinksOnItsTurn'
    BY <1>1, <2>1, Zenon DEF Chess!ThinksOnItsTurn, Chess!CopilotPlays
  <2> QED BY <2>3, <2>4, <2>5, <2>6 DEF ChessInv
<1>3. ASSUME NEW s \in Clickable, Chess!ClickToMove(s)
      PROVE  ChessInv'
  <2>1. /\ ~copilot_thinking /\ moves < MaxMoves /\ sel' = Chess!None /\ mode' = mode /\ stale' = stale
        /\ copilot_thinking' = (~game_over' /\ Chess!CopilotPlays(white_turn'))
        /\ copilot_timers' = IF copilot_thinking' THEN copilot_timers + 1 ELSE copilot_timers
    BY <1>3, Zenon DEF Chess!ClickToMove, Chess!UserMay
  <2>2. PICK f \in Chess!Cells, t \in Chess!Cells :
          Chess!is_valid_move(board, moved, f, t) /\ Chess!Make(f, t)
    BY <1>3, MovesMade
  <2>3. /\ GameSound(board', moved', captured')
        /\ white_turn' = ~white_turn /\ game_over' \in BOOLEAN /\ moves' = moves + 1
    BY <1>1, <2>2, MakeKeeps
  <2>4. white_turn' \in BOOLEAN /\ copilot_thinking' \in BOOLEAN
    BY <2>1, <2>3, Zenon
  <2>5. Switches'
    BY <1>1, <2>1, <2>3, <2>4, Zenon DEF Switches
  <2>6. Picked'
    BY <1>1, <2>1 DEF Picked
  <2>7. copilot_thinking = FALSE
    BY <1>1, <2>1
  <2>8. copilot_timers' = (IF copilot_thinking' = TRUE THEN copilot_timers + 1 ELSE copilot_timers)
    BY <2>1, <2>4
  <2>9. Clocks'
    <3>1. copilot_timers # MaxTimers
      BY <1>1, <2>7 DEF Clocks
    <3> QED BY <1>1, <2>1, <2>3, <2>8, <3>1, BoundsAreNumbers DEF Clocks
  <2>10. Chess!ThinksOnItsTurn'
    <3>1. ASSUME ~stale'
          PROVE  copilot_timers' = IF copilot_thinking' THEN 1 ELSE 0
      <4>1. copilot_timers = 0
        BY <1>1, <2>1, <3>1, Zenon DEF Chess!ThinksOnItsTurn
      <4> QED BY <2>1, <4>1
    <3> QED BY <2>1, <3>1, Zenon DEF Chess!ThinksOnItsTurn, Chess!CopilotPlays
  <2> QED BY <2>3, <2>5, <2>6, <2>9, <2>10, Zenon DEF ChessInv
<1>4. ASSUME Chess!TimerMoves
      PROVE  ChessInv'
  <2>1. /\ copilot_timers > 0 /\ ~game_over /\ sel' = sel /\ mode' = mode /\ stale' = stale
        /\ copilot_timers' = copilot_timers - 1 /\ copilot_thinking' = FALSE
    BY <1>4, Zenon DEF Chess!TimerMoves
  <2>2. PICK f \in Chess!Cells, t \in Chess!Cells :
          Chess!is_valid_move(board, moved, f, t) /\ Chess!Make(f, t)
    BY <1>4, MovesMade
  <2>3. /\ GameSound(board', moved', captured')
        /\ white_turn' = ~white_turn /\ game_over' \in BOOLEAN /\ moves' = moves + 1
    BY <1>1, <2>2, MakeKeeps
  <2>4. white_turn' \in BOOLEAN
    BY <2>3, Zenon
  <2>5. Switches'
    BY <1>1, <2>1, <2>3, <2>4, Zenon DEF Switches
  <2>6. Picked'
    BY <1>1, <2>1, Zenon DEF Picked
  <2>7. Clocks'
    BY <1>1, <2>1, <2>3, BoundsAreNumbers DEF Clocks
  <2>8. Chess!ThinksOnItsTurn'
    <3>1. ASSUME ~stale'
          PROVE  copilot_timers' = 0 /\ ~Chess!CopilotPlays(white_turn)'
      <4>1. copilot_timers # 0
        BY <1>1, <2>1 DEF Clocks
      <4>2. /\ copilot_thinking <=> ~game_over /\ Chess!CopilotPlays(white_turn)
            /\ copilot_timers = IF copilot_thinking THEN 1 ELSE 0
        BY <1>1, <2>1, <3>1, Zenon DEF Chess!ThinksOnItsTurn
      <4>3. copilot_timers = 1 /\ Chess!CopilotPlays(white_turn)
        BY <4>1, <4>2, Zenon
      <4>4. mode = IF white_turn THEN "white" ELSE "black"
        BY <4>3, Zenon DEF Chess!CopilotPlays
      <4>5. ~(mode' = IF white_turn' THEN "white" ELSE "black")
        BY <1>1, <2>1, <2>3, <4>4
      <4>6. ~Chess!CopilotPlays(white_turn)'
        BY <4>5, Zenon DEF Chess!CopilotPlays
      <4> QED BY <2>1, <4>3, <4>6
    <3> QED BY <2>1, <3>1, Zenon DEF Chess!ThinksOnItsTurn
  <2> QED BY <2>3, <2>5, <2>6, <2>7, <2>8, Zenon DEF ChessInv
<1>5. ASSUME Chess!TimerAfterEnd
      PROVE  ChessInv'
  <2>1. /\ board' = board /\ white_turn' = white_turn /\ moved' = moved /\ captured' = captured
        /\ moves' = moves /\ game_over' = game_over /\ mode' = mode /\ sel' = sel /\ stale' = stale
        /\ copilot_timers > 0 /\ game_over
        /\ copilot_timers' = copilot_timers - 1 /\ copilot_thinking' = FALSE
    BY <1>5, Zenon DEF Chess!TimerAfterEnd, Chess!game
  <2>2. GameSound(board, moved, captured)' /\ Switches' /\ Picked'
    BY <1>1, <2>1, Zenon DEF Switches, Picked
  <2>3. Clocks'
    BY <1>1, <2>1, BoundsAreNumbers DEF Clocks
  <2>4. Chess!ThinksOnItsTurn'
    <3>1. copilot_timers # 0
      BY <1>1, <2>1 DEF Clocks
    <3>2. stale
      BY <1>1, <2>1, <3>1, Zenon DEF Chess!ThinksOnItsTurn
    <3> QED BY <2>1, <3>2, Zenon DEF Chess!ThinksOnItsTurn
  <2> QED BY <2>2, <2>3, <2>4 DEF ChessInv
<1>6. ASSUME NEW m \in {"none", "white", "black"}, Chess!NewGame(m)
      PROVE  ChessInv'
  <2>1. /\ copilot_timers < MaxTimers /\ board' = Chess!init_board /\ white_turn' = TRUE
        /\ sel' = Chess!None /\ game_over' = FALSE /\ moved' = {}
        /\ captured' = Chess!New.captured /\ moves' = 0 /\ mode' = m
        /\ copilot_thinking' = (m = "white")
        /\ copilot_timers' = IF m = "white" THEN copilot_timers + 1 ELSE copilot_timers
        /\ stale' = (stale \/ copilot_timers > 0)
    BY <1>6, Zenon DEF Chess!NewGame
  <2>2. GameSound(board, moved, captured)'
    BY <2>1, NewGameSound
  <2>3. Switches'
    BY <2>1, Zenon DEF Switches
  <2>4. Picked'
    BY <2>1, Zenon DEF Picked
  <2>5. Clocks'
    <3>1. moves' = 0 /\ copilot_timers < MaxTimers
          /\ copilot_timers' = (IF m = "white" THEN copilot_timers + 1 ELSE copilot_timers)
      BY <2>1
    <3>2. m = "white" => copilot_thinking' = TRUE
      BY <2>1, Zenon
    <3> QED BY <1>1, <3>1, <3>2, BoundsAreNumbers DEF Clocks
  <2>6. Chess!ThinksOnItsTurn'
    <3>1. ASSUME ~stale'
          PROVE  copilot_timers = 0
      <4>1. ~(copilot_timers > 0)
        BY <2>1, <3>1, Zenon
      <4> QED BY <1>1, <4>1 DEF Clocks
    <3>2. Chess!CopilotPlays(white_turn)' <=> m = "white"
      BY <2>1, Zenon DEF Chess!CopilotPlays
    <3>3. ASSUME ~stale'
          PROVE  copilot_timers' = IF copilot_thinking' THEN 1 ELSE 0
      <4>1. CASE m = "white"
        <5>1. copilot_thinking' = TRUE
          BY <2>1, <4>1, Zenon
        <5>2. copilot_timers' = 1
          BY <2>1, <3>1, <3>3, <4>1
        <5> QED BY <5>1, <5>2
      <4>2. CASE m # "white"
        <5>1. copilot_thinking' = FALSE
          BY <2>1, <4>2, Zenon
        <5>2. copilot_timers' = 0
          BY <2>1, <3>1, <3>3, <4>2
        <5> QED BY <5>1, <5>2
      <4> QED BY <4>1, <4>2
    <3> QED BY <2>1, <3>2, <3>3, Zenon DEF Chess!ThinksOnItsTurn
  <2> QED BY <2>2, <2>3, <2>4, <2>5, <2>6 DEF ChessInv
<1> QED BY <1>2, <1>3, <1>4, <1>5, <1>6, Zenon DEF Chess!Next

\* What the invariant says of the task.
LEMMA ChessIsInOrder ==
  ASSUME ChessInv
  PROVE  Chess!TypeOK /\ Chess!MaterialKept /\ Chess!ThinksOnItsTurn
<1>1. /\ board \in Boards /\ moved \subseteq Homes /\ captured \in Counts
      /\ AllCounted(board, captured)
  BY DEF ChessInv, GameSound
<1>2. /\ Chess!Pieces(Chess!White) = Cardinality(Standing(board, Chess!White))
      /\ Chess!Pieces(Chess!Black) = Cardinality(Standing(board, Chess!Black))
  BY CellsOfChess DEF Chess!Pieces, Standing
<1>3. Chess!MaterialKept
  BY <1>1, <1>2 DEF AllCounted, Chess!MaterialKept
<1>4. captured \in [white : 0..16, black : 0..16]
  <2>1. /\ Cardinality(Standing(board, Chess!White)) \in Nat
        /\ Cardinality(Standing(board, Chess!Black)) \in Nat
    BY StandingFacts
  <2>2. captured.white \in 0..16 /\ captured.black \in 0..16
    BY <1>1, <2>1 DEF AllCounted, Counts
  <2> QED BY <1>1, <2>2 DEF Counts
<1>5. copilot_timers \in 0 .. MaxTimers /\ moves \in 0 .. MaxMoves + MaxTimers
  BY BoundsAreNumbers DEF ChessInv, Clocks
<1>6. /\ white_turn \in BOOLEAN /\ game_over \in BOOLEAN /\ copilot_thinking \in BOOLEAN
      /\ stale \in BOOLEAN /\ sel \in Chess!Cells \cup {Chess!None}
      /\ mode \in {"none", "white", "black"}
  BY Zenon DEF ChessInv, Switches, Picked
<1>7. Chess!TypeOK
  BY <1>1, <1>4, <1>5, <1>6, Zenon DEF Chess!TypeOK, Boards, Homes
<1> QED BY <1>3, <1>7, Zenon DEF ChessInv

\* No move but castling leaves the king in check.
LEMMA MovesAreSafe ==
  ASSUME ChessInv, Chess!Next
  PROVE  Chess!NoMoveIntoCheck
<1>1. board \in Boards /\ moves \in Nat
  BY Zenon DEF ChessInv, GameSound, Clocks
<1> SUFFICES ASSUME moves' = moves + 1, ~Chess!Castled, NEW a \in Chess!Left
             PROVE  ~Chess!is_in_check(board', board[a] \in Chess!White)
  BY Zenon DEF Chess!NoMoveIntoCheck, Chess!EveryMoveIsCheckSafe
<1>2. (\E s \in Clickable : Chess!ClickToMove(s)) \/ Chess!TimerMoves
  <2>1. moves' # moves /\ moves' # 0
    BY <1>1
  <2>2. ASSUME NEW s \in Clickable, Chess!ClickToSelect(s) PROVE moves' = moves
    BY <2>2, Zenon DEF Chess!ClickToSelect, Chess!game
  <2>3. ASSUME Chess!TimerAfterEnd PROVE moves' = moves
    BY <2>3, Zenon DEF Chess!TimerAfterEnd, Chess!game
  <2>4. ASSUME NEW m \in {"none", "white", "black"}, Chess!NewGame(m) PROVE moves' = 0
    BY <2>4, Zenon DEF Chess!NewGame
  <2> QED BY <2>1, <2>2, <2>3, <2>4, Zenon DEF Chess!Next
<1>3. PICK f \in Chess!Cells, t \in Chess!Cells :
        Chess!is_valid_move(board, moved, f, t) /\ Chess!Make(f, t)
  BY <1>2, MovesMade
<1>4. /\ f # t /\ board[f] # "." /\ board' = Chess!BoardAfter(board, f, t)
      /\ Chess!Castling(board, f, t) => Chess!can_castle(board, moved, f, t)
      /\ ~Chess!Castling(board, f, t) =>
           ~Chess!is_in_check(Chess!Moving(board, f, t), board[f] \in Chess!White)
  BY <1>3, Zenon DEF Chess!is_valid_move, Chess!Make
<1> DEFINE h == Half(board, f, t)
<1>5. /\ h \in Boards /\ h[f] = "." /\ h[t] = Chess!Promoted(board[f], t)
      /\ \A s \in Chess!Cells \ {f, t} : h[s] = board[s]
  BY <1>1, <1>4, HalfFacts
<1>6. board[f] \in Chess!White \cup Chess!Black
  BY <1>1, <1>4 DEF Boards
<1>7. ~Chess!Castling(board, f, t)
  <2> SUFFICES ASSUME Chess!Castling(board, f, t) PROVE Chess!Castled
    OBVIOUS
  <2> DEFINE r0 == Chess!RookFrom(t)
             r1 == Chess!RookTo(t)
  <2>1. /\ r0 \in Chess!Cells \ {f, t} /\ r1 \in Chess!Cells \ {f, t} /\ r0 # r1
        /\ board[f] \in {"K", "k"}
    BY <1>1, <1>4, CastlingFacts
  <2>2. board' = [h EXCEPT ![r1] = board[r0], ![r0] = "."]
    BY <1>4 DEF Chess!BoardAfter, Half
  <2>3. h[t] = board[f]
    BY <1>5, <2>1 DEF Chess!Promoted
  <2> HIDE DEF h, r0, r1
  <2>4. board'[t] = board[f] /\ board'[f] = "."
    BY <1>5, <2>1, <2>2, <2>3 DEF Boards
  <2>5. f \in Chess!Left
    BY <1>4, <2>4 DEF Chess!Left
  <2> QED BY <2>4, <2>5, Zenon DEF Chess!Castled
<1>8. board' = h
  BY <1>4, <1>7 DEF Chess!BoardAfter, Half
<1>9. a = f
  <2>1. a \in Chess!Cells /\ board[a] # "." /\ h[a] = "."
    BY <1>8 DEF Chess!Left
  <2>2. h[t] # "."
    BY <1>5, <1>6, PromotedFacts, ColourFacts
  <2> HIDE DEF h
  <2> QED BY <1>5, <2>1, <2>2
<1> DEFINE white == board[f] \in Chess!White
<1>10. ~Chess!is_in_check(Chess!Moving(board, f, t), white)
  BY <1>4, <1>7
<1>b. white \in BOOLEAN
  OBVIOUS
<1>11. white <=> board[f] \in Chess!White
  OBVIOUS
<1> HIDE DEF white
<1>12. ~Chess!is_in_check(h, white)
  BY <1>1, <1>4, <1>10, <1>11, <1>b, MoveIsSafe
<1> QED BY <1>8, <1>9, <1>12 DEF white

-----------------------------------------------------------------------------
(* Flappy bird.                                                            *)

\* What a pipe is.
Pipe == [x : Int, gap_y : Gaps]

\* How many of the first n pipes the bird has passed, and of all.
PassedOf(s, n) == Cardinality({i \in 1 .. n : FlappyBird!PassedBy(s[i])})
Passed(s) == PassedOf(s, Len(s))

\* Each pipe comes more than the spacing after the one before it.
Spaced(s) == \A i, j \in 1 .. Len(s) : i < j => s[j].x - s[i].x > SPACING

\* The count goes up by the next pipe, when that one is passed.
LEMMA PassedFacts ==
  ASSUME NEW s, NEW n \in Nat
  PROVE  /\ IsFiniteSet({i \in 1 .. n : FlappyBird!PassedBy(s[i])})
         /\ PassedOf(s, n) \in Nat /\ PassedOf(s, 0) = 0
         /\ PassedOf(s, n + 1) = PassedOf(s, n) + (IF FlappyBird!PassedBy(s[n + 1]) THEN 1 ELSE 0)
<1> DEFINE A(k) == {i \in 1 .. k : FlappyBird!PassedBy(s[i])}
<1>1. \A k \in Nat : IsFiniteSet(1 .. k)
  BY FS_Interval
<1>2. IsFiniteSet(A(n))
  <2>1. A(n) \subseteq 1 .. n
    OBVIOUS
  <2> HIDE DEF A
  <2> QED BY <1>1, <2>1, FS_Subset
<1>3. Cardinality(A(n)) \in Nat
  <2> HIDE DEF A
  <2> QED BY <1>2, FS_CardinalityType
<1>4. A(0) = {} /\ Cardinality({}) = 0
  BY FS_EmptySet
<1>5. CASE FlappyBird!PassedBy(s[n + 1])
  <2>1. A(n + 1) = A(n) \cup {n + 1} /\ n + 1 \notin A(n)
    BY <1>5
  <2>2. Cardinality(A(n + 1)) = Cardinality(A(n)) + 1
    <3> HIDE DEF A
    <3> QED BY <1>2, <2>1, FS_AddElement
  <2> QED BY <1>2, <1>3, <1>4, <1>5, <2>2 DEF PassedOf
<1>6. CASE ~FlappyBird!PassedBy(s[n + 1])
  <2>1. A(n + 1) = A(n)
    BY <1>6
  <2> QED BY <1>2, <1>3, <1>4, <1>6, <2>1 DEF PassedOf
<1> QED BY <1>5, <1>6

\* The count looks at the pipes only.
LEMMA SamePassed ==
  ASSUME NEW s, NEW t, NEW n \in Nat,
         \A i \in 1 .. n : FlappyBird!PassedBy(s[i]) <=> FlappyBird!PassedBy(t[i])
  PROVE  PassedOf(s, n) = PassedOf(t, n)
<1>1. {i \in 1 .. n : FlappyBird!PassedBy(s[i])} = {i \in 1 .. n : FlappyBird!PassedBy(t[i])}
  OBVIOUS
<1> QED BY <1>1, Zenon DEF PassedOf

\* One pipe more.
LEMMA PassedAppend ==
  ASSUME NEW s \in Seq(Pipe), NEW p \in Pipe
  PROVE  /\ Append(s, p) \in Seq(Pipe) /\ Len(Append(s, p)) = Len(s) + 1 /\ Len(s) \in Nat
         /\ \A i \in 1 .. Len(s) : Append(s, p)[i] = s[i]
         /\ Append(s, p)[Len(s) + 1] = p
         /\ Passed(Append(s, p)) = Passed(s) + (IF FlappyBird!PassedBy(p) THEN 1 ELSE 0)
<1> DEFINE a == Append(s, p)
           n == Len(s)
<1>1. /\ a \in Seq(Pipe) /\ Len(a) = n + 1 /\ n \in Nat
      /\ \A i \in 1 .. n : a[i] = s[i]
      /\ a[n + 1] = p
  OBVIOUS
<1> HIDE DEF a, n
<1>2. PassedOf(a, n) = PassedOf(s, n)
  BY <1>1, SamePassed
<1>3. PassedOf(a, n + 1) = PassedOf(a, n) + (IF FlappyBird!PassedBy(a[n + 1]) THEN 1 ELSE 0)
  BY <1>1, PassedFacts
<1>4. Passed(a) = Passed(s) + (IF FlappyBird!PassedBy(p) THEN 1 ELSE 0)
  BY <1>1, <1>2, <1>3, Zenon DEF Passed, n
<1> QED BY <1>1, <1>4 DEF a, n

-----------------------------------------------------------------------------
(* The pipes that are erased.                                              *)

\* What is left of the first n pipes.
Left(k, s, n) ==
  IF n = 0 THEN <<>>
  ELSE IF s[n].x + PIPE_W >= -1 THEN Append(k[n - 1], s[n]) ELSE k[n - 1]

\* The loop comes to its end.
LEMMA LeftExists ==
  ASSUME NEW s \in Seq(Pipe)
  PROVE  \E k : k = [n \in 0 .. Len(s) |-> Left(k, s, n)]
<1> DEFINE Good(k, m) == \A n \in 0 .. m : k[n] = Left(k, s, n)
           T == {m \in Nat : \E k : k = [n \in Nat |-> k[n]] /\ Good(k, m)}
<1>1. 0 \in T
  <2> DEFINE k == [n \in Nat |-> <<>>]
  <2>1. k = [n \in Nat |-> k[n]] /\ Good(k, 0)
    BY DEF Left
  <2> HIDE DEF k, Good
  <2> QED BY <2>1
<1>2. ASSUME NEW m \in Nat, m \in T PROVE m + 1 \in T
  <2>1. PICK k : k = [n \in Nat |-> k[n]] /\ Good(k, m)
    BY <1>2
  <2> DEFINE l == [n \in Nat |-> IF n = m + 1 THEN Left(k, s, m + 1) ELSE k[n]]
  <2>2. l = [n \in Nat |-> l[n]]
    OBVIOUS
  <2>3. \A n \in 0 .. m : l[n] = k[n]
    OBVIOUS
  <2>4. l[m + 1] = Left(k, s, m + 1)
    OBVIOUS
  <2> HIDE DEF l
  <2>5. ASSUME NEW n \in 0 .. m + 1 PROVE l[n] = Left(l, s, n)
    <3>1. n # 0 => l[n - 1] = k[n - 1]
      BY <2>3
    <3>2. Left(l, s, n) = Left(k, s, n)
      BY <3>1, Zenon DEF Left
    <3>3. CASE n = m + 1
      BY <2>4, <3>2, <3>3
    <3>4. CASE n # m + 1
      <4>1. n \in 0 .. m
        BY <3>4
      <4>2. l[n] = k[n] /\ k[n] = Left(k, s, n)
        BY <2>1, <2>3, <4>1
      <4> QED BY <3>2, <4>2, Zenon
    <3> QED BY <3>3, <3>4
  <2>6. Good(l, m + 1)
    BY <2>5
  <2> HIDE DEF Good
  <2>7. m + 1 \in Nat /\ (\E g : g = [n \in Nat |-> g[n]] /\ Good(g, m + 1))
    BY <2>2, <2>6
  <2> QED BY <2>7
<1>3. \A m \in Nat : m \in T
  <2> HIDE DEF T
  <2> QED BY <1>1, <1>2, SetInduction
<1>4. PICK k : Good(k, Len(s))
  <2>1. Len(s) \in Nat
    OBVIOUS
  <2> HIDE DEF Good
  <2> QED BY <1>3, <2>1
<1> DEFINE g == [n \in 0 .. Len(s) |-> k[n]]
<1>5. ASSUME NEW n \in 0 .. Len(s) PROVE g[n] = Left(g, s, n)
  <2>1. n # 0 => g[n - 1] = k[n - 1]
    <3>1. n # 0 => n - 1 \in 0 .. Len(s)
      OBVIOUS
    <3> QED BY <3>1
  <2> HIDE DEF g
  <2>2. Left(g, s, n) = Left(k, s, n)
    BY <2>1, Zenon DEF Left
  <2>3. k[n] = Left(k, s, n)
    BY <1>4
  <2> QED BY <2>2, <2>3 DEF g
<1>6. g = [n \in 0 .. Len(s) |-> g[n]]
  OBVIOUS
<1> HIDE DEF g
<1>7. g = [n \in 0 .. Len(s) |-> Left(g, s, n)]
  BY <1>5, <1>6, Zenon
<1> QED BY <1>7

\* Only pipes that are passed are erased; the others keep their order.
LEMMA OnScreenFacts ==
  ASSUME NEW s \in Seq(Pipe)
  PROVE  LET o == FlappyBird!OnScreen(s)
         IN  /\ o \in Seq(Pipe) /\ Len(o) \in 0 .. Len(s)
             /\ Len(s) - Len(o) + Passed(o) = Passed(s)
             /\ \A j \in 1 .. Len(o) : \E i \in 1 .. Len(s) : o[j] = s[i]
             /\ Spaced(s) => Spaced(o)
<1> DEFINE P(k) == k = [n \in 0 .. Len(s) |-> Left(k, s, n)]
           k == CHOOSE g : P(g)
<1>1. FlappyBird!OnScreen(s) = k[Len(s)]
  BY Zenon DEF FlappyBird!OnScreen, Left
<1>2. \E g : P(g)
  BY LeftExists
<1>3. P(k)
  <2> HIDE DEF P
  <2> QED BY <1>2
<1>4. \A n \in 0 .. Len(s) : k[n] = Left(k, s, n)
  BY <1>3
<1> HIDE DEF k
<1> DEFINE Fine(n) ==
             /\ k[n] \in Seq(Pipe) /\ Len(k[n]) \in 0 .. n
             /\ n - Len(k[n]) + Passed(k[n]) = PassedOf(s, n)
             /\ \A j \in 1 .. Len(k[n]) : \E i \in 1 .. n : k[n][j] = s[i]
             /\ Spaced(s) => Spaced(k[n])
           T == {n \in Nat : n <= Len(s) => Fine(n)}
<1>s. Len(s) \in Nat /\ \A i \in 1 .. Len(s) : s[i] \in Pipe
  OBVIOUS
<1>5. 0 \in T
  <2>1. k[0] = <<>>
    BY <1>4, <1>s DEF Left
  <2>2. <<>> \in Seq(Pipe) /\ Len(<<>>) = 0
    OBVIOUS
  <2>3. Passed(<<>>) = 0 /\ PassedOf(s, 0) = 0
    BY <2>2, PassedFacts DEF Passed
  <2>4. Spaced(<<>>)
    BY <2>2 DEF Spaced
  <2>5. Fine(0)
    BY <2>1, <2>2, <2>3, <2>4
  <2> HIDE DEF Fine
  <2> QED BY <2>5
<1>6. ASSUME NEW n \in Nat, n \in T PROVE n + 1 \in T
  <2> HIDE DEF Fine
  <2> SUFFICES ASSUME n + 1 <= Len(s) PROVE Fine(n + 1)
    OBVIOUS
  <2> DEFINE l == k[n]
             p == s[n + 1]
             m == Len(l)
  <2>1. Fine(n)
    BY <1>6, <1>s
  <2>2. /\ l \in Seq(Pipe) /\ m \in 0 .. n /\ n - m + Passed(l) = PassedOf(s, n)
        /\ \A j \in 1 .. m : \E i \in 1 .. n : l[j] = s[i]
        /\ Spaced(s) => Spaced(l)
    BY <2>1 DEF Fine
  <2>3. p \in Pipe /\ n + 1 \in 1 .. Len(s)
    BY <1>s
  <2>4. k[n + 1] = IF p.x + PIPE_W >= -1 THEN Append(l, p) ELSE l
    <3>1. n + 1 \in 0 .. Len(s) /\ (n + 1) - 1 = n /\ n + 1 # 0
      BY <1>s
    <3>2. k[n + 1] = Left(k, s, n + 1)
      BY <1>4, <3>1
    <3> QED BY <3>1, <3>2, Zenon DEF Left
  <2>5. /\ PassedOf(s, n + 1) = PassedOf(s, n) + (IF FlappyBird!PassedBy(p) THEN 1 ELSE 0)
        /\ PassedOf(s, n) \in Nat
    BY PassedFacts
  <2>6. Passed(l) \in Nat
    <3>1. m \in Nat
      BY <2>2
    <3> HIDE DEF l
    <3> QED BY <3>1, PassedFacts DEF Passed
  <2>7. CASE p.x + PIPE_W >= -1
    <3> DEFINE a == Append(l, p)
    <3>1. k[n + 1] = a
      BY <2>4, <2>7
    <3>2. /\ a \in Seq(Pipe) /\ Len(a) = m + 1
          /\ \A i \in 1 .. m : a[i] = l[i]
          /\ a[m + 1] = p
          /\ Passed(a) = Passed(l) + (IF FlappyBird!PassedBy(p) THEN 1 ELSE 0)
      BY <2>2, <2>3, PassedAppend
    <3> HIDE DEF a, l, m, p
    <3>3. Len(a) \in 0 .. n + 1 /\ n + 1 - Len(a) + Passed(a) = PassedOf(s, n + 1)
      BY <2>2, <2>5, <2>6, <3>2
    <3>4. ASSUME NEW j \in 1 .. Len(a) PROVE \E i \in 1 .. n + 1 : a[j] = s[i]
      <4>1. CASE j = m + 1
        BY <3>2, <4>1 DEF p
      <4>2. CASE j # m + 1
        <5>1. j \in 1 .. m
          BY <2>2, <3>2, <4>2
        <5>2. PICK i \in 1 .. n : l[j] = s[i]
          BY <2>2, <5>1
        <5> QED BY <3>2, <5>1, <5>2
      <4> QED BY <4>1, <4>2
    <3>5. ASSUME Spaced(s) PROVE Spaced(a)
      <4> SUFFICES ASSUME NEW i \in 1 .. Len(a), NEW j \in 1 .. Len(a), i < j
                   PROVE  a[j].x - a[i].x > SPACING
        BY DEF Spaced
      <4>1. i \in 1 .. m
        BY <2>2, <3>2
      <4>2. CASE j = m + 1
        <5>1. PICK h \in 1 .. n : l[i] = s[h]
          BY <2>2, <4>1
        <5>2. h \in 1 .. Len(s) /\ n + 1 \in 1 .. Len(s) /\ h < n + 1
          BY <1>s
        <5>3. s[n + 1].x - s[h].x > SPACING
          BY <3>5, <5>2 DEF Spaced
        <5> QED BY <3>2, <4>1, <4>2, <5>1, <5>3 DEF p
      <4>3. CASE j # m + 1
        <5>1. j \in 1 .. m
          BY <2>2, <3>2, <4>3
        <5>2. l[j].x - l[i].x > SPACING
          BY <2>2, <3>5, <4>1, <5>1 DEF Spaced, m
        <5> QED BY <3>2, <4>1, <5>1, <5>2
      <4> QED BY <4>2, <4>3
    <3> QED BY <3>1, <3>2, <3>3, <3>4, <3>5, SMTT(30) DEF Fine
  <2>8. CASE ~(p.x + PIPE_W >= -1)
    <3>1. k[n + 1] = l
      BY <2>4, <2>8
    <3>2. FlappyBird!PassedBy(p)
      BY <2>3, <2>8, SkyIsWide DEF FlappyBird!PassedBy, Pipe
    <3> HIDE DEF l, p
    <3>3. m \in 0 .. n + 1 /\ n + 1 - m + Passed(l) = PassedOf(s, n + 1)
      BY <2>2, <2>5, <2>6, <3>2
    <3>4. \A j \in 1 .. m : \E i \in 1 .. n + 1 : l[j] = s[i]
      BY <2>2
    <3> QED BY <2>2, <3>1, <3>3, <3>4 DEF Fine
  <2> QED BY <2>7, <2>8
<1>7. \A n \in Nat : n \in T
  <2> HIDE DEF T
  <2> QED BY <1>5, <1>6, SetInduction
<1>8. Fine(Len(s))
  <2> HIDE DEF Fine
  <2> QED BY <1>7, <1>s
<1> QED BY <1>1, <1>8, Zenon DEF Passed

-----------------------------------------------------------------------------
(* The tick.                                                               *)

\* The move of a pipe in a tick.
Shift(p) == [p EXCEPT !.x = @ - PIPE_SPEED]

\* What a tick makes of one pipe: it is passed then if it was or if it scores,
\* and a pipe scores only once.
LEMMA ShiftFacts ==
  ASSUME NEW p \in Pipe
  PROVE  /\ Shift(p) \in Pipe /\ p.x \in Int /\ Shift(p).x = p.x - PIPE_SPEED
         /\ FlappyBird!PassedBy(Shift(p)) <=> (FlappyBird!PassedBy(p) \/ FlappyBird!Scores(Shift(p)))
         /\ ~(FlappyBird!PassedBy(p) /\ FlappyBird!Scores(Shift(p)))
<1> DEFINE q == Shift(p)
<1>1. p.x \in Int /\ p.x - PIPE_SPEED \in Int
  BY SkyIsWide DEF Pipe
<1>2. q = [p EXCEPT !.x = p.x - PIPE_SPEED]
  BY DEF Shift
<1>3. q \in Pipe /\ q.x = p.x - PIPE_SPEED
  BY <1>1, <1>2 DEF Pipe
<1> HIDE DEF q
<1>4. FlappyBird!PassedBy(q) <=> q.x + PIPE_W < BIRD_X
  BY DEF FlappyBird!PassedBy
<1>5. FlappyBird!Scores(q) <=>
        q.x + PIPE_W < BIRD_X /\ q.x + PIPE_W >= BIRD_X - PIPE_SPEED
  BY DEF FlappyBird!PassedBy, FlappyBird!Scores
<1>6. FlappyBird!PassedBy(p) <=> p.x + PIPE_W < BIRD_X
  BY DEF FlappyBird!PassedBy
<1>7. FlappyBird!PassedBy(q) <=> (FlappyBird!PassedBy(p) \/ FlappyBird!Scores(q))
  BY <1>1, <1>3, <1>4, <1>5, <1>6, SkyIsWide
<1>8. ~(FlappyBird!PassedBy(p) /\ FlappyBird!Scores(q))
  BY <1>1, <1>3, <1>5, <1>6, SkyIsWide
<1> QED BY <1>1, <1>3, <1>7, <1>8 DEF q

\* At most one pipe scores in a tick: they are wider than the speed, and the
\* spacing is wider than they are.
LEMMA OneScores ==
  ASSUME NEW s \in Seq(Pipe), Spaced(s), NEW n \in Nat, n <= Len(s)
  PROVE  Cardinality({i \in 1 .. n : FlappyBird!Scores(Shift(s[i]))}) \in {0, 1}
<1> DEFINE S == {i \in 1 .. n : FlappyBird!Scores(Shift(s[i]))}
<1>1. \A i \in 1 .. n : i \in 1 .. Len(s) /\ s[i] \in Pipe
  OBVIOUS
<1>2. \A i \in 1 .. n : s[i].x \in Int /\ Shift(s[i]).x = s[i].x - PIPE_SPEED
  BY <1>1, ShiftFacts
<1>3. ASSUME NEW i \in S, NEW j \in S PROVE ~(i < j)
  <2> SUFFICES ASSUME i < j PROVE FALSE
    OBVIOUS
  <2>1. i \in 1 .. n /\ j \in 1 .. n
    OBVIOUS
  <2>2. s[j].x - s[i].x > SPACING
    BY <1>1, <2>1 DEF Spaced
  <2> DEFINE p == Shift(s[i])
             q == Shift(s[j])
  <2>3. FlappyBird!Scores(p) /\ FlappyBird!Scores(q)
    OBVIOUS
  <2>4. p.x = s[i].x - PIPE_SPEED /\ q.x = s[j].x - PIPE_SPEED
    BY <1>2, <2>1
  <2>5. s[i].x \in Int /\ s[j].x \in Int
    BY <1>2, <2>1
  <2> HIDE DEF p, q
  <2>6. q.x + PIPE_W < BIRD_X /\ p.x + PIPE_W >= BIRD_X - PIPE_SPEED
    BY <2>3 DEF FlappyBird!Scores, FlappyBird!PassedBy
  <2>7. /\ PIPE_SPEED \in Int /\ PIPE_W \in Int /\ BIRD_X \in Int /\ SPACING \in Int
        /\ PIPE_SPEED < PIPE_W /\ PIPE_W < SPACING
    BY SkyIsWide
  <2>8. q.x - p.x > SPACING /\ q.x \in Int /\ p.x \in Int
    BY <2>2, <2>4, <2>5, <2>7
  <2> QED BY <2>6, <2>7, <2>8
<1>4. \A i, j \in S : i = j
  <2> SUFFICES ASSUME NEW i \in S, NEW j \in S PROVE i = j
    OBVIOUS
  <2>1. ~(i < j) /\ ~(j < i)
    BY <1>3
  <2>2. i \in Int /\ j \in Int
    OBVIOUS
  <2> QED BY <2>1, <2>2
<1> HIDE DEF S
<1>5. CASE S = {}
  <2>1. Cardinality(S) = 0
    BY <1>5, FS_EmptySet
  <2> QED BY <2>1 DEF S
<1>6. CASE S # {}
  <2>1. PICK i \in S : TRUE
    BY <1>6
  <2>2. S = {i}
    BY <1>4, <2>1
  <2>3. Cardinality(S) = 1
    <3>1. Cardinality({i}) = 1
      BY FS_Singleton
    <3> QED BY <2>2, <3>1
  <2> QED BY <2>3 DEF S
<1> QED BY <1>5, <1>6

\* The pipes of a tick, moved up to the one that is hit: those that score are
\* passed then, and no other one is.
LEMMA ShiftedPasses ==
  ASSUME NEW s \in Seq(Pipe), NEW last \in Nat, last <= Len(s),
         NEW after, after = [i \in 1 .. Len(s) |-> IF i <= last THEN Shift(s[i]) ELSE s[i]]
  PROVE  /\ after \in Seq(Pipe) /\ Len(after) = Len(s)
         /\ Passed(after) =
              Passed(s) + Cardinality({i \in 1 .. last : FlappyBird!Scores(Shift(s[i]))})
<1> DEFINE n == Len(s)
           A == {i \in 1 .. n : FlappyBird!PassedBy(after[i])}
           B == {i \in 1 .. n : FlappyBird!PassedBy(s[i])}
           S == {i \in 1 .. last : FlappyBird!Scores(Shift(s[i]))}
<1>1. n \in Nat /\ \A i \in 1 .. n : s[i] \in Pipe
  OBVIOUS
<1>2. \A i \in 1 .. n : Shift(s[i]) \in Pipe
  BY <1>1, ShiftFacts
<1>3. after \in [1 .. n -> Pipe] /\ \A i \in 1 .. n : after[i] = IF i <= last THEN Shift(s[i]) ELSE s[i]
  BY <1>1, <1>2
<1>4. after \in Seq(Pipe) /\ Len(after) = n
  <2> HIDE DEF n
  <2>1. after \in Seq(Pipe)
    BY <1>1, <1>3, SeqDef
  <2>2. DOMAIN after = 1 .. n
    BY <1>3
  <2>3. Len(after) = n
    BY <1>1, <2>1, <2>2, LenProperties
  <2> QED BY <2>1, <2>3
<1>l. last <= n
  OBVIOUS
<1>5. A = B \cup S /\ B \cap S = {}
  <2> HIDE DEF n
  <2>1. ASSUME NEW i \in 1 .. n, i <= last
        PROVE  /\ FlappyBird!PassedBy(after[i]) <=>
                    (FlappyBird!PassedBy(s[i]) \/ FlappyBird!Scores(Shift(s[i])))
               /\ ~(FlappyBird!PassedBy(s[i]) /\ FlappyBird!Scores(Shift(s[i])))
    <3>1. after[i] = Shift(s[i]) /\ s[i] \in Pipe
      BY <1>1, <1>3, <2>1
    <3> QED BY <3>1, ShiftFacts
  <2>2. ASSUME NEW i \in 1 .. n, ~(i <= last)
        PROVE  (FlappyBird!PassedBy(after[i]) <=> FlappyBird!PassedBy(s[i])) /\ i \notin 1 .. last
    BY <1>3, <2>2
  <2>3. \A i \in 1 .. last : i \in 1 .. n /\ i <= last
    BY <1>1, <1>l
  <2>4. \A i \in 1 .. n : i <= last => i \in 1 .. last
    BY <1>1
  <2> QED BY <2>1, <2>2, <2>3, <2>4
<1>6. IsFiniteSet(B) /\ IsFiniteSet(S)
  <2>1. B \subseteq 1 .. n /\ S \subseteq 1 .. last
    OBVIOUS
  <2>2. IsFiniteSet(1 .. n) /\ IsFiniteSet(1 .. last)
    BY <1>1, FS_Interval
  <2> HIDE DEF B, S
  <2> QED BY <2>1, <2>2, FS_Subset
<1>7. Cardinality(A) = Cardinality(B) + Cardinality(S)
  <2> HIDE DEF A, B, S
  <2>1. /\ Cardinality(B \cup S) = Cardinality(B) + Cardinality(S) - Cardinality(B \cap S)
    BY <1>6, FS_Union
  <2>2. Cardinality(B \cap S) = 0
    BY <1>5, FS_EmptySet
  <2>3. Cardinality(B) \in Nat /\ Cardinality(S) \in Nat
    BY <1>6, FS_CardinalityType
  <2> QED BY <1>5, <2>1, <2>2, <2>3
<1>8. Passed(after) = Cardinality(A) /\ Passed(s) = Cardinality(B)
  BY <1>4, Zenon DEF Passed, PassedOf
<1> QED BY <1>4, <1>7, <1>8

\* All pipes moved at once keep their distances.
LEMMA ShiftedIsSpaced ==
  ASSUME NEW s \in Seq(Pipe), Spaced(s),
         NEW after \in Seq(Pipe), Len(after) = Len(s),
         \A i \in 1 .. Len(s) : after[i] = Shift(s[i])
  PROVE  Spaced(after)
<1> SUFFICES ASSUME NEW i \in 1 .. Len(s), NEW j \in 1 .. Len(s), i < j
             PROVE  after[j].x - after[i].x > SPACING
  BY DEF Spaced
<1>1. s[i] \in Pipe /\ s[j] \in Pipe
  OBVIOUS
<1>2. s[j].x - s[i].x > SPACING
  BY DEF Spaced
<1>3. s[i].x \in Int /\ Shift(s[i]).x = s[i].x - PIPE_SPEED
  BY <1>1, ShiftFacts
<1>4. s[j].x \in Int /\ Shift(s[j]).x = s[j].x - PIPE_SPEED
  BY <1>1, ShiftFacts
<1>5. after[i].x = s[i].x - PIPE_SPEED /\ after[j].x = s[j].x - PIPE_SPEED
  BY <1>3, <1>4
<1> QED BY <1>2, <1>3, <1>4, <1>5, SkyIsWide

-----------------------------------------------------------------------------
(* The invariant.                                                          *)

\* What is known of the sky: the score is the number of the pipes behind the bird.
BirdInv ==
  /\ bird_y \in Int /\ bird_vy \in Int
  /\ points \in 0 .. MaxScore /\ best \in 0 .. MaxScore
  /\ flying \in BOOLEAN /\ started \in BOOLEAN /\ gone \in Nat
  /\ pipes \in Seq(Pipe)
  /\ flappy_windows \subseteq 1 .. MaxWindows /\ flappy_area \in 1 .. MaxWindows
  /\ points = gone + Passed(pipes)
  /\ ~flying => best >= points
  /\ flying => Spaced(pipes)
  /\ flying => \A i \in 1 .. Len(pipes) : ~FlappyBird!Hits(bird_y, pipes[i])

\* A sky without a pipe.
LEMMA NoPipes == << >> \in Seq(Pipe) /\ Len(<< >>) = 0 /\ Passed(<< >>) = 0 /\ Spaced(<< >>)
<1>1. << >> \in Seq(Pipe) /\ Len(<< >>) = 0
  OBVIOUS
<1>2. Passed(<< >>) = 0
  BY <1>1, PassedFacts DEF Passed
<1> QED BY <1>1, <1>2 DEF Spaced

\* A new game has no pipe.
LEMMA BirdStarts ==
  ASSUME FlappyBird!Init
  PROVE  BirdInv
<1>1. /\ bird_y = WIN_H \div 2 /\ bird_vy = 0 /\ points = 0 /\ best = 0
      /\ flying = TRUE /\ started = FALSE /\ pipes = << >> /\ gone = 0
      /\ flappy_windows = {1} /\ flappy_area = 1
  BY Zenon DEF FlappyBird!Init
<1>2. WIN_H \div 2 \in Int /\ MaxScore \in Nat /\ 1 \in 1 .. MaxWindows
  BY SkyIsWide, BoundsAreNumbers
<1>3. points = gone + Passed(pipes)
  BY <1>1, NoPipes
<1>4. pipes \in Seq(Pipe) /\ Spaced(pipes) /\ Len(pipes) = 0
  BY <1>1, NoPipes
<1>5. \A i \in 1 .. Len(pipes) : ~FlappyBird!Hits(bird_y, pipes[i])
  BY <1>4
<1>6. /\ bird_y \in Int /\ bird_vy \in Int
      /\ points \in 0 .. MaxScore /\ best \in 0 .. MaxScore /\ gone \in Nat
      /\ flappy_windows \subseteq 1 .. MaxWindows /\ flappy_area \in 1 .. MaxWindows
  BY <1>1, <1>2
<1>7. flying \in BOOLEAN /\ started \in BOOLEAN /\ flying
  BY <1>1, Zenon
<1> QED BY <1>3, <1>4, <1>5, <1>6, <1>7, Zenon DEF BirdInv

\* reset_game, on R and on a launch.
LEMMA BirdResets ==
  ASSUME FlappyBird!reset_game, best' \in 0 .. MaxScore,
         flappy_windows' \subseteq 1 .. MaxWindows, flappy_area' \in 1 .. MaxWindows
  PROVE  BirdInv'
<1>1. /\ bird_y' = WIN_H \div 2 /\ bird_vy' = 0 /\ points' = 0
      /\ flying' = TRUE /\ started' = FALSE /\ pipes' = << >> /\ gone' = 0
  BY Zenon DEF FlappyBird!reset_game
<1>2. WIN_H \div 2 \in Int /\ MaxScore \in Nat
  BY SkyIsWide, BoundsAreNumbers
<1>3. Passed(pipes') = 0 /\ pipes' \in Seq(Pipe) /\ Spaced(pipes') /\ Len(pipes') = 0
  BY <1>1, NoPipes
<1>4. points' = gone' + Passed(pipes')
  BY <1>1, <1>3
<1>5. \A i \in 1 .. Len(pipes') : ~FlappyBird!Hits(bird_y', pipes'[i])
  BY <1>3
<1>6. /\ bird_y' \in Int /\ bird_vy' \in Int
      /\ points' \in 0 .. MaxScore /\ gone' \in Nat
  BY <1>1, <1>2
<1>7. flying' \in BOOLEAN /\ started' \in BOOLEAN /\ flying'
  BY <1>1, Zenon
<1> QED BY <1>3, <1>4, <1>5, <1>6, <1>7, Zenon DEF BirdInv

\* The bird falls through whole numbers.
LEMMA BirdFalls ==
  ASSUME bird_y \in Int, bird_vy \in Int,
         bird_vy' = bird_vy + GRAVITY, bird_y' = bird_y + bird_vy'
  PROVE  bird_vy' \in Int /\ bird_y' \in Int
<1>1. GRAVITY \in Int
  BY SkyIsWide
<1>2. bird_vy' \in Int
  BY <1>1
<1> QED BY <1>2

\* The end on the ground keeps the best score.
LEMMA BirdHitsGround ==
  ASSUME BirdInv, FlappyBird!HitGround
  PROVE  BirdInv'
<1>1. /\ bird_vy' = bird_vy + GRAVITY /\ bird_y' = bird_y + bird_vy'
      /\ flying' = FALSE /\ best' = IF points > best THEN points ELSE best
      /\ points' = points /\ started' = started /\ pipes' = pipes /\ gone' = gone
      /\ flappy_windows' = flappy_windows /\ flappy_area' = flappy_area
  BY Zenon DEF FlappyBird!HitGround, FlappyBird!Fall
<1>2. /\ bird_y \in Int /\ bird_vy \in Int
      /\ points \in 0 .. MaxScore /\ best \in 0 .. MaxScore
      /\ started \in BOOLEAN /\ gone \in Nat
      /\ pipes \in Seq(Pipe)
      /\ flappy_windows \subseteq 1 .. MaxWindows /\ flappy_area \in 1 .. MaxWindows
      /\ points = gone + Passed(pipes)
  BY DEF BirdInv
<1>3. bird_vy' \in Int /\ bird_y' \in Int
  BY <1>1, <1>2, BirdFalls
<1>4. best' \in 0 .. MaxScore /\ best' >= points'
  BY <1>1, <1>2
<1>5. points' = gone' + Passed(pipes')
  BY <1>1, <1>2, Zenon
<1> QED BY <1>1, <1>2, <1>3, <1>4, <1>5 DEF BirdInv

\* The new pipe is behind the others, and far from the bird.
LEMMA SpawnFacts ==
  ASSUME BirdInv, flying, NEW before \in FlappyBird!Spawned
  PROVE  /\ before \in Seq(Pipe) /\ Len(before) \in Nat /\ Spaced(before)
         /\ Passed(before) = Passed(pipes)
<1>1. pipes \in Seq(Pipe) /\ Spaced(pipes)
  BY DEF BirdInv
<1>2. CASE before = pipes
  BY <1>1, <1>2
<1>3. CASE before # pipes
  <2>1. PICK g \in Gaps : before = Append(pipes, [x |-> WIN_W + 1, gap_y |-> g])
    BY <1>3, Zenon DEF FlappyBird!Spawned
  <2>2. pipes = << >> \/ pipes[Len(pipes)].x < WIN_W - SPACING
    BY <1>3, Zenon DEF FlappyBird!Spawned
  <2> DEFINE p == [x |-> WIN_W + 1, gap_y |-> g]
  <2>3. p \in Pipe /\ p.x = WIN_W + 1
    BY SkyIsWide DEF Pipe
  <2>4. ~FlappyBird!PassedBy(p)
    <3> HIDE DEF p
    <3> QED BY <2>3, SkyIsWide DEF FlappyBird!PassedBy
  <2> HIDE DEF p
  <2> DEFINE n == Len(pipes)
  <2>5. /\ before \in Seq(Pipe) /\ Len(before) = n + 1 /\ n \in Nat
        /\ \A i \in 1 .. n : before[i] = pipes[i]
        /\ before[n + 1] = p
        /\ Passed(before) = Passed(pipes) + (IF FlappyBird!PassedBy(p) THEN 1 ELSE 0)
    <3>1. before = Append(pipes, p)
      BY <2>1 DEF p
    <3> QED BY <1>1, <2>3, <3>1, PassedAppend
  <2>6. Passed(before) = Passed(pipes)
    <3>1. Passed(pipes) \in Nat
      BY <2>5, PassedFacts DEF Passed
    <3> QED BY <2>4, <2>5, <3>1
  <2>7. ASSUME NEW i \in 1 .. n PROVE pipes[i].x \in Int /\ p.x - pipes[i].x > SPACING
    <3>1. n # 0 /\ pipes # << >> /\ n \in 1 .. n
      BY <1>1, <2>5
    <3>2. pipes[n].x < WIN_W - SPACING
      BY <2>2, <3>1
    <3>3. pipes[i] \in Pipe /\ pipes[n] \in Pipe
      BY <1>1, <3>1
    <3>4. pipes[i].x \in Int /\ pipes[n].x \in Int
      BY <3>3 DEF Pipe
    <3>5. pipes[i].x <= pipes[n].x
      <4>1. CASE i = n
        BY <3>4, <4>1
      <4>2. CASE i # n
        <5>1. i < n
          BY <2>5, <4>2
        <5>2. pipes[n].x - pipes[i].x > SPACING
          BY <1>1, <3>1, <5>1 DEF Spaced
        <5>3. SPACING \in Int /\ SPACING > 0
          BY SkyIsWide
        <5> HIDE DEF n
        <5> QED BY <3>4, <5>2, <5>3
      <4> QED BY <4>1, <4>2
    <3>6. SPACING \in Int /\ WIN_W \in Int
      BY SkyIsWide
    <3> HIDE DEF n
    <3> QED BY <2>3, <3>2, <3>4, <3>5, <3>6
  <2>8. Spaced(before)
    <3> HIDE DEF n
    <3> SUFFICES ASSUME NEW i \in 1 .. n + 1, NEW j \in 1 .. n + 1, i < j
                 PROVE  before[j].x - before[i].x > SPACING
      BY <2>5 DEF Spaced
    <3>1. i \in 1 .. n /\ before[i] = pipes[i]
      BY <2>5
    <3>2. CASE j = n + 1
      <4>1. before[j].x = p.x
        BY <2>5, <3>2
      <4> QED BY <2>7, <3>1, <4>1
    <3>3. CASE j # n + 1
      <4>1. j \in 1 .. n /\ before[j] = pipes[j]
        BY <2>5, <3>3
      <4>2. pipes[j].x - pipes[i].x > SPACING
        BY <1>1, <3>1, <4>1 DEF Spaced, n
      <4> QED BY <3>1, <4>1, <4>2
    <3> QED BY <3>2, <3>3
  <2> QED BY <2>5, <2>6, <2>8
<1>4. Len(before) \in Nat
  BY <1>1, <1>2, <1>3
<1> QED BY <1>2, <1>3, <1>4

\* A tick in the air: the score is still the number of the pipes behind the
\* bird, and a bird that lives is in none.
LEMMA BirdMoves ==
  ASSUME BirdInv, FlappyBird!MovePipes
  PROVE  BirdInv'
<1>1. PICK before \in FlappyBird!Spawned :
        LET shifted == [i \in 1 .. Len(before) |-> Shift(before[i])]
            hit == {i \in 1 .. Len(before) : FlappyBird!Hits(bird_y', shifted[i])}
            last == IF hit = {} THEN Len(before) ELSE CHOOSE i \in hit : \A j \in hit : i <= j
            after == [i \in 1 .. Len(before) |-> IF i <= last THEN shifted[i] ELSE before[i]]
        IN  /\ points' = points + FlappyBird!Cardinality({i \in 1 .. last : FlappyBird!Scores(shifted[i])})
            /\ flying' = (hit = {})
            /\ best' = IF hit # {} /\ points' > best THEN points' ELSE best
            /\ pipes' = FlappyBird!OnScreen(after)
            /\ gone' = gone + Len(after) - Len(pipes')
  BY Zenon DEF FlappyBird!MovePipes, Shift
<1> DEFINE n == Len(before)
           shifted == [i \in 1 .. n |-> Shift(before[i])]
           hit == {i \in 1 .. n : FlappyBird!Hits(bird_y', shifted[i])}
           last == IF hit = {} THEN n ELSE CHOOSE i \in hit : \A j \in hit : i <= j
           after == [i \in 1 .. n |-> IF i <= last THEN shifted[i] ELSE before[i]]
           rest == [i \in 1 .. n |-> IF i <= last THEN Shift(before[i]) ELSE before[i]]
           Now == {i \in 1 .. last : FlappyBird!Scores(Shift(before[i]))}
<1>2. /\ bird_vy' = bird_vy + GRAVITY /\ bird_y' = bird_y + bird_vy'
      /\ flying /\ points < MaxScore
      /\ started' = started
      /\ flappy_windows' = flappy_windows /\ flappy_area' = flappy_area
  BY Zenon DEF FlappyBird!MovePipes, FlappyBird!Fall, FlappyBird!Flying
<1>3. /\ bird_y \in Int /\ bird_vy \in Int
      /\ points \in 0 .. MaxScore /\ best \in 0 .. MaxScore
      /\ started \in BOOLEAN /\ gone \in Nat
      /\ flappy_windows \subseteq 1 .. MaxWindows /\ flappy_area \in 1 .. MaxWindows
      /\ points = gone + Passed(pipes)
  BY DEF BirdInv
<1>4. bird_vy' \in Int /\ bird_y' \in Int
  BY <1>2, <1>3, BirdFalls
<1>5. /\ before \in Seq(Pipe) /\ n \in Nat /\ Spaced(before)
      /\ Passed(before) = Passed(pipes)
  BY <1>2, SpawnFacts
<1>6. \A i \in 1 .. n : shifted[i] = Shift(before[i])
  OBVIOUS
<1>7. last \in Nat /\ last <= n /\ (hit = {} => last = n)
  <2>1. hit \subseteq 1 .. n
    OBVIOUS
  <2> HIDE DEF hit, n
  <2>2. CASE hit = {}
    BY <1>5, <2>2
  <2>3. CASE hit # {}
    <3>1. \E i \in hit : \A j \in hit : i <= j
      <4>1. hit \subseteq Nat
        BY <1>5, <2>1
      <4> QED BY <2>3, <4>1, LeastElement
    <3>2. last \in hit
      BY <2>3, <3>1
    <3> HIDE DEF last
    <3>3. last \in 1 .. n
      BY <2>1, <3>2
    <3> QED BY <1>5, <2>3, <3>3
  <2> QED BY <2>2, <2>3
<1>8. {i \in 1 .. last : FlappyBird!Scores(shifted[i])} = Now
  <2>1. \A i \in 1 .. last : shifted[i] = Shift(before[i])
    <3> HIDE DEF shifted, last, n
    <3>1. \A i \in 1 .. last : i \in 1 .. n
      BY <1>5, <1>7
    <3> QED BY <1>6, <3>1
  <2> HIDE DEF shifted, last, n
  <2> QED BY <2>1
<1>9. after = rest
  <2> HIDE DEF last, n
  <2> QED OBVIOUS
<1>10. FlappyBird!Cardinality(Now) = Cardinality(Now)
  BY Zenon DEF FlappyBird!Cardinality, Cardinality
<1>11. /\ points' = points + Cardinality(Now)
       /\ flying' = (hit = {})
       /\ best' = IF hit # {} /\ points' > best THEN points' ELSE best
       /\ pipes' = FlappyBird!OnScreen(rest)
       /\ gone' = gone + Len(rest) - Len(pipes')
  <2>1. /\ points' = points + FlappyBird!Cardinality({i \in 1 .. last : FlappyBird!Scores(shifted[i])})
        /\ flying' = (hit = {})
        /\ best' = IF hit # {} /\ points' > best THEN points' ELSE best
        /\ pipes' = FlappyBird!OnScreen(after)
        /\ gone' = gone + Len(after) - Len(pipes')
    BY <1>1, Zenon
  <2> HIDE DEF last, n, shifted, after, rest, Now, hit
  <2> QED BY <1>8, <1>9, <1>10, <2>1, Zenon
<1> HIDE DEF last, n, shifted, after
<1>12. /\ rest \in Seq(Pipe) /\ Len(rest) = n
       /\ Passed(rest) = Passed(before) + Cardinality(Now)
  BY <1>5, <1>7, ShiftedPasses DEF n
<1>13. Cardinality(Now) \in {0, 1}
  BY <1>5, <1>7, OneScores DEF n
<1>14. hit = {} => Spaced(rest) /\ \A i \in 1 .. n : ~FlappyBird!Hits(bird_y', rest[i])
  <2> SUFFICES ASSUME hit = {}
               PROVE  Spaced(rest) /\ \A i \in 1 .. n : ~FlappyBird!Hits(bird_y', rest[i])
    OBVIOUS
  <2>1. \A i \in 1 .. n : rest[i] = Shift(before[i])
    BY <1>5, <1>7
  <2>2. \A i \in 1 .. n : ~FlappyBird!Hits(bird_y', Shift(before[i]))
    BY <1>6
  <2> HIDE DEF rest, hit
  <2>3. Spaced(rest)
    BY <1>5, <1>12, <2>1, ShiftedIsSpaced DEF n
  <2> QED BY <2>1, <2>2, <2>3
<1> HIDE DEF rest, Now, hit
<1>15. /\ pipes' \in Seq(Pipe) /\ Len(pipes') \in 0 .. n
       /\ n - Len(pipes') + Passed(pipes') = Passed(rest)
       /\ \A j \in 1 .. Len(pipes') : \E i \in 1 .. n : pipes'[j] = rest[i]
       /\ Spaced(rest) => Spaced(pipes')
  <2> DEFINE o == FlappyBird!OnScreen(rest)
  <2>1. /\ o \in Seq(Pipe) /\ Len(o) \in 0 .. n
        /\ n - Len(o) + Passed(o) = Passed(rest)
        /\ \A j \in 1 .. Len(o) : \E i \in 1 .. n : o[j] = rest[i]
        /\ Spaced(rest) => Spaced(o)
    BY <1>12, OnScreenFacts, Zenon
  <2> HIDE DEF o
  <2>2. pipes' = o
    BY <1>11, Zenon DEF o
  <2> QED BY <2>1, <2>2, Zenon
<1>16. Passed(pipes') \in Nat /\ Passed(pipes) \in Nat
  <2>1. Len(pipes') \in Nat /\ Len(pipes) \in Nat
    <3>1. pipes \in Seq(Pipe)
      BY DEF BirdInv
    <3> QED BY <1>15, <3>1
  <2> QED BY <2>1, PassedFacts DEF Passed
<1>17. gone' \in Nat /\ points' = gone' + Passed(pipes')
  <2>1. gone' = gone + n - Len(pipes')
    BY <1>11, <1>12, Zenon
  <2>2. points' = points + Cardinality(Now)
    BY <1>11, Zenon
  <2>3. /\ Passed(rest) = Passed(pipes) + Cardinality(Now)
        /\ n - Len(pipes') + Passed(pipes') = Passed(rest)
        /\ points = gone + Passed(pipes)
    BY <1>3, <1>5, <1>12, <1>15, Zenon
  <2>4. Cardinality(Now) \in Nat /\ Len(pipes') \in 0 .. n /\ gone \in Nat /\ points \in Nat
    <3>1. Cardinality(Now) \in Nat
      BY <1>13
    <3> QED BY <1>3, <1>15, <3>1
  <2> DEFINE c == Cardinality(Now)
             b == Passed(rest)
             a == Passed(pipes)
             m == Len(pipes')
             l == Passed(pipes')
  <2>5. /\ gone' = gone + n - m /\ points' = points + c
        /\ b = a + c /\ n - m + l = b /\ points = gone + a
        /\ c \in Nat /\ m \in 0 .. n /\ gone \in Nat /\ points \in Nat
        /\ l \in Nat /\ a \in Nat /\ n \in Nat
    BY <1>5, <1>16, <2>1, <2>2, <2>3, <2>4, Zenon
  <2> HIDE DEF a, b, c, m, l, n
  <2>6. gone' \in Nat /\ points' = gone' + l
    BY <2>5
  <2> QED BY <2>6 DEF l
<1>18. points' \in 0 .. MaxScore
  <2>1. points' = points + Cardinality(Now)
    BY <1>11, Zenon
  <2>2. Cardinality(Now) = 0 \/ Cardinality(Now) = 1
    BY <1>13, Zenon
  <2>3. points < MaxScore /\ points \in 0 .. MaxScore /\ MaxScore \in Nat
    BY <1>2, <1>3, BoundsAreNumbers
  <2>4. CASE Cardinality(Now) = 0
    <3>1. points' = points + 0
      BY <2>1, <2>4, Zenon
    <3> QED BY <2>3, <3>1
  <2>5. CASE Cardinality(Now) = 1
    <3>1. points' = points + 1
      BY <2>1, <2>5, Zenon
    <3> QED BY <2>3, <3>1
  <2> QED BY <2>2, <2>4, <2>5
<1>19. best' \in 0 .. MaxScore /\ (~flying' => best' >= points')
  <2>1. CASE hit = {}
    <3>1. flying' /\ best' = best
      BY <1>11, <2>1, Zenon
    <3> QED BY <1>3, <3>1
  <2>2. CASE hit # {}
    <3>1. best' = IF points' > best THEN points' ELSE best
      BY <1>11, <2>2, Zenon
    <3>2. best' \in 0 .. MaxScore /\ best' >= points'
      BY <1>3, <1>18, <3>1
    <3> QED BY <3>2
  <2> QED BY <2>1, <2>2
<1>20. flying' \in BOOLEAN /\ (flying' <=> hit = {})
  BY <1>11, Zenon
<1>21. flying' => Spaced(pipes') /\ \A j \in 1 .. Len(pipes') : ~FlappyBird!Hits(bird_y', pipes'[j])
  <2> SUFFICES ASSUME flying'
               PROVE  Spaced(pipes') /\ \A j \in 1 .. Len(pipes') : ~FlappyBird!Hits(bird_y', pipes'[j])
    OBVIOUS
  <2>1. Spaced(rest) /\ \A i \in 1 .. n : ~FlappyBird!Hits(bird_y', rest[i])
    BY <1>14, <1>20, Zenon
  <2>2. ASSUME NEW j \in 1 .. Len(pipes') PROVE ~FlappyBird!Hits(bird_y', pipes'[j])
    <3>1. PICK i \in 1 .. n : pipes'[j] = rest[i]
      BY <1>15
    <3> QED BY <2>1, <3>1, Zenon
  <2> QED BY <1>15, <2>1, <2>2, Zenon
<1>22. /\ started' \in BOOLEAN
       /\ flappy_windows' \subseteq 1 .. MaxWindows /\ flappy_area' \in 1 .. MaxWindows
  BY <1>2, <1>3, Zenon
<1> QED BY <1>4, <1>15, <1>17, <1>18, <1>19, <1>20, <1>21, <1>22, Zenon DEF BirdInv

\* The keys, the windows and the crash touch no pipe.
LEMMA BirdStands ==
  ASSUME BirdInv,
         points' = points /\ flying' = flying /\ pipes' = pipes /\ gone' = gone,
         bird_y' = bird_y /\ bird_vy' \in Int /\ best' = best /\ started' \in BOOLEAN,
         flappy_windows' \subseteq 1 .. MaxWindows, flappy_area' \in 1 .. MaxWindows
  PROVE  BirdInv'
BY Zenon DEF BirdInv

\* Every step keeps the invariant.
LEMMA BirdSteps ==
  ASSUME BirdInv, FlappyBird!Next
  PROVE  BirdInv'
<1>1. /\ bird_vy \in Int /\ started \in BOOLEAN /\ best \in 0 .. MaxScore
      /\ flappy_windows \subseteq 1 .. MaxWindows /\ flappy_area \in 1 .. MaxWindows
  BY Zenon DEF BirdInv
<1>2. CASE FlappyBird!KeyR
  <2>1. /\ FlappyBird!reset_game /\ best' = best
        /\ flappy_windows' = flappy_windows /\ flappy_area' = flappy_area
    BY <1>2, Zenon DEF FlappyBird!KeyR
  <2>2. /\ best' \in 0 .. MaxScore
        /\ flappy_windows' \subseteq 1 .. MaxWindows /\ flappy_area' \in 1 .. MaxWindows
    BY <1>1, <2>1, Zenon
  <2> QED BY <2>1, <2>2, BirdResets
<1>3. CASE FlappyBird!KeySpace
  <2>1. /\ points' = points /\ flying' = flying /\ pipes' = pipes /\ gone' = gone
        /\ bird_y' = bird_y /\ best' = best /\ started' = TRUE
        /\ bird_vy' = IF flying THEN FLAP_VEL ELSE bird_vy
        /\ flappy_windows' = flappy_windows /\ flappy_area' = flappy_area
    BY <1>3, Zenon DEF FlappyBird!KeySpace
  <2>2. FLAP_VEL \in Int
    BY SkyIsWide
  <2>3. bird_vy' \in Int
    <3>1. CASE flying
      BY <2>1, <2>2, <3>1, Zenon
    <3>2. CASE ~flying
      BY <1>1, <2>1, <3>2, Zenon
    <3> QED BY <3>1, <3>2
  <2>4. /\ started' \in BOOLEAN
        /\ flappy_windows' \subseteq 1 .. MaxWindows /\ flappy_area' \in 1 .. MaxWindows
    BY <1>1, <2>1, Zenon
  <2> QED BY <2>1, <2>3, <2>4, BirdStands
<1>4. CASE FlappyBird!on_activate
  <2>1. /\ FlappyBird!reset_game /\ best' = best
        /\ flappy_area < MaxWindows /\ flappy_area' = flappy_area + 1
        /\ flappy_windows' = flappy_windows \cup {flappy_area'}
    BY <1>4, Zenon DEF FlappyBird!on_activate
  <2>2. flappy_area' \in 1 .. MaxWindows /\ best' \in 0 .. MaxScore
    BY <1>1, <2>1, BoundsAreNumbers
  <2>3. flappy_windows' \subseteq 1 .. MaxWindows
    BY <1>1, <2>1, <2>2, Zenon
  <2> QED BY <2>1, <2>2, <2>3, BirdResets
<1>5. CASE FlappyBird!Crash \/ \E w \in flappy_windows : FlappyBird!Close(w)
  <2>1. /\ points' = points /\ flying' = flying /\ pipes' = pipes /\ gone' = gone
        /\ bird_y' = bird_y /\ best' = best /\ started' = started /\ bird_vy' = bird_vy
        /\ flappy_area' = flappy_area
    BY <1>5, Zenon DEF FlappyBird!Crash, FlappyBird!Close, FlappyBird!game
  <2>2. flappy_windows' \subseteq flappy_windows
    BY <1>5 DEF FlappyBird!Crash, FlappyBird!Close
  <2>3. /\ bird_vy' \in Int /\ started' \in BOOLEAN
        /\ flappy_windows' \subseteq 1 .. MaxWindows /\ flappy_area' \in 1 .. MaxWindows
    BY <1>1, <2>1, <2>2, Zenon
  <2> QED BY <2>1, <2>3, BirdStands
<1> QED BY <1>2, <1>3, <1>4, <1>5, BirdHitsGround, BirdMoves, Zenon DEF FlappyBird!Next

\* The invariant says that each pipe scores once.
LEMMA BirdIsSound ==
  ASSUME BirdInv
  PROVE  FlappyBird!TypeOK /\ FlappyBird!EachPipeScoresOnce
<1>1. FlappyBird!TypeOK
  BY Zenon DEF BirdInv, FlappyBird!TypeOK, Pipe
<1>2. points = gone + FlappyBird!Cardinality({i \in 1 .. Len(pipes) : FlappyBird!PassedBy(pipes[i])})
  BY Zenon DEF BirdInv, Passed, PassedOf, FlappyBird!Cardinality, Cardinality
<1> QED BY <1>1, <1>2, Zenon DEF BirdInv, FlappyBird!EachPipeScoresOnce

-----------------------------------------------------------------------------
(* The snake of Phase 3.                                                   *)


\* A step and the step back.
LEMMA StepFacts ==
  ASSUME NEW c \in Int \X Int, NEW d \in Phase3Snake!Dirs
  PROVE  /\ Phase3Snake!Opposite(d) \in Phase3Snake!Dirs
         /\ Phase3Snake!Opposite(Phase3Snake!Opposite(d)) = d
         /\ Phase3Snake!Step(c, d) \in Int \X Int /\ Phase3Snake!Step(c, d) # c
         /\ Phase3Snake!Step(Phase3Snake!Step(c, d), Phase3Snake!Opposite(d)) = c
         /\ Phase3Snake!Step(c, d) # Phase3Snake!Step(c, Phase3Snake!Opposite(d))
         /\ \A e \in Phase3Snake!Dirs :
              Phase3Snake!Step(c, e) = Phase3Snake!Step(c, d) => e = d
         /\ c \in Phase3Snake!Cells =>
              Phase3Snake!Step(c, d) \in (-1 .. width) \X (-1 .. height)
<1>1. PICK x \in Int, y \in Int : c = <<x, y>>
  OBVIOUS
<1>2. /\ Phase3Snake!Step(c, "up") = <<x, y - 1>> /\ Phase3Snake!Step(c, "down") = <<x, y + 1>>
      /\ Phase3Snake!Step(c, "left") = <<x - 1, y>> /\ Phase3Snake!Step(c, "right") = <<x + 1, y>>
  BY <1>1 DEF Phase3Snake!Step
<1>3. /\ Phase3Snake!Opposite("up") = "down" /\ Phase3Snake!Opposite("down") = "up"
      /\ Phase3Snake!Opposite("left") = "right" /\ Phase3Snake!Opposite("right") = "left"
  BY DEF Phase3Snake!Opposite
<1>4. d = "up" \/ d = "down" \/ d = "left" \/ d = "right"
  BY DEF Phase3Snake!Dirs
<1>5. /\ Phase3Snake!Opposite(d) \in Phase3Snake!Dirs
      /\ Phase3Snake!Opposite(Phase3Snake!Opposite(d)) = d
  BY <1>3, <1>4 DEF Phase3Snake!Dirs
<1>6. Phase3Snake!Step(c, d) \in Int \X Int /\ Phase3Snake!Step(c, d) # c
  BY <1>1, <1>2, <1>4
<1>7. Phase3Snake!Step(Phase3Snake!Step(c, d), Phase3Snake!Opposite(d)) = c
  <2>1. CASE d = "up"
    BY <1>1, <1>2, <1>3, <2>1 DEF Phase3Snake!Step
  <2>2. CASE d = "down"
    BY <1>1, <1>2, <1>3, <2>2 DEF Phase3Snake!Step
  <2>3. CASE d = "left"
    BY <1>1, <1>2, <1>3, <2>3 DEF Phase3Snake!Step
  <2>4. CASE d = "right"
    BY <1>1, <1>2, <1>3, <2>4 DEF Phase3Snake!Step
  <2> QED BY <1>4, <2>1, <2>2, <2>3, <2>4
<1>8. Phase3Snake!Step(c, d) # Phase3Snake!Step(c, Phase3Snake!Opposite(d))
  BY <1>2, <1>3, <1>4
<1>9. \A e \in Phase3Snake!Dirs : Phase3Snake!Step(c, e) = Phase3Snake!Step(c, d) => e = d
  BY <1>2, <1>4 DEF Phase3Snake!Dirs
<1>10. c \in Phase3Snake!Cells => Phase3Snake!Step(c, d) \in (-1 .. width) \X (-1 .. height)
  BY <1>1, <1>2, <1>4, ScreenHasCells DEF Phase3Snake!Cells
<1> QED BY <1>5, <1>6, <1>7, <1>8, <1>9, <1>10

\* The places of a tail: a segment that a fruit has added shares the first.
Laid(t) == IF Len(t) > 1 /\ t[Len(t)] = t[1] THEN Len(t) - 1 ELSE Len(t)

\* A head and the trail behind it.
Trail(h, t, d) ==
  /\ h \in Phase3Snake!Cells /\ t \in Seq(Phase3Snake!Cells)
  /\ Len(t) > 0 => d \in Phase3Snake!Dirs /\ t[1] = Phase3Snake!Step(h, Phase3Snake!Opposite(d))
  /\ \A i \in 1 .. Len(t) : t[i] # h
  /\ \A i, j \in 1 .. Laid(t) : t[i] = t[j] => i = j
  /\ \A i \in 1 .. Laid(t) - 1 : \E e \in Phase3Snake!Dirs : t[i + 1] = Phase3Snake!Step(t[i], e)

\* The tail after a step of the head.
Behind(h, t) == IF t = <<>> THEN <<>> ELSE <<h>> \o Phase3Snake!Front(t)

\* It is as long, and each segment moves up.
LEMMA FollowedFacts ==
  ASSUME NEW h \in Phase3Snake!Cells, NEW t \in Seq(Phase3Snake!Cells)
  PROVE  /\ Behind(h, t) \in Seq(Phase3Snake!Cells) /\ Len(Behind(h, t)) = Len(t) /\ Len(t) \in Nat
         /\ Len(t) > 0 => Behind(h, t)[1] = h
         /\ \A i \in 2 .. Len(t) : Behind(h, t)[i] = t[i - 1]
<1> DEFINE f == Behind(h, t)
<1>1. Len(t) \in Nat
  OBVIOUS
<1>2. CASE t = <<>>
  BY <1>2 DEF Behind
<1>3. CASE t # <<>>
  <2> DEFINE n == Len(t)
             u == Phase3Snake!Front(t)
  <2>1. n \in Nat /\ n > 0
    BY <1>3
  <2>2. u = SubSeq(t, 1, n - 1)
    BY Zenon DEF Phase3Snake!Front
  <2>3. u \in Seq(Phase3Snake!Cells) /\ Len(u) = n - 1 /\ \A i \in 1 .. n - 1 : u[i] = t[i]
    <3>1. /\ 1 <= n - 1 + 1 /\ \A i \in 1 .. n - 1 : t[i] \in Phase3Snake!Cells
      BY <2>1
    <3>2. /\ u \in Seq(Phase3Snake!Cells)
          /\ Len(u) = IF 1 <= n - 1 THEN n - 1 - 1 + 1 ELSE 0
          /\ \A i \in 1 .. n - 1 : u[i] = t[1 + i - 1]
      BY <2>1, <2>2, <3>1, SubSeqProperties
    <3> HIDE DEF u
    <3>3. \A i \in 1 .. n - 1 : 1 + i - 1 = i
      OBVIOUS
    <3>4. \A i \in 1 .. n - 1 : u[i] = t[i]
      BY <3>2, <3>3, Zenon
    <3>5. Len(u) = n - 1
      <4>1. Len(u) = IF 1 <= n - 1 THEN n - 1 - 1 + 1 ELSE 0
        BY <3>2, Zenon
      <4> HIDE DEF n
      <4> QED BY <2>1, <4>1
    <3> QED BY <3>2, <3>4, <3>5
  <2> HIDE DEF u
  <2>4. f = <<h>> \o u
    BY <1>3, Zenon DEF Behind, u
  <2>a. <<h>> \in Seq(Phase3Snake!Cells) /\ Len(<<h>>) = 1 /\ <<h>>[1] = h
    OBVIOUS
  <2>b. f \in Seq(Phase3Snake!Cells) /\ Len(f) = Len(<<h>>) + Len(u)
    BY <2>3, <2>4, <2>a, ConcatProperties, Zenon
  <2>5. f \in Seq(Phase3Snake!Cells) /\ Len(f) = n /\ f[1] = h
    BY <2>1, <2>3, <2>4, <2>a, <2>b
  <2>6. \A i \in 2 .. n : f[i] = u[i - 1]
    BY <2>1, <2>3, <2>4
  <2> QED BY <2>1, <2>3, <2>5, <2>6
<1> QED BY <1>2, <1>3

\* A step onto a free cell leaves a trail, and so does one onto a fruit.
LEMMA TrailGoesOn ==
  ASSUME NEW h, NEW t, NEW d, Trail(h, t, d), NEW e \in Phase3Snake!Dirs,
         NEW g, g = Phase3Snake!Step(h, e), g \in Phase3Snake!Cells,
         \A i \in 1 .. Len(t) : t[i] # g,
         NEW f, f = Behind(h, t)
  PROVE  /\ Trail(g, f, e) /\ Len(f) = Len(t) /\ Len(t) \in Nat
         /\ Trail(g, Append(f, h), e) /\ Len(Append(f, h)) = Len(t) + 1
         /\ \A i \in 1 .. Len(f) : f[i] = h \/ \E j \in 1 .. Len(t) : f[i] = t[j]
<1> DEFINE n == Len(t)
           a == Append(f, h)
<1>1. h \in Phase3Snake!Cells /\ t \in Seq(Phase3Snake!Cells) /\ h \in Int \X Int
  BY DEF Trail, Phase3Snake!Cells
<1>2. /\ f \in Seq(Phase3Snake!Cells) /\ Len(f) = n /\ n \in Nat
      /\ n > 0 => f[1] = h
      /\ \A i \in 2 .. n : f[i] = t[i - 1]
  <2> HIDE DEF n
  <2>1. /\ f \in Seq(Phase3Snake!Cells) /\ Len(f) = Len(t) /\ Len(t) \in Nat
        /\ Len(t) > 0 => f[1] = h
        /\ \A i \in 2 .. Len(t) : f[i] = t[i - 1]
    BY <1>1, FollowedFacts
  <2> QED BY <2>1 DEF n
<1>3. /\ a \in Seq(Phase3Snake!Cells) /\ Len(a) = n + 1 /\ a[n + 1] = h
      /\ \A i \in 1 .. n : a[i] = f[i]
  BY <1>1, <1>2
<1>4. h # g /\ h = Phase3Snake!Step(g, Phase3Snake!Opposite(e))
  BY <1>1, StepFacts
<1>5. \A i \in 1 .. n : f[i] = h \/ \E j \in 1 .. n : f[i] = t[j]
  BY <1>2
<1>6. \A i \in 1 .. n : f[i] # g
  BY <1>4, <1>5
<1>7. \A i \in 1 .. n : t[i] # h
  BY DEF Trail
<1>k. Laid(t) \in {n - 1, n}
  BY <1>2 DEF Laid
<1>8. \A i, j \in 1 .. n : f[i] = f[j] => i = j
  <2> SUFFICES ASSUME NEW i \in 1 .. n, NEW j \in 1 .. n, f[i] = f[j] PROVE i = j
    OBVIOUS
  <2>1. \A k, l \in 1 .. n - 1 : t[k] = t[l] => k = l
    <3>1. \A k, l \in 1 .. Laid(t) : t[k] = t[l] => k = l
      BY DEF Trail
    <3>2. \A k \in 1 .. n - 1 : k \in 1 .. Laid(t)
      BY <1>2, <1>k
    <3> QED BY <3>1, <3>2
  <2>2. CASE i = 1 \/ j = 1
    BY <1>2, <1>7, <2>2
  <2>3. CASE i # 1 /\ j # 1
    <3>1. t[i - 1] = t[j - 1] /\ i - 1 \in 1 .. n - 1 /\ j - 1 \in 1 .. n - 1
      BY <1>2, <2>3
    <3>2. i - 1 = j - 1
      BY <2>1, <3>1
    <3> QED BY <3>2
  <2> QED BY <2>2, <2>3
<1>9. \A i \in 1 .. n - 1 : \E b \in Phase3Snake!Dirs : f[i + 1] = Phase3Snake!Step(f[i], b)
  <2> SUFFICES ASSUME NEW i \in 1 .. n - 1
               PROVE  \E b \in Phase3Snake!Dirs : f[i + 1] = Phase3Snake!Step(f[i], b)
    OBVIOUS
  <2>1. f[i + 1] = t[i]
    <3>1. i + 1 \in 2 .. n /\ (i + 1) - 1 = i
      BY <1>2
    <3> QED BY <1>2, <3>1
  <2>2. CASE i = 1
    <3>1. d \in Phase3Snake!Dirs /\ t[1] = Phase3Snake!Step(h, Phase3Snake!Opposite(d))
      BY <1>2 DEF Trail
    <3>2. Phase3Snake!Opposite(d) \in Phase3Snake!Dirs
      BY <1>1, <3>1, StepFacts
    <3>3. f[1] = h
      BY <1>2
    <3> QED BY <2>1, <2>2, <3>1, <3>2, <3>3
  <2>3. CASE i # 1
    <3>1. i - 1 \in 1 .. Laid(t) - 1 /\ (i - 1) + 1 = i
      BY <1>2, <1>k, <2>3
    <3>2. \E b \in Phase3Snake!Dirs : t[i] = Phase3Snake!Step(t[i - 1], b)
      BY <3>1 DEF Trail
    <3>3. f[i] = t[i - 1]
      BY <1>2, <2>3
    <3> QED BY <2>1, <3>2, <3>3
  <2> QED BY <2>2, <2>3
<1>10. Laid(f) = n
  <2>1. n > 1 => f[n] # f[1]
    BY <1>2, <1>8
  <2> QED BY <1>2, <2>1 DEF Laid
<1>11. Trail(g, f, e)
  BY <1>2, <1>4, <1>6, <1>8, <1>9, <1>10 DEF Trail
<1> HIDE DEF a
<1>12. CASE n = 0
  <2>1. Len(a) = 1 /\ a[1] = h /\ Laid(a) = 1
    BY <1>3, <1>12 DEF Laid
  <2>2. Trail(g, a, e)
    BY <1>3, <1>4, <2>1 DEF Trail
  <2> QED BY <1>2, <1>3, <1>5, <1>11, <2>2 DEF a
<1>13. CASE n > 0
  <2>1. a[1] = h
    BY <1>2, <1>3, <1>13
  <2>2. Laid(a) = n
    BY <1>2, <1>3, <1>13, <2>1 DEF Laid
  <2>3. \A i \in 1 .. n + 1 : a[i] # g
    <3>1. \A i \in 1 .. n + 1 : i \in 1 .. n \/ i = n + 1
      BY <1>2
    <3> QED BY <1>3, <1>4, <1>6, <3>1
  <2>4. \A i, j \in 1 .. n : a[i] = a[j] => i = j
    BY <1>3, <1>8
  <2>5. \A i \in 1 .. n - 1 : \E b \in Phase3Snake!Dirs : a[i + 1] = Phase3Snake!Step(a[i], b)
    BY <1>2, <1>3, <1>9
  <2>6. Trail(g, a, e)
    BY <1>3, <1>4, <2>1, <2>2, <2>3, <2>4, <2>5 DEF Trail
  <2> QED BY <1>2, <1>3, <1>5, <1>11, <2>6 DEF a
<1> QED BY <1>2, <1>12, <1>13

-----------------------------------------------------------------------------
(* The invariant.                                                          *)

\* The screens of a game that goes on.
Plays == {"playing", "saving"}

\* What is on the screen.
P3Shape ==
  /\ screen \in {"menu", "playing", "saving", "over", "stuck", "gone"}
  /\ named \in BOOLEAN /\ gameover \in BOOLEAN
  /\ head \in (-1 .. width) \X (-1 .. height) /\ fruit \in Phase3Snake!Cells
  /\ tail \in Seq(Phase3Snake!Cells) /\ heading \in Phase3Snake!Dirs \cup {"stop"}
  /\ length_score \in Nat
  /\ screen \in Plays =>
       /\ Trail(head, tail, heading) /\ 10 * Len(tail) = length_score
       /\ fruit # head /\ \A i \in 1 .. Len(tail) : tail[i] # fruit

\* A score on file.
OfFile(b) == IF b \in {Phase3Snake!Empty, Phase3Snake!Absent} THEN 0 ELSE b

\* What is known of the scores: the other process has taken over the highest one
\* when it started, and this one plays alone.
P3Scores ==
  /\ highestScore \in Nat /\ top \in Nat \cup {-1} /\ torn \in BOOLEAN
  /\ best_file \in Nat \cup {Phase3Snake!Empty, Phase3Snake!Absent}
  /\ \/ elsewhere = Phase3Snake!None
     \/ elsewhere \in [highestScore : Nat, score : Nat, saving : BOOLEAN]
  /\ ~torn =>
       \/ /\ elsewhere = Phase3Snake!None
          /\ top <= IF screen = "saving" THEN highestScore ELSE OfFile(best_file)
          /\ screen \in Plays => length_score <= highestScore
          /\ screen = "playing" => highestScore = OfFile(best_file)
          /\ best_file = Phase3Snake!Empty => screen = "saving"
       \/ /\ elsewhere # Phase3Snake!None /\ screen \notin Plays
          /\ elsewhere.score <= elsewhere.highestScore /\ top <= elsewhere.highestScore
          /\ elsewhere.saving = FALSE =>
               elsewhere.highestScore = OfFile(best_file) /\ best_file # Phase3Snake!Empty

P3Inv == P3Shape /\ P3Scores

\* The two marks for a file without a score, and the record for no other process.
LEMMA FileFacts ==
  /\ \A b \in Nat : OfFile(b) = b
  /\ OfFile(Phase3Snake!Empty) = 0 /\ OfFile(Phase3Snake!Absent) = 0
  /\ \A b \in Nat \cup {Phase3Snake!Empty, Phase3Snake!Absent} : OfFile(b) \in Nat
  /\ Phase3Snake!OnFile = OfFile(best_file) /\ Phase3Snake!Loaded(0) = OfFile(best_file)
  /\ \A h : best_file # Phase3Snake!Empty => Phase3Snake!Loaded(h) = OfFile(best_file)
  /\ \A h \in Nat : OfFile(best_file) \in Nat => Phase3Snake!Loaded(h) \in Nat
  /\ Phase3Snake!Absent # Phase3Snake!Empty /\ \A b \in Nat : b # Phase3Snake!Empty
  /\ Phase3Snake!None.saving = FALSE
  /\ Phase3Snake!None \notin [highestScore : Nat, score : Nat, saving : BOOLEAN]
<1>1. Phase3Snake!OnFile = OfFile(best_file)
  BY Zenon DEF Phase3Snake!OnFile, OfFile
<1>5. \A h : Phase3Snake!Loaded(h) = IF best_file = Phase3Snake!Empty THEN h ELSE OfFile(best_file)
  BY <1>1, Zenon DEF Phase3Snake!Loaded
<1>6. Phase3Snake!Loaded(0) = OfFile(best_file)
  BY <1>5, Zenon DEF OfFile
<1>2. Phase3Snake!Empty = -1 /\ Phase3Snake!Absent = -2
  BY DEF Phase3Snake!Empty, Phase3Snake!Absent
<1>3. Phase3Snake!None.saving = FALSE /\ Phase3Snake!None.score = -1
  BY DEF Phase3Snake!None
<1>4. Phase3Snake!None \notin [highestScore : Nat, score : Nat, saving : BOOLEAN]
  <2>1. \A r \in [highestScore : Nat, score : Nat, saving : BOOLEAN] : r.score \in Nat
    OBVIOUS
  <2>2. ~(-1 \in Nat)
    OBVIOUS
  <2> QED BY <1>3, <2>1, <2>2, Zenon
<1> QED BY <1>1, <1>2, <1>3, <1>4, <1>5, <1>6 DEF OfFile

\* The game starts so, ...
LEMMA P3Starts == Phase3Snake!Init => P3Inv
<1> SUFFICES ASSUME Phase3Snake!Init PROVE P3Inv
  OBVIOUS
<1>1. /\ screen = "menu" /\ named = FALSE
      /\ head = <<0, 0>> /\ fruit = <<0, 0>> /\ tail = <<>> /\ heading = "stop"
      /\ length_score = 0 /\ gameover = FALSE /\ highestScore = 0
      /\ best_file = Phase3Snake!Absent /\ top = -1
      /\ elsewhere = Phase3Snake!None /\ torn = FALSE
  BY DEF Phase3Snake!Init
<1>2. P3Shape
  <2>1. <<0, 0>> \in Phase3Snake!Cells /\ <<0, 0>> \in (-1 .. width) \X (-1 .. height)
    BY ScreenHasCells DEF Phase3Snake!Cells
  <2>2. screen \notin Plays /\ tail \in Seq(Phase3Snake!Cells)
    BY <1>1 DEF Plays
  <2> QED BY <1>1, <2>1, <2>2 DEF P3Shape
<1>3. P3Scores
  <2>1. screen \notin Plays /\ OfFile(best_file) = 0
    BY <1>1, FileFacts DEF Plays
  <2>2. top <= IF screen = "saving" THEN highestScore ELSE OfFile(best_file)
    BY <1>1, <2>1
  <2>3. best_file # Phase3Snake!Empty
    BY <1>1, FileFacts
  <2> QED BY <1>1, <2>1, <2>2, <2>3 DEF P3Scores, Plays
<1> QED BY <1>2, <1>3 DEF P3Inv

\* Where a key takes the head.
LEMMA AimFacts ==
  ASSUME P3Inv, screen = "playing", NEW key \in Phase3Snake!Keys, Phase3Snake!Aim(key)
  PROVE  /\ heading' \in Phase3Snake!Dirs \cup {"stop"}
         /\ tail # <<>> =>
              /\ heading \in Phase3Snake!Dirs /\ heading' \in Phase3Snake!Dirs
              /\ heading' # Phase3Snake!Opposite(heading)
<1>1. /\ heading \in Phase3Snake!Dirs \cup {"stop"} /\ Trail(head, tail, heading)
  BY DEF P3Inv, P3Shape, Plays
<1>2. tail # <<>> => heading \in Phase3Snake!Dirs
  <2>1. tail \in Seq(Phase3Snake!Cells)
    BY <1>1 DEF Trail
  <2>2. tail # <<>> => Len(tail) > 0
    BY <2>1
  <2> QED BY <1>1, <2>2 DEF Trail
<1>3. heading' = heading \/ (heading' = key /\ heading # Phase3Snake!Opposite(key)
                              /\ key \in Phase3Snake!Dirs)
  BY DEF Phase3Snake!Aim, Phase3Snake!Keys
<1>4. \A d \in Phase3Snake!Dirs : /\ Phase3Snake!Opposite(d) # d
                                  /\ Phase3Snake!Opposite(Phase3Snake!Opposite(d)) = d
  BY DEF Phase3Snake!Opposite, Phase3Snake!Dirs
<1> QED BY <1>1, <1>2, <1>3, <1>4

\* How a frame ends.
LEMMA EndFacts ==
  ASSUME Phase3Snake!EndOfFrame
  PROVE  \/ /\ screen' = "over"
            /\ (top' = length_score' /\ length_score' > top) \/ (top' = top /\ ~(length_score' > top))
         \/ screen' = "playing" /\ top' = top
<1>1. CASE gameover'
  <2>1. screen' = "over" /\ top' = IF length_score' > top THEN length_score' ELSE top
    BY <1>1, Zenon DEF Phase3Snake!EndOfFrame
  <2> QED BY <2>1, Zenon
<1>2. CASE ~gameover'
  BY <1>2, Zenon DEF Phase3Snake!EndOfFrame
<1> QED BY <1>1, <1>2, Zenon

\* A game that ends its frame after the scores agree.
LEMMA ScoresAfterFrame ==
  ASSUME P3Inv, ~torn, screen \in Plays, Phase3Snake!EndOfFrame,
         torn' = torn, elsewhere' = elsewhere, highestScore' \in Nat, length_score' \in Nat,
         best_file' \in Nat \cup {Phase3Snake!Empty, Phase3Snake!Absent},
         top <= highestScore', length_score' <= highestScore',
         OfFile(best_file') = highestScore', best_file' # Phase3Snake!Empty
  PROVE  P3Scores' /\ screen' \in {"over", "playing"}
<1>1. elsewhere = Phase3Snake!None /\ top \in Nat \cup {-1}
  BY DEF P3Inv, P3Scores
<1>2. screen' \in {"over", "playing"} /\ screen' # "saving"
  BY EndFacts
<1>3. top' \in Nat \cup {-1} /\ top' <= highestScore'
  BY <1>1, EndFacts
<1>4. torn' = FALSE /\ elsewhere' = Phase3Snake!None
  BY <1>1 DEF P3Inv, P3Scores
<1>5. top' <= IF screen' = "saving" THEN highestScore' ELSE OfFile(best_file')
  BY <1>2, <1>3
<1> QED BY <1>2, <1>3, <1>4, <1>5 DEF P3Scores

\* In a game that plays the highest score is on file.
LEMMA PlayingFacts ==
  ASSUME P3Inv, ~torn, screen = "playing"
  PROVE  /\ elsewhere = Phase3Snake!None /\ highestScore \in Nat /\ length_score \in Nat
         /\ best_file \in Nat \cup {Phase3Snake!Empty, Phase3Snake!Absent}
         /\ OfFile(best_file) = highestScore /\ length_score <= highestScore
         /\ best_file # Phase3Snake!Empty
         /\ top \in Nat \cup {-1} /\ top <= highestScore
         /\ Trail(head, tail, heading) /\ 10 * Len(tail) = length_score
         /\ fruit # head /\ \A i \in 1 .. Len(tail) : tail[i] # fruit
         /\ fruit \in Phase3Snake!Cells
  BY DEF P3Inv, P3Shape, P3Scores, Plays

-----------------------------------------------------------------------------
(* The frames.                                                             *)

\* A frame in which the snake stands.
LEMMA P3Stand ==
  ASSUME P3Inv, ~torn, NEW key \in Phase3Snake!Keys, Phase3Snake!Stand(key)
  PROVE  P3Inv' /\ Phase3Snake!NeverIntoTheNeck
<1>1. /\ screen = "playing" /\ Phase3Snake!Aim(key) /\ heading' = "stop"
      /\ gameover' = (key = "escape") /\ Phase3Snake!EndOfFrame
      /\ named' = named /\ elsewhere' = elsewhere /\ torn' = torn
      /\ head' = head /\ fruit' = fruit /\ tail' = tail /\ length_score' = length_score
      /\ highestScore' = highestScore /\ best_file' = best_file
  BY Zenon DEF Phase3Snake!Stand, Phase3Snake!Frame
<1>2. heading' \in Phase3Snake!Dirs \cup {"stop"} /\ tail = <<>>
  <2>1. tail # <<>> => heading' \in Phase3Snake!Dirs
    BY <1>1, AimFacts
  <2>2. "stop" \notin Phase3Snake!Dirs
    BY DEF Phase3Snake!Dirs
  <2> QED BY <1>1, <2>1, <2>2
<1>3. gameover' \in BOOLEAN
  BY <1>1, Zenon
<1>4. P3Scores' /\ screen' \in {"over", "playing"}
  <2>1. screen \in Plays
    BY <1>1 DEF Plays
  <2>2. /\ highestScore' \in Nat /\ length_score' \in Nat
        /\ best_file' \in Nat \cup {Phase3Snake!Empty, Phase3Snake!Absent}
        /\ top <= highestScore' /\ length_score' <= highestScore' /\ OfFile(best_file') = highestScore'
        /\ best_file' # Phase3Snake!Empty
    BY <1>1, PlayingFacts
  <2> QED BY <1>1, <2>1, <2>2, ScoresAfterFrame
<1>5. Trail(head', tail', heading')
  <2>1. Trail(head, tail, heading) /\ Len(tail) = 0
    BY <1>1, <1>2, PlayingFacts
  <2> QED BY <1>1, <2>1 DEF Trail
<1>6. P3Shape'
  <2>1. P3Shape
    BY DEF P3Inv
  <2>2. /\ named \in BOOLEAN /\ head \in (-1 .. width) \X (-1 .. height)
        /\ fruit \in Phase3Snake!Cells /\ tail \in Seq(Phase3Snake!Cells) /\ length_score \in Nat
        /\ 10 * Len(tail) = length_score /\ fruit # head
        /\ \A i \in 1 .. Len(tail) : tail[i] # fruit
    BY <1>1, <2>1 DEF P3Shape, Plays
  <2> QED BY <1>1, <1>2, <1>3, <1>4, <1>5, <2>2 DEF P3Shape
<1> QED BY <1>2, <1>4, <1>6 DEF P3Inv, Phase3Snake!NeverIntoTheNeck

\* The step of a frame does not lead into the neck.
LEMMA NotIntoTheNeck ==
  ASSUME P3Inv, ~torn, screen = "playing", NEW key \in Phase3Snake!Keys, Phase3Snake!Aim(key),
         heading' # "stop", head' = Phase3Snake!Step(head, heading')
  PROVE  /\ heading' \in Phase3Snake!Dirs /\ head \in Phase3Snake!Cells
         /\ head' \in (-1 .. width) \X (-1 .. height)
         /\ Phase3Snake!NeverIntoTheNeck
<1>1. heading' \in Phase3Snake!Dirs
  BY AimFacts
<1>2. Trail(head, tail, heading)
  BY PlayingFacts
<1>3. head \in Phase3Snake!Cells /\ head \in Int \X Int
  BY <1>2 DEF Trail, Phase3Snake!Cells
<1>4. head' \in (-1 .. width) \X (-1 .. height)
  BY <1>1, <1>3, StepFacts
<1>5. ASSUME tail # <<>> PROVE head' # tail[1]
  <2>1. /\ heading \in Phase3Snake!Dirs /\ heading' # Phase3Snake!Opposite(heading)
    BY <1>5, AimFacts
  <2>2. tail[1] = Phase3Snake!Step(head, Phase3Snake!Opposite(heading))
    <3>1. tail \in Seq(Phase3Snake!Cells)
      BY <1>2 DEF Trail
    <3>2. Len(tail) > 0
      BY <1>5, <3>1
    <3> QED BY <1>2, <3>2 DEF Trail
  <2>3. Phase3Snake!Opposite(heading) \in Phase3Snake!Dirs
    BY <1>3, <2>1, StepFacts
  <2> QED BY <1>1, <1>3, <2>1, <2>2, <2>3, StepFacts
<1> QED BY <1>1, <1>3, <1>4, <1>5 DEF Phase3Snake!NeverIntoTheNeck

\* A frame in which it runs into the border or itself.
LEMMA P3Collide ==
  ASSUME P3Inv, ~torn, NEW key \in Phase3Snake!Keys, Phase3Snake!Collide(key)
  PROVE  P3Inv' /\ Phase3Snake!NeverIntoTheNeck
<1>1. /\ screen = "playing" /\ Phase3Snake!Aim(key) /\ heading' # "stop"
      /\ gameover' = TRUE /\ Phase3Snake!EndOfFrame
      /\ named' = named /\ elsewhere' = elsewhere /\ torn' = torn
      /\ head' = Phase3Snake!Step(head, heading')
      /\ fruit' = fruit /\ tail' = tail /\ length_score' = length_score
      /\ highestScore' = highestScore /\ best_file' = best_file
  BY Zenon DEF Phase3Snake!Collide, Phase3Snake!Frame
<1>2. /\ heading' \in Phase3Snake!Dirs /\ head' \in (-1 .. width) \X (-1 .. height)
      /\ Phase3Snake!NeverIntoTheNeck
  BY <1>1, NotIntoTheNeck
<1>3. screen' = "over"
  BY <1>1, Zenon DEF Phase3Snake!EndOfFrame
<1>4. P3Scores'
  <2>1. screen \in Plays
    BY <1>1 DEF Plays
  <2>2. /\ highestScore' \in Nat /\ length_score' \in Nat
        /\ best_file' \in Nat \cup {Phase3Snake!Empty, Phase3Snake!Absent}
        /\ top <= highestScore' /\ length_score' <= highestScore' /\ OfFile(best_file') = highestScore'
        /\ best_file' # Phase3Snake!Empty
    BY <1>1, PlayingFacts
  <2> QED BY <1>1, <2>1, <2>2, ScoresAfterFrame
<1>5. P3Shape'
  <2>1. P3Shape
    BY DEF P3Inv
  <2>2. /\ named \in BOOLEAN /\ fruit \in Phase3Snake!Cells
        /\ tail \in Seq(Phase3Snake!Cells) /\ length_score \in Nat
    BY <2>1 DEF P3Shape
  <2>3. screen' \notin Plays
    BY <1>3 DEF Plays
  <2> QED BY <1>1, <1>2, <1>3, <2>2, <2>3 DEF P3Shape
<1> QED BY <1>2, <1>4, <1>5 DEF P3Inv

\* The tail that follows.
LEMMA FollowedIsBehind ==
  /\ Phase3Snake!Followed = Behind(head, tail)
  /\ \A p : p \in Phase3Snake!ToSet(tail) <=> \E i \in DOMAIN tail : p = tail[i]
  BY DEF Phase3Snake!Followed, Behind, Phase3Snake!ToSet

\* Where the snake of a frame steps to, unless it crashes.
LEMMA StepAhead ==
  ASSUME P3Inv, ~torn, screen = "playing", NEW key \in Phase3Snake!Keys, Phase3Snake!Aim(key),
         heading' # "stop", ~Phase3Snake!Crashes, NEW g, g = Phase3Snake!Step(head, heading'),
         NEW f, f = Phase3Snake!Followed
  PROVE  /\ Trail(g, f, heading') /\ Trail(g, Append(f, head), heading')
         /\ Len(f) = Len(tail) /\ Len(tail) \in Nat /\ Len(Append(f, head)) = Len(tail) + 1
         /\ g \in Phase3Snake!Cells /\ g \in (-1 .. width) \X (-1 .. height)
         /\ heading' \in Phase3Snake!Dirs
         /\ \A i \in 1 .. Len(f) : f[i] = head \/ \E j \in 1 .. Len(tail) : f[i] = tail[j]
<1>1. heading' \in Phase3Snake!Dirs
  BY AimFacts
<1>2. Trail(head, tail, heading)
  BY PlayingFacts
<1>3. head \in Phase3Snake!Cells /\ tail \in Seq(Phase3Snake!Cells) /\ DOMAIN tail = 1 .. Len(tail)
  BY <1>2 DEF Trail
<1>4. g \in Phase3Snake!Cells /\ g \notin Phase3Snake!ToSet(tail)
  BY Zenon DEF Phase3Snake!Crashes
<1>5. \A i \in 1 .. Len(tail) : tail[i] # g
  BY <1>3, <1>4, FollowedIsBehind, Zenon
<1>6. f = Behind(head, tail)
  BY FollowedIsBehind, Zenon
<1>7. g \in (-1 .. width) \X (-1 .. height)
  BY <1>4, ScreenHasCells DEF Phase3Snake!Cells
<1> QED BY <1>1, <1>2, <1>4, <1>5, <1>6, <1>7, TrailGoesOn

\* A frame in which it moves.
LEMMA P3Move ==
  ASSUME P3Inv, ~torn, NEW key \in Phase3Snake!Keys, Phase3Snake!Move(key)
  PROVE  P3Inv' /\ Phase3Snake!NeverIntoTheNeck
<1>1. /\ screen = "playing" /\ Phase3Snake!Aim(key) /\ heading' # "stop" /\ ~Phase3Snake!Crashes
      /\ Phase3Snake!Step(head, heading') # fruit
      /\ gameover' = (key = "escape") /\ Phase3Snake!EndOfFrame
      /\ named' = named /\ elsewhere' = elsewhere /\ torn' = torn
      /\ head' = Phase3Snake!Step(head, heading') /\ tail' = Phase3Snake!Followed
      /\ fruit' = fruit /\ length_score' = length_score
      /\ highestScore' = highestScore /\ best_file' = best_file
  BY Zenon DEF Phase3Snake!Move, Phase3Snake!Frame
<1>2. Phase3Snake!NeverIntoTheNeck
  BY <1>1, NotIntoTheNeck
<1>3. gameover' \in BOOLEAN
  BY <1>1, Zenon
<1>4. P3Scores' /\ screen' \in {"over", "playing"}
  <2>1. screen \in Plays
    BY <1>1 DEF Plays
  <2>2. /\ highestScore' \in Nat /\ length_score' \in Nat
        /\ best_file' \in Nat \cup {Phase3Snake!Empty, Phase3Snake!Absent}
        /\ top <= highestScore' /\ length_score' <= highestScore' /\ OfFile(best_file') = highestScore'
        /\ best_file' # Phase3Snake!Empty
    BY <1>1, PlayingFacts
  <2> QED BY <1>1, <2>1, <2>2, ScoresAfterFrame
<1>5. /\ Trail(head', tail', heading') /\ Len(tail') = Len(tail)
      /\ head' \in (-1 .. width) \X (-1 .. height) /\ heading' \in Phase3Snake!Dirs
      /\ \A i \in 1 .. Len(tail') : tail'[i] = head \/ \E j \in 1 .. Len(tail) : tail'[i] = tail[j]
  BY <1>1, StepAhead
<1>6. P3Shape'
  <2>1. /\ named \in BOOLEAN
    BY DEF P3Inv, P3Shape
  <2>2. /\ length_score \in Nat /\ 10 * Len(tail) = length_score
        /\ fruit # head /\ (\A i \in 1 .. Len(tail) : tail[i] # fruit)
        /\ fruit \in Phase3Snake!Cells
    BY <1>1, PlayingFacts
  <2>3. fruit' # head' /\ \A i \in 1 .. Len(tail') : tail'[i] # fruit'
    BY <1>1, <1>5, <2>2
  <2>4. tail' \in Seq(Phase3Snake!Cells)
    BY <1>5 DEF Trail
  <2> QED BY <1>1, <1>3, <1>4, <1>5, <2>1, <2>2, <2>3, <2>4 DEF P3Shape
<1> QED BY <1>2, <1>4, <1>6 DEF P3Inv

\* A frame in which it eats the fruit: it grows, and the score may be the highest.
LEMMA P3Eat ==
  ASSUME P3Inv, ~torn, NEW key \in Phase3Snake!Keys, Phase3Snake!Eat(key)
  PROVE  P3Inv' /\ Phase3Snake!NeverIntoTheNeck
<1> DEFINE free == Phase3Snake!Free(head', tail')
<1>1. /\ screen = "playing" /\ Phase3Snake!Aim(key) /\ heading' # "stop" /\ ~Phase3Snake!Crashes
      /\ Phase3Snake!Step(head, heading') = fruit
      /\ head' = fruit /\ tail' = Append(Phase3Snake!Followed, head)
      /\ length_score' = length_score + 10 /\ gameover' = (key = "escape")
      /\ named' = named /\ elsewhere' = elsewhere /\ torn' = torn
      /\ IF free = {}
           THEN screen' = "stuck" /\ UNCHANGED <<fruit, highestScore, best_file, top>>
           ELSE /\ fruit' \in free
                /\ IF length_score' > highestScore
                     THEN /\ highestScore' = length_score' /\ best_file' = Phase3Snake!Empty
                          /\ screen' = "saving" /\ UNCHANGED top
                     ELSE Phase3Snake!EndOfFrame /\ UNCHANGED <<highestScore, best_file>>
  BY Zenon DEF Phase3Snake!Eat, Phase3Snake!Frame
<1>2. head' = Phase3Snake!Step(head, heading')
  BY <1>1, Zenon
<1>3. Phase3Snake!NeverIntoTheNeck
  BY <1>1, <1>2, NotIntoTheNeck
<1>4. gameover' \in BOOLEAN /\ named' \in BOOLEAN
  <2>1. named \in BOOLEAN
    BY DEF P3Inv, P3Shape
  <2> QED BY <1>1, <2>1, Zenon
<1>5. /\ Trail(head', tail', heading') /\ Len(tail') = Len(tail) + 1 /\ Len(tail) \in Nat
      /\ head' \in (-1 .. width) \X (-1 .. height) /\ heading' \in Phase3Snake!Dirs
  <2>1. /\ Trail(head', Append(Phase3Snake!Followed, head), heading')
        /\ Len(Append(Phase3Snake!Followed, head)) = Len(tail) + 1 /\ Len(tail) \in Nat
        /\ head' \in (-1 .. width) \X (-1 .. height) /\ heading' \in Phase3Snake!Dirs
    BY <1>1, <1>2, StepAhead
  <2> QED BY <1>1, <2>1, Zenon
<1>6. tail' \in Seq(Phase3Snake!Cells)
  BY <1>5 DEF Trail
<1>7. length_score' \in Nat /\ 10 * Len(tail') = length_score'
  <2>1. length_score \in Nat /\ 10 * Len(tail) = length_score
    BY <1>1, PlayingFacts
  <2>2. length_score' = length_score + 10
    BY <1>1, Zenon
  <2>3. Len(tail') = Len(tail) + 1 /\ Len(tail) \in Nat
    BY <1>5
  <2> QED BY <2>1, <2>2, <2>3
<1>8. /\ elsewhere = Phase3Snake!None /\ highestScore \in Nat
      /\ best_file \in Nat \cup {Phase3Snake!Empty, Phase3Snake!Absent}
      /\ OfFile(best_file) = highestScore /\ top \in Nat \cup {-1} /\ top <= highestScore
      /\ best_file # Phase3Snake!Empty
      /\ fruit \in Phase3Snake!Cells
  BY <1>1, PlayingFacts
<1>9. CASE free = {}
  <2>1. /\ screen' = "stuck" /\ fruit' = fruit /\ highestScore' = highestScore
        /\ best_file' = best_file /\ top' = top
    BY <1>1, <1>9, Zenon
  <2>2. screen' \notin Plays /\ screen' # "saving"
    BY <2>1 DEF Plays
  <2>3. P3Shape'
    BY <1>4, <1>5, <1>6, <1>7, <1>8, <2>1, <2>2 DEF P3Shape
  <2>4. P3Scores'
    <3>1. top' <= IF screen' = "saving" THEN highestScore' ELSE OfFile(best_file')
      BY <1>8, <2>1, <2>2
    <3>2. torn' = FALSE /\ elsewhere' = Phase3Snake!None
      BY <1>1, <1>8 DEF P3Inv, P3Scores
    <3>3. screen' # "playing"
      BY <2>1
    <3> QED BY <1>8, <2>1, <2>2, <3>1, <3>2, <3>3 DEF P3Scores
  <2> QED BY <1>3, <2>3, <2>4 DEF P3Inv
<1>10. CASE free # {}
  <2>1. /\ fruit' \in free
        /\ IF length_score' > highestScore
             THEN /\ highestScore' = length_score' /\ best_file' = Phase3Snake!Empty
                  /\ screen' = "saving" /\ top' = top
             ELSE Phase3Snake!EndOfFrame /\ highestScore' = highestScore /\ best_file' = best_file
    BY <1>1, <1>10, Zenon
  <2>2. /\ fruit' \in Phase3Snake!Cells /\ fruit' # head'
        /\ \A i \in 1 .. Len(tail') : tail'[i] # fruit'
    <3>1. /\ fruit' \in Phase3Snake!Cells /\ fruit' # head'
          /\ fruit' \notin Phase3Snake!ToSet(tail')
      BY <2>1 DEF Phase3Snake!Free
    <3>2. \A i \in DOMAIN tail' : tail'[i] # fruit'
      BY <3>1 DEF Phase3Snake!ToSet
    <3>3. DOMAIN tail' = 1 .. Len(tail')
      BY <1>6
    <3> QED BY <3>1, <3>2, <3>3
  <2>3. ASSUME screen' \in {"over", "playing", "saving"} PROVE P3Shape'
    <3>1. /\ screen' \in {"menu", "playing", "saving", "over", "stuck", "gone"}
      BY <2>3
    <3> QED BY <1>4, <1>5, <1>6, <1>7, <2>2, <3>1 DEF P3Shape
  <2>4. CASE length_score' > highestScore
    <3>1. /\ highestScore' = length_score' /\ best_file' = Phase3Snake!Empty
          /\ screen' = "saving" /\ top' = top
      BY <2>1, <2>4, Zenon
    <3>2. P3Scores'
      <4>1. top' <= highestScore'
        BY <1>7, <1>8, <2>4, <3>1
      <4>2. top' <= IF screen' = "saving" THEN highestScore' ELSE OfFile(best_file')
        BY <3>1, <4>1
      <4>3. torn' = FALSE /\ elsewhere' = Phase3Snake!None
        BY <1>1, <1>8 DEF P3Inv, P3Scores
      <4>4. /\ highestScore' \in Nat /\ length_score' <= highestScore' /\ screen' # "playing"
            /\ screen' = "saving"
            /\ best_file' \in Nat \cup {Phase3Snake!Empty, Phase3Snake!Absent}
            /\ top' \in Nat \cup {-1}
        BY <1>7, <1>8, <3>1
      <4> QED BY <4>2, <4>3, <4>4 DEF P3Scores
    <3> QED BY <1>3, <2>3, <3>1, <3>2 DEF P3Inv
  <2>5. CASE ~(length_score' > highestScore)
    <3>1. Phase3Snake!EndOfFrame /\ highestScore' = highestScore /\ best_file' = best_file
      BY <2>1, <2>5, Zenon
    <3>2. P3Scores' /\ screen' \in {"over", "playing"}
      <4>1. screen \in Plays
        BY <1>1 DEF Plays
      <4>2. length_score' <= highestScore'
        BY <1>7, <1>8, <2>5, <3>1
      <4> QED BY <1>1, <1>7, <1>8, <3>1, <4>1, <4>2, ScoresAfterFrame
    <3> QED BY <1>3, <2>3, <3>2 DEF P3Inv
  <2> QED BY <2>4, <2>5
<1> QED BY <1>9, <1>10

\* The new highest score is on file.
LEMMA P3Saved ==
  ASSUME P3Inv, ~torn, Phase3Snake!Saved
  PROVE  P3Inv' /\ Phase3Snake!NeverIntoTheNeck
<1>1. /\ screen = "saving" /\ best_file' = highestScore /\ Phase3Snake!EndOfFrame
      /\ named' = named /\ head' = head /\ fruit' = fruit /\ tail' = tail /\ heading' = heading
      /\ length_score' = length_score /\ gameover' = gameover
      /\ highestScore' = highestScore /\ elsewhere' = elsewhere /\ torn' = torn
  BY DEF Phase3Snake!Saved, Phase3Snake!game
<1>2. /\ highestScore \in Nat /\ length_score \in Nat /\ top <= highestScore
      /\ length_score <= highestScore
  BY <1>1 DEF P3Inv, P3Shape, P3Scores, Plays
<1>3. P3Scores' /\ screen' \in {"over", "playing"}
  <2>1. /\ screen \in Plays /\ OfFile(best_file') = highestScore'
        /\ best_file' # Phase3Snake!Empty
    BY <1>1, <1>2, FileFacts DEF Plays
  <2> QED BY <1>1, <1>2, <2>1, ScoresAfterFrame
<1>4. P3Shape'
  <2>1. P3Shape /\ screen \in Plays
    BY <1>1 DEF P3Inv, Plays
  <2> QED BY <1>1, <1>3, <2>1 DEF P3Shape
<1>5. screen # "playing"
  BY <1>1
<1> QED BY <1>3, <1>4, <1>5 DEF P3Inv, Phase3Snake!NeverIntoTheNeck

-----------------------------------------------------------------------------
(* The menus, the kernel and the other process.                            *)

\* A new game takes over the highest score.
LEMMA P3StartGame ==
  ASSUME P3Inv, ~torn, Phase3Snake!StartGame
  PROVE  P3Inv' /\ Phase3Snake!NeverIntoTheNeck
<1>1. /\ screen \in {"over", "menu"}
      /\ screen' = "playing" /\ head' = <<width \div 2, height \div 2>> /\ tail' = <<>>
      /\ fruit' \in Phase3Snake!Free(head', <<>>)
      /\ length_score' = 0 /\ heading' = "stop" /\ gameover' = FALSE
      /\ highestScore' = Phase3Snake!Loaded(highestScore)
      /\ torn' = (torn \/ elsewhere # Phase3Snake!None)
      /\ named' = named /\ best_file' = best_file /\ top' = top /\ elsewhere' = elsewhere
  <2>1. screen = "over" \/ screen = "menu"
    BY Zenon DEF Phase3Snake!StartGame
  <2>2. screen \in {"over", "menu"}
    BY <2>1
  <2> QED BY <2>2, Zenon DEF Phase3Snake!StartGame
<1>2. head' \in Phase3Snake!Cells /\ head' \in (-1 .. width) \X (-1 .. height)
  <2>1. width \div 2 \in 0 .. width - 1 /\ height \div 2 \in 0 .. height - 1
    BY ScreenHasCells
  <2>2. <<width \div 2, height \div 2>> \in Phase3Snake!Cells
    BY <2>1 DEF Phase3Snake!Cells
  <2>3. <<width \div 2, height \div 2>> \in (-1 .. width) \X (-1 .. height)
    <3> DEFINE x == width \div 2
               y == height \div 2
    <3>1. x \in -1 .. width /\ y \in -1 .. height
      BY <2>1, ScreenHasCells
    <3> QED BY <3>1
  <2> QED BY <1>1, <2>2, <2>3
<1>3. fruit' \in Phase3Snake!Cells /\ fruit' # head'
  BY <1>1 DEF Phase3Snake!Free
<1>4. tail' \in Seq(Phase3Snake!Cells) /\ Len(tail') = 0
  BY <1>1
<1>5. Trail(head', tail', heading')
  <2>1. Laid(tail') = 0
    BY <1>4 DEF Laid
  <2> QED BY <1>2, <1>4, <2>1 DEF Trail
<1>6. named' \in BOOLEAN
  BY <1>1 DEF P3Inv, P3Shape
<1>7. P3Shape'
  <2>1. /\ screen' = "playing" /\ gameover' \in BOOLEAN
        /\ heading' \in Phase3Snake!Dirs \cup {"stop"} /\ length_score' \in Nat
    BY <1>1
  <2>2. 10 * Len(tail') = length_score'
    BY <1>1, <1>4
  <2>3. \A i \in 1 .. Len(tail') : tail'[i] # fruit'
    BY <1>4
  <2> QED BY <1>2, <1>3, <1>4, <1>5, <1>6, <2>1, <2>2, <2>3 DEF P3Shape
<1>8. torn' \in BOOLEAN /\ (~torn' => elsewhere = Phase3Snake!None)
  BY <1>1, Zenon DEF P3Inv, P3Scores
<1>9. P3Scores'
  <2>1. P3Scores
    BY DEF P3Inv
  <2>2. screen # "saving"
    BY <1>1
  <2>3. highestScore' \in Nat /\ OfFile(best_file) \in Nat
    BY <1>1, <2>1, FileFacts DEF P3Scores
  <2>a. ASSUME ~torn' PROVE best_file # Phase3Snake!Empty /\ highestScore' = OfFile(best_file)
    <3>1. best_file # Phase3Snake!Empty
      BY <1>8, <2>1, <2>2, <2>a, Zenon DEF P3Scores
    <3> QED BY <1>1, <3>1, FileFacts, Zenon
  <2>4. ASSUME ~torn' PROVE top' <= IF screen' = "saving" THEN highestScore' ELSE OfFile(best_file')
    BY <1>1, <1>8, <2>1, <2>2, <2>4 DEF P3Scores
  <2>5. /\ top' \in Nat \cup {-1}
        /\ best_file' \in Nat \cup {Phase3Snake!Empty, Phase3Snake!Absent}
        /\ elsewhere' = Phase3Snake!None
             \/ elsewhere' \in [highestScore : Nat, score : Nat, saving : BOOLEAN]
    BY <1>1, <2>1 DEF P3Scores
  <2>6. length_score' <= highestScore'
    BY <1>1, <2>3
  <2> QED BY <1>1, <1>8, <2>3, <2>a, <2>4, <2>5, <2>6 DEF P3Scores
<1>10. screen # "playing"
  BY <1>1
<1> QED BY <1>7, <1>9, <1>10 DEF P3Inv, Phase3Snake!NeverIntoTheNeck

\* A step of the menus leaves the rest alone.
LEMMA P3Menus ==
  ASSUME P3Inv, ~torn, screen \notin Plays, screen' \in {"menu", "stuck"}, named' \in BOOLEAN,
         UNCHANGED <<head, fruit, tail, heading, length_score, gameover,
                     highestScore, best_file, top, elsewhere, torn>>
  PROVE  P3Inv' /\ Phase3Snake!NeverIntoTheNeck
<1>1. screen' \notin Plays /\ screen # "saving" /\ screen # "playing" /\ screen' # "saving"
  BY DEF Plays
<1>2. P3Shape'
  BY <1>1 DEF P3Inv, P3Shape
<1>3. P3Scores'
  <2>1. P3Scores
    BY DEF P3Inv
  <2>2. screen' # "playing"
    BY <1>1 DEF Plays
  <2>3. CASE elsewhere = Phase3Snake!None
    <3>1. top <= OfFile(best_file)
      BY <1>1, <2>1, <2>3 DEF P3Scores
    <3>2. top' <= IF screen' = "saving" THEN highestScore' ELSE OfFile(best_file')
      BY <1>1, <3>1
    <3> QED BY <1>1, <2>1, <2>2, <2>3, <3>2 DEF P3Scores
  <2>4. CASE elsewhere # Phase3Snake!None
    <3>1. /\ elsewhere.score <= elsewhere.highestScore /\ top <= elsewhere.highestScore
          /\ elsewhere.saving = FALSE => elsewhere.highestScore = OfFile(best_file)
      BY <2>1, <2>4 DEF P3Scores
    <3> QED BY <1>1, <2>1, <2>4, <3>1 DEF P3Scores
  <2> QED BY <2>3, <2>4
<1> QED BY <1>1, <1>2, <1>3 DEF P3Inv, Phase3Snake!NeverIntoTheNeck

\* The process is killed.
LEMMA P3Killed ==
  ASSUME P3Inv, ~torn, Phase3Snake!Killed
  PROVE  P3Inv' /\ Phase3Snake!NeverIntoTheNeck
<1>1. /\ screen # "gone" /\ screen' = "gone"
      /\ torn' = (torn \/ screen = "saving")
      /\ named' = FALSE /\ head' = <<0, 0>> /\ fruit' = <<0, 0>> /\ tail' = <<>>
      /\ heading' = "stop" /\ length_score' = 0 /\ gameover' = FALSE /\ highestScore' = 0
      /\ best_file' = best_file /\ top' = top /\ elsewhere' = elsewhere
  BY DEF Phase3Snake!Killed
<1>2. screen' \notin Plays /\ screen' # "saving" /\ screen' # "playing"
  BY <1>1 DEF Plays
<1>3. P3Shape'
  <2>1. <<0, 0>> \in Phase3Snake!Cells /\ <<0, 0>> \in (-1 .. width) \X (-1 .. height)
    BY ScreenHasCells DEF Phase3Snake!Cells
  <2>2. tail' \in Seq(Phase3Snake!Cells)
    BY <1>1
  <2> QED BY <1>1, <1>2, <2>1, <2>2 DEF P3Shape
<1>4. torn' \in BOOLEAN /\ (~torn' => screen # "saving")
  BY <1>1, Zenon DEF P3Inv, P3Scores
<1>5. P3Scores'
  <2>1. P3Scores
    BY DEF P3Inv
  <2>3. CASE elsewhere = Phase3Snake!None
    <3>1. ASSUME ~torn' PROVE top <= OfFile(best_file)
      BY <1>4, <2>1, <2>3, <3>1 DEF P3Scores
    <3>2. ~torn' => top' <= IF screen' = "saving" THEN highestScore' ELSE OfFile(best_file')
      BY <1>1, <1>2, <3>1
    <3> QED BY <1>1, <1>2, <1>4, <2>1, <2>3, <3>2 DEF P3Scores
  <2>4. CASE elsewhere # Phase3Snake!None
    <3>1. /\ elsewhere.score <= elsewhere.highestScore /\ top <= elsewhere.highestScore
          /\ elsewhere.saving = FALSE => elsewhere.highestScore = OfFile(best_file)
      BY <2>1, <2>4 DEF P3Scores
    <3> QED BY <1>1, <1>2, <1>4, <2>1, <2>4, <3>1 DEF P3Scores
  <2> QED BY <2>3, <2>4
<1> QED BY <1>1, <1>3, <1>5 DEF P3Inv, Phase3Snake!NeverIntoTheNeck

\* The other process, whose steps change its record, the files and torn only.
LEMMA P3Other ==
  ASSUME P3Inv, ~torn,
         Phase3Snake!OtherStarts \/ Phase3Snake!OtherEats \/ Phase3Snake!OtherSaves
           \/ Phase3Snake!OtherEnds \/ Phase3Snake!OtherKilled
  PROVE  P3Inv' /\ Phase3Snake!NeverIntoTheNeck
<1>1. /\ screen' = screen /\ named' = named /\ head' = head /\ fruit' = fruit /\ tail' = tail
      /\ heading' = heading /\ length_score' = length_score /\ gameover' = gameover
      /\ highestScore' = highestScore
  BY DEF Phase3Snake!OtherStarts, Phase3Snake!OtherEats, Phase3Snake!OtherSaves,
         Phase3Snake!OtherEnds, Phase3Snake!OtherKilled, Phase3Snake!game
<1>2. P3Shape'
  BY <1>1 DEF P3Inv, P3Shape
<1>3. Phase3Snake!NeverIntoTheNeck
  <2>1. ASSUME screen = "playing", tail # <<>> PROVE head # tail[1]
    <3>1. Trail(head, tail, heading)
      BY <2>1, PlayingFacts
    <3>2. tail \in Seq(Phase3Snake!Cells)
      BY <3>1 DEF Trail
    <3>3. 1 \in 1 .. Len(tail)
      BY <2>1, <3>2
    <3> QED BY <3>1, <3>3 DEF Trail
  <2> QED BY <1>1, <2>1 DEF Phase3Snake!NeverIntoTheNeck
<1>s. P3Scores
  BY DEF P3Inv
<1>4. CASE Phase3Snake!OtherStarts
  <2>1. /\ elsewhere = Phase3Snake!None /\ best_file' = best_file /\ top' = top
        /\ elsewhere' = [highestScore |-> Phase3Snake!Loaded(0), score |-> 0, saving |-> FALSE]
        /\ torn' = (torn \/ screen \in {"playing", "saving"})
    BY <1>4 DEF Phase3Snake!OtherStarts
  <2>2. torn' \in BOOLEAN /\ (~torn' => screen \notin Plays)
    BY <2>1, Zenon DEF P3Inv, P3Scores, Plays
  <2>3. Phase3Snake!Loaded(0) = OfFile(best_file) /\ OfFile(best_file) \in Nat
    BY <1>s, FileFacts DEF P3Scores
  <2>4. /\ elsewhere' \in [highestScore : Nat, score : Nat, saving : BOOLEAN]
        /\ elsewhere'.score = 0 /\ elsewhere'.highestScore = OfFile(best_file)
        /\ elsewhere'.saving = FALSE
    BY <2>1, <2>3
  <2>5. elsewhere' # Phase3Snake!None
    BY <2>4, FileFacts, Zenon
  <2>6. ASSUME ~torn' PROVE top <= OfFile(best_file) /\ best_file # Phase3Snake!Empty
    <3>1. screen \notin Plays /\ screen # "saving"
      BY <2>2, <2>6 DEF Plays
    <3> QED BY <1>s, <2>1, <3>1 DEF P3Scores
  <2>7. elsewhere'.score <= elsewhere'.highestScore
    BY <2>3, <2>4
  <2>8. P3Scores'
    BY <1>1, <1>s, <2>1, <2>2, <2>4, <2>5, <2>6, <2>7 DEF P3Scores
  <2> QED BY <1>2, <1>3, <2>8 DEF P3Inv
<1>5. CASE Phase3Snake!OtherEats
  <2> DEFINE s == elsewhere.score + 10
             higher == s > elsewhere.highestScore
  <2>1. /\ elsewhere # Phase3Snake!None /\ ~elsewhere.saving
        /\ elsewhere' = [highestScore |-> IF higher THEN s ELSE elsewhere.highestScore,
                         score |-> s, saving |-> higher]
        /\ best_file' = IF higher THEN Phase3Snake!Empty ELSE best_file
        /\ top' = top /\ torn' = torn
    BY <1>5, Zenon DEF Phase3Snake!OtherEats
  <2>2. elsewhere \in [highestScore : Nat, score : Nat, saving : BOOLEAN]
    BY <1>s, <2>1 DEF P3Scores
  <2>3. elsewhere.saving = FALSE
    BY <2>1, <2>2
  <2>4. /\ screen \notin Plays /\ top <= elsewhere.highestScore
        /\ elsewhere.score <= elsewhere.highestScore
        /\ elsewhere.highestScore = OfFile(best_file) /\ best_file # Phase3Snake!Empty
        /\ elsewhere.score \in Nat /\ elsewhere.highestScore \in Nat /\ top \in Nat \cup {-1}
    BY <1>s, <2>1, <2>2, <2>3 DEF P3Scores
  <2>5. CASE higher
    <3>1. /\ elsewhere' = [highestScore |-> s, score |-> s, saving |-> TRUE]
          /\ best_file' = Phase3Snake!Empty
      <4>1. higher = TRUE
        BY <2>5
      <4> HIDE DEF s, higher
      <4> QED BY <2>1, <4>1
    <3>2. /\ elsewhere'.highestScore = s /\ elsewhere'.score = s /\ elsewhere'.saving = TRUE
          /\ elsewhere' \in [highestScore : Nat, score : Nat, saving : BOOLEAN]
      BY <2>4, <3>1
    <3>3. elsewhere' # Phase3Snake!None
      BY <3>2, FileFacts, Zenon
    <3>4. elsewhere'.score <= elsewhere'.highestScore /\ top' <= elsewhere'.highestScore
      BY <2>1, <2>4, <2>5, <3>2
    <3>5. P3Scores'
      BY <1>1, <1>s, <2>1, <2>4, <3>1, <3>2, <3>3, <3>4 DEF P3Scores
    <3> QED BY <1>2, <1>3, <3>5 DEF P3Inv
  <2>6. CASE ~higher
    <3>1. /\ elsewhere' = [highestScore |-> elsewhere.highestScore, score |-> s, saving |-> FALSE]
          /\ best_file' = best_file
      <4>1. higher = FALSE
        BY <2>6
      <4> HIDE DEF s, higher
      <4> QED BY <2>1, <4>1
    <3>2. /\ elsewhere'.highestScore = elsewhere.highestScore /\ elsewhere'.score = s
          /\ elsewhere'.saving = FALSE
          /\ elsewhere' \in [highestScore : Nat, score : Nat, saving : BOOLEAN]
      BY <2>4, <3>1
    <3>3. elsewhere' # Phase3Snake!None
      BY <3>2, FileFacts, Zenon
    <3>4. elsewhere'.score <= elsewhere'.highestScore /\ top' <= elsewhere'.highestScore
      BY <2>1, <2>4, <2>6, <3>2
    <3>5. P3Scores'
      BY <1>1, <1>s, <2>1, <2>4, <3>1, <3>2, <3>3, <3>4 DEF P3Scores
    <3> QED BY <1>2, <1>3, <3>5 DEF P3Inv
  <2> QED BY <2>5, <2>6
<1>6. CASE Phase3Snake!OtherSaves
  <2>1. /\ elsewhere.saving /\ best_file' = elsewhere.highestScore
        /\ elsewhere' = [elsewhere EXCEPT !.saving = FALSE] /\ top' = top /\ torn' = torn
    BY <1>6 DEF Phase3Snake!OtherSaves
  <2>2. elsewhere # Phase3Snake!None
    BY <2>1, FileFacts
  <2>3. elsewhere \in [highestScore : Nat, score : Nat, saving : BOOLEAN]
    BY <1>s, <2>2 DEF P3Scores
  <2>4. /\ screen \notin Plays /\ top <= elsewhere.highestScore
        /\ elsewhere.score <= elsewhere.highestScore /\ elsewhere.highestScore \in Nat
    BY <1>s, <2>2, <2>3 DEF P3Scores
  <2>5. /\ elsewhere'.highestScore = elsewhere.highestScore
        /\ elsewhere'.score = elsewhere.score /\ elsewhere'.saving = FALSE
        /\ elsewhere' \in [highestScore : Nat, score : Nat, saving : BOOLEAN]
    BY <2>1, <2>3
  <2>6. elsewhere' # Phase3Snake!None
    BY <2>5, FileFacts, Zenon
  <2>7. OfFile(best_file') = elsewhere'.highestScore /\ best_file' # Phase3Snake!Empty
    BY <2>1, <2>4, <2>5, FileFacts
  <2>8. P3Scores'
    BY <1>1, <1>s, <2>1, <2>4, <2>5, <2>6, <2>7 DEF P3Scores
  <2> QED BY <1>2, <1>3, <2>8 DEF P3Inv
<1>7. CASE Phase3Snake!OtherEnds
  <2>1. /\ elsewhere # Phase3Snake!None /\ ~elsewhere.saving /\ elsewhere' = Phase3Snake!None
        /\ top' = IF elsewhere.score > top THEN elsewhere.score ELSE top
        /\ best_file' = best_file /\ torn' = torn
    BY <1>7 DEF Phase3Snake!OtherEnds
  <2>2. elsewhere \in [highestScore : Nat, score : Nat, saving : BOOLEAN]
    BY <1>s, <2>1 DEF P3Scores
  <2>3. elsewhere.saving = FALSE
    BY <2>1, <2>2
  <2>4. /\ screen \notin Plays /\ top <= elsewhere.highestScore
        /\ elsewhere.score <= elsewhere.highestScore
        /\ elsewhere.highestScore = OfFile(best_file) /\ best_file # Phase3Snake!Empty
        /\ elsewhere.score \in Nat /\ elsewhere.highestScore \in Nat /\ top \in Nat \cup {-1}
    BY <1>s, <2>1, <2>2, <2>3 DEF P3Scores
  <2>5. top' \in Nat \cup {-1} /\ top' <= OfFile(best_file')
    BY <2>1, <2>4
  <2>6. screen' \notin Plays /\ screen' # "saving" /\ screen' # "playing"
    BY <1>1, <2>4 DEF Plays
  <2>7. top' <= IF screen' = "saving" THEN highestScore' ELSE OfFile(best_file')
    BY <2>5, <2>6
  <2>e. best_file' # Phase3Snake!Empty
    BY <2>1, <2>4, Zenon
  <2>8. P3Scores'
    BY <1>1, <1>s, <2>1, <2>e, <2>5, <2>6, <2>7 DEF P3Scores
  <2> QED BY <1>2, <1>3, <2>8 DEF P3Inv
<1>8. CASE Phase3Snake!OtherKilled
  <2>1. /\ elsewhere # Phase3Snake!None /\ elsewhere' = Phase3Snake!None
        /\ torn' = (torn \/ elsewhere.saving)
        /\ best_file' = best_file /\ top' = top
    BY <1>8 DEF Phase3Snake!OtherKilled
  <2>2. elsewhere \in [highestScore : Nat, score : Nat, saving : BOOLEAN]
    BY <1>s, <2>1 DEF P3Scores
  <2>3. torn' \in BOOLEAN /\ (~torn' => ~elsewhere.saving)
    BY <2>1, Zenon DEF P3Inv, P3Scores
  <2>4. ~torn' => elsewhere.saving = FALSE
    <3>1. elsewhere.saving \in BOOLEAN
      BY <2>2
    <3> QED BY <2>3, <3>1, Zenon
  <2>5. /\ screen \notin Plays /\ top <= elsewhere.highestScore
        /\ elsewhere.saving = FALSE =>
             elsewhere.highestScore = OfFile(best_file) /\ best_file # Phase3Snake!Empty
    BY <1>s, <2>1 DEF P3Scores
  <2>6. screen' \notin Plays /\ screen' # "saving" /\ screen' # "playing"
    BY <1>1, <2>5 DEF Plays
  <2>7. ASSUME ~torn' PROVE top' <= IF screen' = "saving" THEN highestScore' ELSE OfFile(best_file')
    BY <2>1, <2>4, <2>5, <2>6, <2>7
  <2>e. ~torn' => best_file' # Phase3Snake!Empty
    BY <2>1, <2>4, <2>5, Zenon
  <2>8. P3Scores'
    BY <1>1, <1>s, <2>1, <2>3, <2>e, <2>6, <2>7 DEF P3Scores
  <2> QED BY <1>2, <1>3, <2>8 DEF P3Inv
<1> QED BY <1>4, <1>5, <1>6, <1>7, <1>8

\* ... and stays so, and no key turns the snake into its neck.
LEMMA P3Steps ==
  ASSUME P3Inv, Phase3Snake!Next
  PROVE  P3Inv' /\ Phase3Snake!NeverIntoTheNeck
<1>0. ~torn
  BY Zenon DEF Phase3Snake!Next
<1>1. CASE Phase3Snake!EnterName
  <2>1. /\ screen \notin Plays /\ screen' \in {"menu", "stuck"} /\ named' \in BOOLEAN
        /\ UNCHANGED <<head, fruit, tail, heading, length_score, gameover,
                       highestScore, best_file, top, elsewhere, torn>>
    BY <1>1 DEF Phase3Snake!EnterName, Phase3Snake!game, Plays
  <2> QED BY <1>0, <2>1, P3Menus
<1>2. CASE Phase3Snake!MainMenu \/ Phase3Snake!Garble \/ Phase3Snake!Launched
  <2>1. /\ screen \notin Plays /\ screen' \in {"menu", "stuck"} /\ named' = named
        /\ UNCHANGED <<head, fruit, tail, heading, length_score, gameover,
                       highestScore, best_file, top, elsewhere, torn>>
    BY <1>2 DEF Phase3Snake!MainMenu, Phase3Snake!Garble, Phase3Snake!Launched,
                Phase3Snake!game, Plays
  <2>2. named' \in BOOLEAN
    BY <2>1 DEF P3Inv, P3Shape
  <2> QED BY <1>0, <2>1, <2>2, P3Menus
<1>3. CASE \/ Phase3Snake!OtherStarts \/ Phase3Snake!OtherEats \/ Phase3Snake!OtherSaves
           \/ Phase3Snake!OtherEnds \/ Phase3Snake!OtherKilled
  BY <1>0, <1>3, P3Other
<1>4. CASE Phase3Snake!StartGame
  BY <1>0, <1>4, P3StartGame
<1>5. CASE Phase3Snake!Saved
  BY <1>0, <1>5, P3Saved
<1>6. CASE Phase3Snake!Killed
  BY <1>0, <1>6, P3Killed
<1>7. CASE \E key \in Phase3Snake!Keys : Phase3Snake!Stand(key) \/ Phase3Snake!Collide(key)
                                          \/ Phase3Snake!Move(key) \/ Phase3Snake!Eat(key)
  BY <1>0, <1>7, P3Stand, P3Collide, P3Move, P3Eat, Zenon
<1> QED BY <1>1, <1>2, <1>3, <1>4, <1>5, <1>6, <1>7, Zenon DEF Phase3Snake!Next

-----------------------------------------------------------------------------
(* What the run checks.                                                    *)

\* As many places as segments, where none is taken twice.
LEMMA PlacesOfTrail ==
  ASSUME NEW S, NEW t \in Seq(S), \A i, j \in 1 .. Len(t) : t[i] = t[j] => i = j
  PROVE  Cardinality(Phase3Snake!ToSet(t)) = Len(t)
<1> DEFINE n == Len(t)
           f == [i \in 1 .. n |-> t[i]]
           R == Phase3Snake!ToSet(t)
<1>1. n \in Nat /\ DOMAIN t = 1 .. n
  OBVIOUS
<1>2. f \in Bijection(1 .. n, R)
  <2>1. f \in [1 .. n -> R] /\ \A y \in R : \E i \in 1 .. n : f[i] = y
    BY <1>1 DEF Phase3Snake!ToSet
  <2>2. \A i, j \in 1 .. n : f[i] = f[j] => i = j
    OBVIOUS
  <2> HIDE DEF f, R
  <2> QED BY <2>1, <2>2, Zenon DEF Bijection, Injection, Surjection, IsInjective
<1>3. IsFiniteSet(1 .. n) /\ Cardinality(1 .. n) = n
  <2>1. CASE n = 0
    <3>1. 1 .. n = {}
      BY <2>1
    <3> QED BY <2>1, <3>1, FS_EmptySet
  <2>2. CASE n # 0
    BY <1>1, <2>2, IntervalSize
  <2> QED BY <2>1, <2>2
<1> HIDE DEF f, R
<1>4. Cardinality(R) = Cardinality(1 .. n)
  <2>1. ExistsBijection(1 .. n, R)
    BY <1>2 DEF ExistsBijection
  <2> QED BY <1>3, <2>1, FS_Bijection
<1> QED BY <1>3, <1>4 DEF R

\* The snake is a trail.
LEMMA P3Trail == P3Shape => Phase3Snake!TrailIsSound
<1> SUFFICES ASSUME P3Shape, screen \in {"playing", "saving"} PROVE Phase3Snake!TrailIsSound
  BY DEF Phase3Snake!TrailIsSound
<1> DEFINE n == Len(tail)
           grown == n > 1 /\ tail[n] = tail[1]
           t == IF grown THEN Phase3Snake!Front(tail) ELSE tail
           trail == <<head>> \o t
           k == Laid(tail)
<1>1. /\ Trail(head, tail, heading) /\ 10 * n = length_score
      /\ fruit # head /\ (\A i \in 1 .. n : tail[i] # fruit)
  BY DEF P3Shape, Plays
<1>2. /\ head \in Phase3Snake!Cells /\ tail \in Seq(Phase3Snake!Cells)
      /\ n > 0 => heading \in Phase3Snake!Dirs
                    /\ tail[1] = Phase3Snake!Step(head, Phase3Snake!Opposite(heading))
      /\ \A i \in 1 .. n : tail[i] # head
      /\ \A i, j \in 1 .. k : tail[i] = tail[j] => i = j
      /\ \A i \in 1 .. k - 1 : \E e \in Phase3Snake!Dirs :
           tail[i + 1] = Phase3Snake!Step(tail[i], e)
  BY <1>1 DEF Trail
<1>3. n \in Nat /\ DOMAIN tail = 1 .. n /\ k \in Nat /\ k <= n /\ (n > 0 => k > 0)
  BY <1>2 DEF Laid
<1>4. t \in Seq(Phase3Snake!Cells) /\ Len(t) = k /\ \A i \in 1 .. k : t[i] = tail[i]
  <2>1. CASE grown
    <3>1. t = SubSeq(tail, 1, n - 1)
      BY <2>1, Zenon DEF Phase3Snake!Front
    <3>2. k = n - 1
      BY <2>1 DEF Laid
    <3> HIDE DEF t
    <3> QED BY <1>2, <1>3, <2>1, <3>1, <3>2
  <2>2. CASE ~grown
    <3>1. t = tail
      BY <2>2, Zenon
    <3>2. k = n
      BY <2>2 DEF Laid
    <3> HIDE DEF t
    <3> QED BY <1>2, <1>3, <3>1, <3>2
  <2> QED BY <2>1, <2>2
<1>5. /\ trail \in Seq(Phase3Snake!Cells) /\ Len(trail) = k + 1 /\ trail[1] = head
      /\ \A i \in 2 .. k + 1 : trail[i] = tail[i - 1]
  <2> HIDE DEF t
  <2>1. <<head>> \in Seq(Phase3Snake!Cells) /\ Len(<<head>>) = 1 /\ <<head>>[1] = head
    BY <1>2
  <2>2. /\ trail \in Seq(Phase3Snake!Cells) /\ Len(trail) = Len(<<head>>) + Len(t)
        /\ \A i \in 1 .. Len(<<head>>) + Len(t) :
             trail[i] = IF i <= Len(<<head>>) THEN <<head>>[i] ELSE t[i - Len(<<head>>)]
    BY <1>4, <2>1, ConcatProperties
  <2> HIDE DEF trail, k
  <2>3. \A i \in 2 .. k + 1 : trail[i] = t[i - 1] /\ i - 1 \in 1 .. k
    BY <1>3, <1>4, <2>1, <2>2
  <2> QED BY <1>3, <1>4, <2>1, <2>2, <2>3
<1> HIDE DEF t, trail, k
<1>6. \A i, j \in 1 .. Len(trail) : trail[i] = trail[j] => i = j
  <2> SUFFICES ASSUME NEW i \in 1 .. k + 1, NEW j \in 1 .. k + 1, trail[i] = trail[j] PROVE i = j
    BY <1>5
  <2>1. \A l \in 1 .. k : tail[l] # head
    BY <1>2, <1>3
  <2>2. CASE i = 1 \/ j = 1
    <3>1. \A l \in 2 .. k + 1 : trail[l] # head
      <4>1. \A l \in 2 .. k + 1 : l - 1 \in 1 .. k
        BY <1>3
      <4> QED BY <1>5, <2>1, <4>1
    <3> QED BY <1>3, <1>5, <2>2, <3>1
  <2>3. CASE i # 1 /\ j # 1
    <3>1. /\ trail[i] = tail[i - 1] /\ trail[j] = tail[j - 1]
          /\ i - 1 \in 1 .. k /\ j - 1 \in 1 .. k
      BY <1>3, <1>5, <2>3
    <3>2. i - 1 = j - 1
      BY <1>2, <3>1
    <3> QED BY <3>2
  <2> QED BY <2>2, <2>3
<1>7. Cardinality(Phase3Snake!ToSet(trail)) = Len(trail)
  BY <1>5, <1>6, PlacesOfTrail
<1>8. \A i \in 1 .. Len(trail) - 1 : \E d \in Phase3Snake!Dirs :
        trail[i + 1] = Phase3Snake!Step(trail[i], d)
  <2> SUFFICES ASSUME NEW i \in 1 .. k
               PROVE  \E d \in Phase3Snake!Dirs : trail[i + 1] = Phase3Snake!Step(trail[i], d)
    BY <1>3, <1>5
  <2>1. trail[i + 1] = tail[i]
    <3>1. i + 1 \in 2 .. k + 1 /\ (i + 1) - 1 = i
      BY <1>3
    <3> QED BY <1>5, <3>1
  <2>2. CASE i = 1
    <3>1. n > 0
      BY <1>3
    <3>2. Phase3Snake!Opposite(heading) \in Phase3Snake!Dirs
      <4>1. head \in Int \X Int
        BY <1>2 DEF Phase3Snake!Cells
      <4> QED BY <1>2, <3>1, <4>1, StepFacts
    <3> QED BY <1>2, <1>5, <2>1, <2>2, <3>1, <3>2
  <2>3. CASE i # 1
    <3>1. /\ trail[i] = tail[i - 1] /\ i - 1 \in 1 .. k - 1 /\ (i - 1) + 1 = i
      BY <1>3, <1>5, <2>3
    <3>2. \E d \in Phase3Snake!Dirs : tail[i] = Phase3Snake!Step(tail[i - 1], d)
      <4> DEFINE j == i - 1
      <4>1. j \in 1 .. k - 1 /\ j + 1 = i
        BY <3>1
      <4>2. \E d \in Phase3Snake!Dirs : tail[j + 1] = Phase3Snake!Step(tail[j], d)
        <5> HIDE DEF j
        <5> QED BY <1>2, <4>1
      <4> QED BY <4>1, <4>2
    <3> QED BY <2>1, <3>1, <3>2
  <2> QED BY <2>2, <2>3
<1>9. fruit \notin {head} \cup Phase3Snake!ToSet(tail)
  <2>1. \A p : p \in Phase3Snake!ToSet(tail) => \E i \in 1 .. n : p = tail[i]
    BY <1>3, FollowedIsBehind
  <2> QED BY <1>1, <2>1
<1>12. Phase3Snake!Cardinality(Phase3Snake!ToSet(trail)) = Len(trail)
  BY <1>7, Zenon DEF Phase3Snake!Cardinality, Cardinality
<1>10. n > 0 => tail[1] = Phase3Snake!Step(head, Phase3Snake!Opposite(heading))
  BY <1>2
<1>11. 10 * n = length_score /\ head \in Phase3Snake!Cells
  BY <1>1, <1>2
<1> QED
  BY <1>8, <1>9, <1>10, <1>11, <1>12, Zenon DEF Phase3Snake!TrailIsSound, trail, t

\* The highest score is kept.
LEMMA P3Best == P3Scores => Phase3Snake!BestIsKept
<1> SUFFICES ASSUME P3Scores, ~torn
             PROVE /\ top <= IF elsewhere.saving THEN elsewhere.highestScore
                             ELSE IF screen = "saving" THEN highestScore ELSE Phase3Snake!OnFile
                   /\ screen = "playing" => highestScore = Phase3Snake!OnFile
  BY Zenon DEF Phase3Snake!BestIsKept
<1>1. Phase3Snake!OnFile = OfFile(best_file)
  BY FileFacts
<1>2. CASE elsewhere = Phase3Snake!None
  <2>1. ~elsewhere.saving
    BY <1>2, FileFacts, Zenon
  <2>2. /\ top <= IF screen = "saving" THEN highestScore ELSE OfFile(best_file)
        /\ screen = "playing" => highestScore = OfFile(best_file)
    BY <1>2 DEF P3Scores
  <2> QED BY <1>1, <2>1, <2>2, Zenon
<1>3. CASE elsewhere # Phase3Snake!None
  <2>1. /\ screen \notin Plays /\ top <= elsewhere.highestScore
        /\ elsewhere.saving = FALSE => elsewhere.highestScore = OfFile(best_file)
        /\ elsewhere \in [highestScore : Nat, score : Nat, saving : BOOLEAN]
    BY <1>3 DEF P3Scores
  <2>2. screen # "saving" /\ screen # "playing" /\ elsewhere.saving \in BOOLEAN
    BY <2>1 DEF Plays
  <2>3. CASE elsewhere.saving = TRUE
    BY <2>1, <2>2, <2>3, Zenon
  <2>4. CASE elsewhere.saving = FALSE
    <3>1. top <= OfFile(best_file)
      BY <2>1, <2>4, Zenon
    <3> QED BY <1>1, <2>2, <2>4, <3>1, Zenon
  <2> QED BY <2>2, <2>3, <2>4
<1> QED BY <1>2, <1>3

\* All three.
LEMMA P3IsSound ==
  P3Inv => Phase3Snake!TypeOK /\ Phase3Snake!TrailIsSound /\ Phase3Snake!BestIsKept
<1> SUFFICES ASSUME P3Inv PROVE Phase3Snake!TypeOK
  BY P3Trail, P3Best DEF P3Inv
<1>1. /\ screen \in {"menu", "playing", "saving", "over", "stuck", "gone"}
      /\ named \in BOOLEAN /\ gameover \in BOOLEAN
      /\ head \in (-1 .. width) \X (-1 .. height) /\ fruit \in Phase3Snake!Cells
      /\ tail \in Seq(Phase3Snake!Cells) /\ heading \in Phase3Snake!Dirs \cup {"stop"}
      /\ length_score \in Nat
  BY DEF P3Inv, P3Shape
<1>2. /\ highestScore \in Nat /\ top \in Nat \cup {-1} /\ torn \in BOOLEAN
      /\ best_file \in Nat \cup {Phase3Snake!Empty, Phase3Snake!Absent}
  BY DEF P3Inv, P3Scores
<1>3. \A i \in DOMAIN tail : tail[i] \in Phase3Snake!Cells
  BY <1>1
<1> QED BY <1>1, <1>2, <1>3, Zenon DEF Phase3Snake!TypeOK
-----------------------------------------------------------------------------
(* The tasks together.                                                     *)

\* Whatever task is open, its own invariant holds.
GuiInv ==
  /\ task \in Tasks
  /\ task = "tic_tac_toe" => TttInv
  /\ task = "minesweeper" => MinesInv
  /\ task = "snake" => SnakeInv
  /\ task = "music_player" => MusicInv
  /\ task = "ams_studio" => StudioInv
  /\ task = "chess" => ChessInv
  /\ task = "sudoku" => SudokuInv
  /\ task = "flappy_bird" => BirdInv
  /\ task = "file_tools" => FilesInv
  /\ task = "copilot_actions" => ActionsInv
  /\ task = "phase3_snake" => P3Inv

\* Each invariant in the state of its task.
LEMMA InvOfTask ==
  ASSUME GuiInv
  PROVE  /\ task = "tic_tac_toe" => TttInv
         /\ task = "minesweeper" => MinesInv
         /\ task = "snake" => SnakeInv
         /\ task = "music_player" => MusicInv
         /\ task = "ams_studio" => StudioInv
         /\ task = "chess" => ChessInv
         /\ task = "sudoku" => SudokuInv
         /\ task = "flappy_bird" => BirdInv
         /\ task = "file_tools" => FilesInv
         /\ task = "copilot_actions" => ActionsInv
         /\ task = "phase3_snake" => P3Inv
BY Zenon DEF GuiInv

\* The task that is opened starts in its invariant.
LEMMA GuiStarts == Init => GuiInv
<1> SUFFICES ASSUME Init PROVE GuiInv
  OBVIOUS
<1>1. CASE Opened("tic_tac_toe") /\ TicTacToe!Init
  <2>1. task = "tic_tac_toe" /\ TttInv
    BY <1>1, TttStarts, Zenon DEF Opened
  <2> QED BY <2>1 DEF GuiInv, Tasks
<1>2. CASE Opened("minesweeper") /\ Minesweeper!Init
  <2>1. task = "minesweeper" /\ MinesInv
    BY <1>2, MinesStart, Zenon DEF Opened, Minesweeper!Init
  <2> QED BY <2>1 DEF GuiInv, Tasks
<1>3. CASE Opened("snake") /\ Snake!Init
  <2>1. task = "snake" /\ SnakeInv
    BY <1>3, SnakeStarts, Zenon DEF Opened
  <2> QED BY <2>1 DEF GuiInv, Tasks
<1>4. CASE Opened("music_player") /\ MusicPlayer!Init
  <2>1. task = "music_player" /\ MusicInv
    BY <1>4, MusicStarts, Zenon DEF Opened
  <2> QED BY <2>1 DEF GuiInv, Tasks
<1>5. CASE Opened("ams_studio") /\ AmsStudio!Init
  <2>1. task = "ams_studio" /\ StudioInv
    BY <1>5, StudioStarts, Zenon DEF Opened
  <2> QED BY <2>1 DEF GuiInv, Tasks
<1>6. CASE Opened("chess") /\ Chess!Init
  <2>1. task = "chess" /\ ChessInv
    BY <1>6, ChessStarts, Zenon DEF Opened
  <2> QED BY <2>1 DEF GuiInv, Tasks
<1>7. CASE Opened("sudoku") /\ Sudoku!Init
  <2>1. task = "sudoku" /\ SudokuInv
    BY <1>7, SudokuStarts, Zenon DEF Opened
  <2> QED BY <2>1 DEF GuiInv, Tasks
<1>8. CASE Opened("flappy_bird") /\ FlappyBird!Init
  <2>1. task = "flappy_bird" /\ BirdInv
    BY <1>8, BirdStarts, Zenon DEF Opened
  <2> QED BY <2>1 DEF GuiInv, Tasks
<1>9. CASE Opened("file_tools") /\ FileTools!Init
  <2>1. task = "file_tools" /\ FilesInv
    BY <1>9, FilesStart, Zenon DEF Opened
  <2> QED BY <2>1 DEF GuiInv, Tasks
<1>10. CASE Opened("copilot_actions") /\ CopilotActions!Init
  <2>1. task = "copilot_actions" /\ ActionsInv
    BY <1>10, ActionsStart, Zenon DEF Opened
  <2> QED BY <2>1 DEF GuiInv, Tasks
<1>11. CASE Opened("phase3_snake") /\ Phase3Snake!Init
  <2>1. task = "phase3_snake" /\ P3Inv
    BY <1>11, P3Starts, Zenon DEF Opened
  <2> QED BY <2>1 DEF GuiInv, Tasks
<1> QED BY <1>1, <1>2, <1>3, <1>4, <1>5, <1>6, <1>7, <1>8, <1>9, <1>10, <1>11, Zenon DEF Init

\* A step of the task that is open keeps its invariant, and the task.
LEMMA GuiMoves == GuiInv /\ Next => GuiInv'
<1> SUFFICES ASSUME GuiInv, Next PROVE GuiInv'
  OBVIOUS
<1>1. CASE Only("tic_tac_toe") /\ TicTacToe!Next
  <2>1. task = "tic_tac_toe" /\ task' = task
    BY <1>1, Zenon DEF Only
  <2>2. TttInv'
    BY <1>1, <2>1, InvOfTask, TttSteps, Zenon
  <2> QED BY <2>1, <2>2 DEF GuiInv, Tasks
<1>2. CASE Only("minesweeper") /\ Minesweeper!Next
  <2>1. task = "minesweeper" /\ task' = task
    BY <1>2, Zenon DEF Only
  <2>2. MinesInv'
    BY <1>2, <2>1, InvOfTask, MinesSteps, Zenon
  <2> QED BY <2>1, <2>2 DEF GuiInv, Tasks
<1>3. CASE Only("snake") /\ Snake!Next
  <2>1. task = "snake" /\ task' = task
    BY <1>3, Zenon DEF Only
  <2>2. SnakeInv'
    BY <1>3, <2>1, InvOfTask, SnakeSteps, Zenon
  <2> QED BY <2>1, <2>2 DEF GuiInv, Tasks
<1>4. CASE Only("music_player") /\ MusicPlayer!Next
  <2>1. task = "music_player" /\ task' = task
    BY <1>4, Zenon DEF Only
  <2>2. MusicInv'
    BY <1>4, <2>1, InvOfTask, MusicSteps, Zenon
  <2> QED BY <2>1, <2>2 DEF GuiInv, Tasks
<1>5. CASE Only("ams_studio") /\ AmsStudio!Next
  <2>1. task = "ams_studio" /\ task' = task
    BY <1>5, Zenon DEF Only
  <2>2. StudioInv'
    BY <1>5, <2>1, InvOfTask, StudioSteps, Zenon
  <2> QED BY <2>1, <2>2 DEF GuiInv, Tasks
<1>6. CASE Only("chess") /\ Chess!Next
  <2>1. task = "chess" /\ task' = task
    BY <1>6, Zenon DEF Only
  <2>2. ChessInv'
    BY <1>6, <2>1, InvOfTask, ChessSteps, Zenon
  <2> QED BY <2>1, <2>2 DEF GuiInv, Tasks
<1>7. CASE Only("sudoku") /\ Sudoku!Next
  <2>1. task = "sudoku" /\ task' = task
    BY <1>7, Zenon DEF Only
  <2>2. SudokuInv'
    BY <1>7, <2>1, InvOfTask, SudokuSteps, Zenon
  <2> QED BY <2>1, <2>2 DEF GuiInv, Tasks
<1>8. CASE Only("flappy_bird") /\ FlappyBird!Next
  <2>1. task = "flappy_bird" /\ task' = task
    BY <1>8, Zenon DEF Only
  <2>2. BirdInv'
    BY <1>8, <2>1, InvOfTask, BirdSteps, Zenon
  <2> QED BY <2>1, <2>2 DEF GuiInv, Tasks
<1>9. CASE Only("file_tools") /\ FileTools!Next
  <2>1. task = "file_tools" /\ task' = task
    BY <1>9, Zenon DEF Only
  <2>2. FilesInv'
    BY <1>9, <2>1, InvOfTask, FilesStep, Zenon
  <2> QED BY <2>1, <2>2 DEF GuiInv, Tasks
<1>10. CASE Only("copilot_actions") /\ CopilotActions!Next
  <2>1. task = "copilot_actions" /\ task' = task
    BY <1>10, Zenon DEF Only
  <2>2. ActionsInv'
    BY <1>10, <2>1, InvOfTask, ActionsSteps, Zenon
  <2> QED BY <2>1, <2>2 DEF GuiInv, Tasks
<1>11. CASE Only("phase3_snake") /\ Phase3Snake!Next
  <2>1. task = "phase3_snake" /\ task' = task
    BY <1>11, Zenon DEF Only
  <2>2. P3Inv'
    BY <1>11, <2>1, InvOfTask, P3Steps, Zenon
  <2> QED BY <2>1, <2>2 DEF GuiInv, Tasks
<1> QED BY <1>1, <1>2, <1>3, <1>4, <1>5, <1>6, <1>7, <1>8, <1>9, <1>10, <1>11, Zenon DEF Next

\* Where nothing changes, nothing is lost.
LEMMA GuiStands == GuiInv /\ UNCHANGED vars => GuiInv'
<1> SUFFICES ASSUME GuiInv, UNCHANGED vars PROVE GuiInv'
  OBVIOUS
<1>0. /\ task' = task
      /\ UNCHANGED ticTacToe /\ UNCHANGED minesweeper /\ UNCHANGED snake
      /\ UNCHANGED musicPlayer /\ UNCHANGED amsStudio /\ UNCHANGED chess
      /\ UNCHANGED sudoku /\ UNCHANGED flappyBird /\ UNCHANGED fileTools
      /\ UNCHANGED copilotActions /\ UNCHANGED phase3Snake
  BY Zenon DEF vars
<1>1. TttInv => TttInv'
  <2>1. /\ grid' = grid /\ current_player' = current_player
        /\ game_ended' = game_ended /\ vs_copilot' = vs_copilot
    BY <1>0, Zenon DEF ticTacToe
  <2> QED BY <2>1, Zenon DEF TttInv, TicTacToe!TypeOK
<1>2. MinesInv => MinesInv'
  <2>1. UNCHANGED Minesweeper!vars
    BY <1>0, Zenon DEF minesweeper, Minesweeper!vars
  <2> QED BY <2>1, MinesSteps, Zenon
<1>3. SnakeInv => SnakeInv'
  <2>1. UNCHANGED Snake!vars
    BY <1>0, Zenon DEF snake, Snake!vars, Snake!game, Snake!shown
  <2> QED BY <2>1, SnakeSteps, Zenon
<1>4. MusicInv => MusicInv'
  <2>1. UNCHANGED MusicPlayer!vars
    BY <1>0, Zenon DEF musicPlayer, MusicPlayer!vars
  <2> QED BY <2>1, MusicSteps, Zenon
<1>5. StudioInv => StudioInv'
  <2>1. UNCHANGED AmsStudio!vars
    BY <1>0, Zenon DEF amsStudio, AmsStudio!vars
  <2> QED BY <2>1, StudioSteps, Zenon
<1>6. ChessInv => ChessInv'
  <2>1. /\ board' = board /\ white_turn' = white_turn /\ sel' = sel /\ game_over' = game_over
        /\ mode' = mode /\ copilot_thinking' = copilot_thinking /\ moved' = moved
        /\ captured' = captured /\ copilot_timers' = copilot_timers /\ moves' = moves
        /\ stale' = stale
    BY <1>0, Zenon DEF chess
  <2> QED BY <2>1, Zenon DEF ChessInv, GameSound, Switches, Clocks, Picked,
          Chess!ThinksOnItsTurn, Chess!CopilotPlays
<1>7. SudokuInv => SudokuInv'
  <2>1. UNCHANGED Sudoku!vars
    BY <1>0, Zenon DEF sudoku, Sudoku!vars
  <2> QED BY <2>1, SudokuSteps, Zenon
<1>8. BirdInv => BirdInv'
  <2>1. /\ bird_y' = bird_y /\ bird_vy' = bird_vy /\ points' = points /\ best' = best
        /\ flying' = flying /\ started' = started /\ pipes' = pipes /\ gone' = gone
        /\ flappy_windows' = flappy_windows /\ flappy_area' = flappy_area
    BY <1>0, Zenon DEF flappyBird
  <2> QED BY <2>1, Zenon DEF BirdInv
<1>9. FilesInv => FilesInv'
  <2>1. UNCHANGED FileTools!vars
    BY <1>0, Zenon DEF fileTools, FileTools!vars, FileTools!notepad
  <2> QED BY <2>1, FilesStep, Zenon
<1>10. ActionsInv => ActionsInv'
  <2>1. /\ answer' = answer /\ cut' = cut /\ display' = display /\ found' = found
        /\ place' = place /\ launched' = launched /\ fs_modified' = fs_modified
        /\ signalled' = signalled
    BY <1>0, Zenon DEF copilotActions
  <2>2. Waiting' = Waiting
    BY <2>1, Zenon DEF Waiting
  <2>3. CopilotActions!Written' = CopilotActions!Written
    BY <2>1, Zenon DEF CopilotActions!Written
  <2> QED BY <2>1, <2>2, <2>3, Zenon DEF ActionsInv, ActionsTyped, Coming,
          Raised, EndsOnce, CopilotActions!Closed, CopilotActions!TypeOK
<1>11. P3Inv => P3Inv'
  <2>1. /\ screen' = screen /\ named' = named /\ head' = head /\ fruit' = fruit /\ tail' = tail
        /\ heading' = heading /\ length_score' = length_score /\ gameover' = gameover
        /\ highestScore' = highestScore /\ best_file' = best_file /\ top' = top
        /\ elsewhere' = elsewhere /\ torn' = torn
    BY <1>0, Zenon DEF phase3Snake
  <2> QED BY <2>1, Zenon DEF P3Inv, P3Shape, P3Scores
<1> QED BY <1>0, <1>1, <1>2, <1>3, <1>4, <1>5, <1>6, <1>7, <1>8, <1>9, <1>10, <1>11, Zenon DEF GuiInv

\* The invariant of the tasks is an inductive one.
LEMMA GuiInvariant == Spec => []GuiInv
<1>1. Init => GuiInv
  BY GuiStarts
<1>2. GuiInv /\ [Next]_vars => GuiInv'
  BY GuiMoves, GuiStands
<1> QED BY <1>1, <1>2, PTL DEF Spec

\* The games keep their books: for any boards, puzzles, sky and screen, under any
\* order of clicks, keys, ticks, timers and launches.
THEOREM GamesKeepTheirBooks == Spec => []GamesAreSound
<1>1. ASSUME GuiInv PROVE GamesAreSound
  <2>1. ASSUME task = "tic_tac_toe" PROVE TicTacToe!TypeOK /\ TicTacToe!CopilotNeverLoses
    BY <1>1, <2>1, InvOfTask, CopilotIsUnbeaten, Zenon
  <2>2. ASSUME task = "minesweeper"
        PROVE  Minesweeper!TypeOK /\ Minesweeper!WonMeansCleared /\ Minesweeper!FlaggedIsClosed
    BY <1>1, <2>2, InvOfTask, MinesAreCleared, Zenon DEF MinesInv
  <2>3. ASSUME task = "snake"
        PROVE  Snake!TypeOK /\ Snake!SnakeIsOnePiece /\ Snake!FoodIsFree /\ Snake!GameGoesOn
    BY <1>1, <2>3, InvOfTask, SnakeIsSound, Zenon
  <2>4. ASSUME task = "sudoku" PROVE Sudoku!TypeOK /\ Sudoku!WonMeansSolved
    BY <1>1, <2>4, InvOfTask, SudokuIsSolved, Zenon DEF SudokuInv
  <2>5. ASSUME task = "flappy_bird" PROVE FlappyBird!TypeOK /\ FlappyBird!EachPipeScoresOnce
    BY <1>1, <2>5, InvOfTask, BirdIsSound, Zenon
  <2>6. ASSUME task = "phase3_snake"
        PROVE  Phase3Snake!TypeOK /\ Phase3Snake!TrailIsSound /\ Phase3Snake!BestIsKept
    BY <1>1, <2>6, InvOfTask, P3IsSound, Zenon
  <2> QED BY <2>1, <2>2, <2>3, <2>4, <2>5, <2>6, Zenon DEF GamesAreSound
<1>2. GuiInv => GamesAreSound
  BY <1>1
<1> QED BY <1>2, GuiInvariant, PTL

\* At most the current song is heard, for any list of songs.
THEOREM OnlyTheCurrentSong == Spec => []SoundIsCurrent
<1>1. GuiInv => SoundIsCurrent
  BY InvOfTask, Zenon DEF MusicInv, SoundIsCurrent
<1> QED BY <1>1, GuiInvariant, PTL

\* The tools say what is so, for any files, texts and answers and any number of builds.
THEOREM ToolsSayWhatIsSo == Spec => []ToolsAreSound
<1>1. ASSUME GuiInv PROVE ToolsAreSound
  <2>1. ASSUME task = "ams_studio" PROVE AmsStudio!TypeOK /\ AmsStudio!ConsoleInOrder
    BY <1>1, <2>1, InvOfTask, StudioIsInOrder, Zenon DEF StudioInv
  <2>2. ASSUME task = "file_tools" PROVE FileTools!TypeOK /\ FileTools!UnmarkedIsSaved
    BY <1>1, <2>2, InvOfTask, Zenon DEF FilesInv
  <2>3. ASSUME task = "copilot_actions"
        PROVE  CopilotActions!TypeOK /\ CopilotActions!AsWritten
               /\ CopilotActions!ChangesAreSignalled
    BY <1>1, <2>3, InvOfTask, ActionsAreAsWritten, Zenon
  <2> QED BY <2>1, <2>2, <2>3, Zenon DEF ToolsAreSound
<1>2. GuiInv => ToolsAreSound
  BY <1>1
<1> QED BY <1>2, GuiInvariant, PTL

\* No chess piece gets lost or doubled and the Copilot keeps to its turn, after any
\* opening and any number of moves.
THEOREM ChessStaysSound == Spec => []ChessIsSound
<1>1. ASSUME GuiInv PROVE ChessIsSound
  <2>1. ASSUME task = "chess"
        PROVE  Chess!TypeOK /\ Chess!MaterialKept /\ Chess!ThinksOnItsTurn
    BY <1>1, <2>1, InvOfTask, ChessIsInOrder, Zenon
  <2> QED BY <2>1, Zenon DEF ChessIsSound
<1>2. GuiInv => ChessIsSound
  BY <1>1
<1> QED BY <1>2, GuiInvariant, PTL

\* No step leaves one's own king in check but castling, lets a win of tic-tac-toe pass
\* by, opens a mine or a single cell at the first click, loses a file that was not
\* named, or turns the snake of Phase 3 into its neck.
THEOREM MovesAreWithinTheRules == Spec => MovesKeepTheRules
<1> DEFINE Rules ==
             /\ task = "chess" => Chess!NoMoveIntoCheck
             /\ task = "tic_tac_toe" => TicTacToe!CopilotTakesTheWin
             /\ task = "minesweeper" => Minesweeper!FirstClickOpensUp
             /\ task = "file_tools" => FileTools!LosesTheDestinationOnly
             /\ task = "phase3_snake" => Phase3Snake!NeverIntoTheNeck
<1>1. ASSUME GuiInv, Next PROVE Rules
  <2>1. ASSUME task = "chess" PROVE Chess!NoMoveIntoCheck
    <3>1. Chess!Next
      BY <1>1, <2>1 DEF Next, Only
    <3> QED BY <1>1, <2>1, <3>1, InvOfTask, MovesAreSafe, Zenon
  <2>2. ASSUME task = "tic_tac_toe" PROVE TicTacToe!CopilotTakesTheWin
    <3>1. TicTacToe!Next
      BY <1>1, <2>2 DEF Next, Only
    <3> QED BY <1>1, <2>2, <3>1, InvOfTask, TttSteps, Zenon
  <2>3. ASSUME task = "minesweeper" PROVE Minesweeper!FirstClickOpensUp
    <3>1. Minesweeper!Next
      BY <1>1, <2>3 DEF Next, Only
    <3> QED BY <1>1, <2>3, <3>1, InvOfTask, FirstClickIsSafe, Zenon
  <2>4. ASSUME task = "file_tools" PROVE FileTools!LosesTheDestinationOnly
    <3>1. FileTools!Next
      BY <1>1, <2>4 DEF Next, Only
    <3> QED BY <1>1, <2>4, <3>1, InvOfTask, FilesAreKept, Zenon
  <2>5. ASSUME task = "phase3_snake" PROVE Phase3Snake!NeverIntoTheNeck
    <3>1. Phase3Snake!Next
      BY <1>1, <2>5 DEF Next, Only
    <3> QED BY <1>1, <2>5, <3>1, InvOfTask, P3Steps, Zenon
  <2> QED BY <2>1, <2>2, <2>3, <2>4, <2>5, Zenon
<1>2. GuiInv /\ [Next]_vars => [Rules]_vars
  <2> HIDE DEF Rules
  <2> QED BY <1>1, Zenon
<1>3. MovesKeepTheRules <=> [][Rules]_vars
  BY DEF MovesKeepTheRules
<1> HIDE DEF Rules
<1> QED BY <1>2, <1>3, GuiInvariant, PTL DEF Spec

=============================================================================
