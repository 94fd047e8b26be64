---------------------------- MODULE MusicPlayer -----------------------------
(***************************************************************************)
(* The music player of the desktop: the list, the half-second tick, and    *)
(* the process that plays the file of a song.  Songs without a file are    *)
(* simulated.  A launch with a title never gets as far as a window: the    *)
(* application does not handle files, so that it refuses the argument.     *)
(***************************************************************************)
EXTENDS Integers

CONSTANTS
  SONG_COUNT,
  Files,           \* the songs that have a file
  Duration,        \* of each song, in ticks
  MaxWindows       \* bounds the launches while the player runs

VARIABLES
  current, playing,
  progress,        \* in ticks
  sounding,        \* the songs that processes are playing
  audio_pid,       \* the song of the process it names, -1 if none
  windows,         \* the windows that are open
  latest           \* the window whose widgets the state points to

vars == <<current, playing, progress, sounding, audio_pid, windows, latest>>

PLAYLIST == 0 .. SONG_COUNT - 1

Init ==
  /\ current = 0 /\ progress = 0 /\ playing = FALSE /\ sounding = {} /\ audio_pid = -1
  /\ windows = {1} /\ latest = 1

-----------------------------------------------------------------------------
Running == windows # {}

\* stop_audio: the process is gone; it may have ended by itself before.
StopAudio == sounding' = sounding \ {audio_pid} /\ audio_pid' = -1

\* Fault: the song is loaded while the one before it goes on.
LoadSongOnTop(song) ==
  /\ current' = song /\ progress' = 0
  /\ UNCHANGED <<sounding, audio_pid>>

LoadSong(song) ==
  /\ current' = song /\ progress' = 0
  /\ StopAudio

\* load_song and start_playback
LoadAndPlay(song) ==
  /\ current' = song /\ progress' = 0 /\ playing' = TRUE
  /\ sounding' = (sounding \ {audio_pid}) \cup ({song} \cap Files)
  /\ audio_pid' = IF song \in Files THEN song ELSE -1

\* on_play: start_playback, which leaves the progress where it is ...
Play ==
  /\ Running /\ ~playing /\ playing' = TRUE
  /\ IF current \in Files
       THEN sounding' = (sounding \ {audio_pid}) \cup {current} /\ audio_pid' = current
       ELSE UNCHANGED <<sounding, audio_pid>>
  /\ UNCHANGED <<current, progress, windows, latest>>

\* ... or stop_playback.
Pause ==
  /\ Running /\ playing /\ playing' = FALSE /\ StopAudio
  /\ UNCHANGED <<current, progress, windows, latest>>

\* on_prev, on_next
Skip(by) ==
  /\ Running
  /\ LET song == (current + by + SONG_COUNT) % SONG_COUNT
     IN IF playing THEN LoadAndPlay(song) ELSE LoadSong(song) /\ UNCHANGED playing
  /\ UNCHANGED <<windows, latest>>

\* on_row_activated
Choose(song) == Running /\ LoadAndPlay(song) /\ UNCHANGED <<windows, latest>>

\* playback_tick
Tick ==
  /\ Running /\ playing
  /\ IF progress + 1 > Duration[current]
       THEN LoadAndPlay((current + 1) % SONG_COUNT)
       ELSE progress' = progress + 1 /\ UNCHANGED <<current, playing, sounding, audio_pid>>
  /\ UNCHANGED <<windows, latest>>

\* The process ends with its file, sooner or later than the count of ticks.
SoundEnds ==
  /\ \E song \in sounding : sounding' = sounding \ {song}
  /\ UNCHANGED <<current, playing, progress, audio_pid, windows, latest>>

\* A second launch activates the running player: load_song, in a new window.
Activate ==
  /\ Running /\ latest < MaxWindows
  /\ LoadSong(0) /\ UNCHANGED playing
  /\ latest' = latest + 1 /\ windows' = windows \cup {latest'}

\* The player ends with its last window, and stops the process.
Close(w) ==
  /\ w \in windows /\ windows' = windows \ {w}
  /\ IF windows' = {} THEN StopAudio ELSE UNCHANGED <<sounding, audio_pid>>
  /\ UNCHANGED <<current, playing, progress, latest>>

\* The labels went with their window: any handler may end the process instead.
Crash ==
  /\ Running /\ latest \notin windows /\ windows' = {}
  /\ UNCHANGED <<current, playing, progress, sounding, audio_pid, latest>>

Next ==
  \/ Play \/ Pause \/ Tick \/ SoundEnds \/ Activate \/ Crash
  \/ \E by \in {-1, 1} : Skip(by)
  \/ \E song \in PLAYLIST : Choose(song)
  \/ \E w \in windows : Close(w)

-----------------------------------------------------------------------------
\* The ranges of the variables.
TypeOK ==
  /\ current \in PLAYLIST /\ playing \in BOOLEAN /\ progress \in 0 .. Duration[current]
  /\ sounding \subseteq Files /\ audio_pid \in PLAYLIST \cup {-1}
  /\ windows \subseteq 1 .. MaxWindows /\ latest \in 1 .. MaxWindows

\* No more than one song is heard, and it is the one that is shown as playing:
\* the buttons, the list, the tick and a second launch all go through stop_audio
\* before they change the song, and none of them leaves a process behind.
SoundIsCurrent == sounding \subseteq IF playing THEN {current} ELSE {}

=============================================================================
