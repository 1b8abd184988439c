------------------------------ MODULE MicCheck ------------------------------
(***************************************************************************)
(* The creator's microphone check: useMicrophoneCheck of microphone.ts and *)
(* MicCheckRow of PreShowCheck.tsx.                                        *)
(*                                                                         *)
(* Opening a microphone waits for the browser twice: for the permission    *)
(* and for the list of devices.  While it waits the draft may open or the  *)
(* creator may leave the page, which takes the row away and runs its       *)
(* cleanup.  A sample is recorded for a few seconds and played back, while *)
(* the microphone may be closed or exchanged.                              *)
(*                                                                         *)
(* The browser may refuse storage, as private windows do, and may not say  *)
(* which device it has opened.  A row that comes back is a new one, and    *)
(* this is about one row.                                                  *)
(***************************************************************************)
EXTENDS Integers, FiniteSets

CONSTANTS
    Microphones,  \* devices of the browser
    MaxStreams    \* bound: media streams opened

ASSUME MicCheckAssumption == MaxStreams \in Nat

VARIABLES
    mic,      \* the state and the refs of the hook
    prompting,  \* the run of open() that waits: for "permission", "devices" or nothing
    streams,  \* media streams with live tracks
    contexts, \* audio contexts that are not closed, named by their stream
    opened,   \* streams opened so far
    device,   \* the device behind each stream
    storage,  \* whether the browser lets localStorage be written
    stored,   \* localStorage: the remembered microphone
    dropped   \* what open() waited for when the row went away

micVars == <<mic, prompting, streams, contexts, opened, device, storage, stored, dropped>>

Streams == 1..MaxStreams
NoDevice == "none"

\* stream, context: the refs (0: null); shown: deviceId; recorder: the stream being
\* recorded; player: the stream whose sample is played.
MicInit ==
    /\ mic = [mounted |-> TRUE, status |-> "idle", stream |-> 0, context |-> 0,
              shown |-> NoDevice, sample |-> "idle", recorder |-> 0, player |-> 0]
    /\ prompting = "nothing" /\ streams = {} /\ contexts = {} /\ opened = 0
    /\ device = [s \in Streams |-> NoDevice] /\ dropped = "nothing"
    /\ \/ storage = "kept" /\ stored \in Microphones \cup {NoDevice}
       \/ storage = "refused" /\ stored = NoDevice

-----------------------------------------------------------------------------
\* What MicCheckRow offers.
OffersTest == mic.mounted /\ mic.status \notin {"requesting", "ready"}
OffersReady == mic.mounted /\ mic.status = "ready"
OffersSample == OffersReady /\ mic.sample = "idle"

\* Fault: the tracks go on.
TracksKept == streams
TracksStopped == streams \ {mic.stream}

\* release().  The recorder of a stream stops with its tracks, and finds that its
\* stream is no longer the current one.
Released(m) == [m EXCEPT !.stream = 0, !.context = 0, !.sample = "idle", !.player = 0]
Release == /\ streams' = TracksStopped
           /\ contexts' = contexts \ {mic.context}

\* "Test mic" and the choice of another microphone: open() up to its first wait.
Open ==
    /\ OffersTest \/ OffersReady
    /\ opened < MaxStreams
    /\ Release
    /\ mic' = [Released(mic) EXCEPT !.status = "requesting"]
    /\ prompting' = "permission"
    /\ UNCHANGED <<opened, device, storage, stored, dropped>>

\* Only what the row still shows is worth setting once it is gone.
Status(s) == IF mic.mounted THEN s ELSE mic.status

\* rememberMicrophone, with the device the browser has opened, if it names it; a
\* browser that refuses storage keeps what it had.
Remembered(id) == IF id # NoDevice /\ storage = "kept" THEN id ELSE stored

\* getUserMedia answers with a stream; the device asked for is only an ideal, and id is
\* what the track's settings say of the one that was opened.
Granted(d, id) ==
    /\ prompting = "permission"
    /\ opened' = opened + 1
    /\ device' = [device EXCEPT ![opened + 1] = d]
    /\ streams' = streams \cup {opened + 1}
    /\ mic' = [mic EXCEPT !.stream = opened + 1, !.shown = id]
    /\ stored' = Remembered(id)
    /\ prompting' = "devices"
    /\ UNCHANGED <<contexts, storage, dropped>>

\* It is refused, or there is no microphone.
NotGranted(s) ==
    /\ prompting = "permission"
    /\ mic' = [mic EXCEPT !.status = Status(s)]
    /\ prompting' = "nothing"
    /\ UNCHANGED <<streams, contexts, opened, device, storage, stored, dropped>>

\* enumerateDevices answers: the meter is built and runs.
Listed ==
    /\ prompting = "devices"
    /\ contexts' = contexts \cup {opened}
    /\ mic' = [mic EXCEPT !.context = opened, !.status = Status("ready")]
    /\ prompting' = "nothing"
    /\ UNCHANGED <<streams, opened, device, storage, stored, dropped>>

\* "Done".
Done ==
    /\ OffersReady
    /\ Release
    /\ mic' = [Released(mic) EXCEPT !.status = "idle"]
    /\ UNCHANGED <<prompting, opened, device, storage, stored, dropped>>

\* "Record & play back".
RecordSample ==
    /\ OffersSample /\ mic.stream # 0
    /\ mic' = [mic EXCEPT !.sample = "recording", !.recorder = mic.stream]
    /\ UNCHANGED <<prompting, streams, contexts, opened, device, storage, stored,
                   dropped>>

\* onstop plays only what the current stream recorded.
Plays == mic.recorder = mic.stream

\* The recorder stops, after five seconds or with its tracks.
RecorderStops ==
    /\ mic.recorder # 0
    /\ mic' = [mic EXCEPT !.recorder = 0,
                          !.player = IF Plays THEN mic.recorder ELSE @,
                          !.sample = IF Plays THEN "playing" ELSE @]
    /\ UNCHANGED <<prompting, streams, contexts, opened, device, storage, stored,
                   dropped>>

\* The playback ends, or could not begin.
PlaybackEnds ==
    /\ mic.player # 0
    /\ mic' = [mic EXCEPT !.player = 0, !.sample = "idle"]
    /\ UNCHANGED <<prompting, streams, contexts, opened, device, storage, stored,
                   dropped>>

\* The draft opens or the creator leaves: the row goes, and release() runs.
Unmount ==
    /\ mic.mounted
    /\ Release
    /\ mic' = [Released(mic) EXCEPT !.mounted = FALSE]
    /\ dropped' = prompting
    /\ UNCHANGED <<prompting, opened, device, storage, stored>>

MicNext ==
    \/ Open \/ Listed \/ Done \/ RecordSample \/ RecorderStops \/ PlaybackEnds \/ Unmount
    \/ \E d \in Microphones : Granted(d, d) \/ Granted(d, NoDevice)
    \/ \E s \in {"denied", "unavailable"} : NotGranted(s)

MicSpec == MicInit /\ [][MicNext]_micVars

-----------------------------------------------------------------------------
(* Properties.                                                             *)

MicTypeOK ==
    /\ mic.status \in {"idle", "requesting", "ready", "denied", "unavailable"}
    /\ mic.sample \in {"idle", "recording", "playing"}
    /\ prompting \in {"nothing", "permission", "devices"}
    /\ storage \in {"kept", "refused"} /\ stored \in Microphones \cup {NoDevice}
    /\ streams \subseteq Streams /\ contexts \subseteq Streams

\* What is live is the stream the row holds, and nothing is while the row says that it
\* is not testing.  Once the row has gone nothing is left on, with one exception: a row
\* that went while the permission was still being asked for gets its stream all the
\* same, and nobody stops it (one that went while the devices were listed gets only an
\* audio context).
MicrophoneIsReleased ==
    /\ streams \subseteq {mic.stream} /\ contexts \subseteq {mic.context}
    /\ mic.mounted /\ mic.status \notin {"requesting", "ready"} =>
            streams = {} /\ contexts = {}
    /\ ~mic.mounted /\ streams # {} => dropped = "permission"
    /\ ~mic.mounted /\ contexts # {} => dropped # "nothing"

\* PreShowCheck: "Calls use this microphone."  The microphone on the screen is the one
\* that is open, and the one that calls will ask for, also when the browser opened
\* another than was chosen; a browser that refuses storage lets calls use the default.
\* Where the browser does not say what it opened, none is on the screen, and calls ask
\* for the one that was remembered before.
CallsUseShown ==
    /\ OffersReady /\ mic.shown # NoDevice =>
            /\ mic.shown = device[mic.stream]
            /\ stored = IF storage = "kept" THEN mic.shown ELSE NoDevice
    /\ storage = "refused" => stored = NoDevice

\* A playback is of the microphone being tested: a sample of one that was closed or
\* exchanged meanwhile is not played.
PlaysCurrentSample == mic.player # 0 => mic.player = mic.stream

\* The microphone on screen is the one that is open and that calls will use
\* (useMicrophoneCheck, between the browser's answers).
MicrophoneIsSound ==
    /\ MicTypeOK
    /\ MicrophoneIsReleased
    /\ CallsUseShown
    /\ PlaysCurrentSample
=============================================================================
