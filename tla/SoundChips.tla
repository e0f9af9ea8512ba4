----------------------------- MODULE SoundChips -----------------------------
(***************************************************************************)
(* The sound chips of the two consoles, side by side, and what both        *)
(* promise the plugins: that the notes follow the voices, and that packets *)
(* follow on each other.                                                   *)
(***************************************************************************)
EXTENDS GameBoySound, GameGearSound

ChipsInit == GbSoundInit /\ GgSoundInit

ChipsNext ==
    \/ GbSoundNext /\ UNCHANGED ggSoundVars
    \/ GgSoundNext /\ UNCHANGED gbSoundVars

chipVars == <<gbSoundVars, ggSoundVars>>

ChipsSpec == ChipsInit /\ [][ChipsNext]_chipVars

-----------------------------------------------------------------------------
(* Properties that go together.                                            *)

\* A voice that sounds will run out, and the notes PsgMidiPlugin holds are the
\* voices that sound, on either console (GameBoyAPU.cpp, GameGearPSG.cpp
\* recordWrite).
NotesFollow == VoicesRunOut /\ NotesFollowVoices /\ KeysFollowVoices

\* What the plugins get of either chip leaves no sample out, repeats none, and
\* puts every event at one of its samples (GameBoyMachine.cpp
\* realtimeAudioPacket, GameGearPSG.cpp produceFrame).
PacketsInOrder == PacketsFollow /\ ChunksFollow
=============================================================================
