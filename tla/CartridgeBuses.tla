--------------------------- MODULE CartridgeBuses ---------------------------
(***************************************************************************)
(* The cartridges of the two machines, side by side, and what is expected  *)
(* of both: that the two copies of the bank registers and of the save data *)
(* agree.  The machines share nothing, so each step is one of theirs.      *)
(***************************************************************************)
EXTENDS GameBoyBus, GameGearBus

BusesInit == BusInit /\ GearInit

BusesNext ==
    \/ BusNext /\ UNCHANGED gearVars
    \/ GearNext /\ UNCHANGED busVars

busesVars == <<busVars, gearVars>>

BusesSpec == BusesInit /\ [][BusesNext]_busesVars

-----------------------------------------------------------------------------
(* Properties that go together.                                            *)

\* What the memory map, the cartridge, the code views and the debugger take a
\* bank to be is one bank, on both machines (GameBoyMapper.cpp,
\* GameBoyMemoryMap.cpp, GameGearMemoryMap.cpp).
BanksAgree == RomViewsAgree /\ CodeIsWhatIsRead /\ GearCodeIsWhatIsRead

\* What the machine takes to be saved is what the next start will find, and a
\* saved state can be loaded, on both machines (GameBoyCartridge.hpp,
\* GameGearCartridge.cpp).
SavesAgree == CleanMeansSaved /\ OwnStatesLoad /\ GearCleanMeansSaved /\ GearOwnStatesLoad

\* The two copies of the bank registers and of the save data agree
\* (GameBoyMapper.cpp, GameBoyCartridge.hpp, GameGearCartridge.cpp).
BusesAgree == BanksAgree /\ SavesAgree
=============================================================================
