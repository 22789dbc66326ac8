------------------------------- MODULE Tools -------------------------------
(***************************************************************************)
(* The command line tools (src/cli/): a behaviour is one run of one of     *)
(* them, or a program that uses the output reader as a library.            *)
(***************************************************************************)
EXTENDS Generator, Checksum

toolsVars == <<generatorVars, checksumVars>>

ToolsInit ==
  /\ client \in {"library", "blake3ppgen", "blake3ppsum"}
  /\ GeneratorInit
  /\ ChecksumInit
  /\ client # "blake3ppsum" => command = (CHOOSE c \in Commands : TRUE)

ToolsNext ==
  \/ GeneratorNext /\ UNCHANGED checksumVars
  \/ client = "blake3ppsum" /\ ChecksumNext /\ UNCHANGED generatorVars

Spec == ToolsInit /\ [][ToolsNext]_toolsVars

(***************************************************************************)
(* A tool is a running process: its thread goes on, and so do the pool's   *)
(* threads and the device it waits for.  Nothing makes ~file_writer return *)
(* while a slot stays busy after a failed write.                           *)
(***************************************************************************)
Fairness ==
  /\ WF_toolsVars(client = "blake3ppgen" /\ Proceeds /\ UNCHANGED checksumVars)
  /\ WF_toolsVars(client = "blake3ppgen" /\ (FillThrows \/ (~stuck /\ Unwind))
                    /\ UNCHANGED checksumVars)
  /\ WF_toolsVars(client = "blake3ppgen" /\ DeviceWrites /\ UNCHANGED checksumVars)
  /\ WF_toolsVars(client = "blake3ppsum" /\ ChecksumNext /\ UNCHANGED generatorVars)

FairSpec == Spec /\ Fairness

Endless == options.length.unit = "inf"

(***************************************************************************)
(* A tool ends: the generator unless it was asked for an endless stream or *)
(* its writer failed and left a slot busy, the checksum tool always.       *)
(* (main of gen.cpp and of sum.cpp)                                        *)
(***************************************************************************)
ToolsEnd ==
  /\ <>(client = "blake3ppgen" /\ ~Endless => phase = "exit" \/ stuck)
  /\ <>(client = "blake3ppsum" => step = "exit")
=============================================================================
