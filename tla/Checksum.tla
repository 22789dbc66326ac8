------------------------------ MODULE Checksum ------------------------------
(***************************************************************************)
(* blake3ppsum (src/cli/sum.cpp): digests of files and of standard input,  *)
(* or the lines of checksum lists verified one by one, with the failures   *)
(* counted into the exit status.                                           *)
(*                                                                         *)
(* A digest is the pair of the key and the content.  Standard input is     *)
(* read once: by the key, by a list that comes from it, and by the name    *)
(* "-", which takes all that is left.  A line is [form, name, digest], the *)
(* form "entry", "blank" (or a comment), or anything else: malformed.      *)
(***************************************************************************)
EXTENDS Integers, Sequences, SequencesExt

CONSTANTS
  Disk,       \* name -> content of the files that exist
  ListFiles,  \* name -> lines of the checksum lists that exist
  KeyFiles,   \* name -> key of the key files that are well formed
  Commands    \* [key, check, files, input]: the arguments, and the lines or
              \* data of standard input

IsSequence(s) == s \in Seq(Range(s))

ASSUME CommandsAssumption ==
  /\ \A c \in Commands : IsSequence(c.files) /\ IsSequence(c.input) /\ c.check \in BOOLEAN
  /\ \A n \in DOMAIN ListFiles : IsSequence(ListFiles[n])

VARIABLES
  command,   \* the arguments
  stdin,     \* what is left of standard input
  step,      \* where main() is
  key,       \* the engine's key
  pending,   \* operands not looked at yet
  lines,     \* the lines left of a list, unless it is standard input
  failures,  \* the count the status is made of
  printed,   \* the digests and verdicts on standard output
  cut,       \* a list could not be read to its end
  code       \* the exit status

checksumVars == <<command, stdin, step, key, pending, lines, failures, printed, cut, code>>

Stdin == "-"
NoKey == "none"
NotExited == -1
Digest(k, content) == <<k, content>>

ChecksumInit ==
  /\ command \in Commands
  /\ stdin = command.input
  /\ step = "guard"
  /\ key = NoKey
  /\ pending = << >>
  /\ lines = << >>
  /\ failures = 0
  /\ printed = << >>
  /\ cut = FALSE
  /\ code = NotExited

Exits(status) == step' = "exit" /\ code' = status

-----------------------------------------------------------------------------
(* main() up to the engine *)

KeyTakesInput ==
  command.key = Stdin /\ (command.files = << >> \/ Stdin \in Range(command.files))

Guard ==
  /\ step = "guard"
  /\ IF KeyTakesInput THEN Exits(2) ELSE step' = "key" /\ UNCHANGED code
  /\ UNCHANGED <<command, stdin, key, pending, lines, failures, printed, cut>>

\* load_key() of standard input reads the key, the first unit, and at most
\* four bytes after it, the second, for a line ending; it does not see more.
Blank == "blank"
StdinKeys ==
  IF stdin # << >> /\ (Len(stdin) > 1 => stdin[2] = Blank) THEN {stdin[1]} ELSE {}
AfterKey == IF Len(stdin) <= 2 THEN << >> ELSE SubSeq(stdin, 3, Len(stdin))

Keys ==
  CASE command.key = NoKey -> {NoKey}
    [] command.key = Stdin -> StdinKeys
    [] OTHER -> {KeyFiles[name] : name \in {command.key} \cap DOMAIN KeyFiles}

LoadKey ==
  /\ step = "key"
  /\ \/ /\ key' \in Keys
        /\ step' = "operands"
        /\ pending' = IF command.files = << >> THEN <<Stdin>> ELSE command.files
        /\ UNCHANGED code
     \/ /\ Keys = {}
        /\ Exits(2)
        /\ UNCHANGED <<key, pending>>
  /\ stdin' = IF command.key = Stdin THEN AfterKey ELSE stdin
  /\ UNCHANGED <<command, lines, failures, printed, cut>>

-----------------------------------------------------------------------------
(* hash_hex() of a name, while "input" is left of standard input: the      *)
(* digest, or an exception.  Either takes all of standard input.           *)

CanRead(name) == name = Stdin \/ name \in DOMAIN Disk
Content(name, input) == IF name = Stdin THEN input ELSE Disk[name]
InputAfter(name, input) == IF name = Stdin THEN << >> ELSE input

\* mutant: an exception is reported and not counted
CatchesUncounted == failures

CatchCounts == failures + 1

Operand == step = "operands" /\ pending # << >>
OperandDone == pending' = Tail(pending)

HashOperand ==
  /\ Operand /\ ~command.check
  /\ LET name == Head(pending)
     IN \/ /\ CanRead(name)
           /\ printed' = Append(printed, <<name, Digest(key, Content(name, stdin))>>)
           /\ UNCHANGED failures
        \* the file cannot be opened, or not be read to its end
        \/ failures' = CatchCounts /\ UNCHANGED printed
  /\ stdin' = InputAfter(Head(pending), stdin)
  /\ OperandDone
  /\ UNCHANGED <<command, step, key, lines, cut, code>>

-----------------------------------------------------------------------------
(* --check *)

OpenList ==
  /\ Operand /\ command.check
  /\ \/ /\ Head(pending) = Stdin \/ Head(pending) \in DOMAIN ListFiles
        /\ step' = "lines"
        /\ lines' = IF Head(pending) = Stdin THEN << >> ELSE ListFiles[Head(pending)]
        /\ UNCHANGED <<pending, failures>>
     \/ /\ Head(pending) # Stdin
        /\ OperandDone
        /\ failures' = failures + 1
        /\ UNCHANGED <<step, lines>>
  /\ UNCHANGED <<command, stdin, key, printed, cut, code>>

OnStdin == Head(pending) = Stdin
Unread == IF OnStdin THEN stdin ELSE lines

\* mutant: the digest is not compared
MatchesAnything(line, content) == TRUE

Matches(line, content) == line.digest = Digest(key, content)

\* What becomes of a line, while "input" is left of standard input.
Verdict(line, input) ==
  \/ /\ line.form = "blank"
     /\ UNCHANGED <<failures, printed>>
  \/ /\ line.form \notin {"blank", "entry"}
     /\ failures' = failures + 1
     /\ UNCHANGED printed
  \/ /\ line.form = "entry" /\ CanRead(line.name)
     /\ LET ok == Matches(line, Content(line.name, input))
        IN /\ printed' = Append(printed, <<line.name, ok>>)
           /\ failures' = failures + (IF ok THEN 0 ELSE 1)
  \/ /\ line.form = "entry"
     /\ failures' = CatchCounts
     /\ printed' = Append(printed, <<line.name, FALSE>>)

CheckLine ==
  /\ step = "lines" /\ Unread # << >>
  /\ LET line == Head(Unread)
         input == IF OnStdin THEN Tail(stdin) ELSE stdin
     IN /\ Verdict(line, input)
        /\ stdin' = IF line.form = "entry" THEN InputAfter(line.name, input) ELSE input
        /\ lines' = IF OnStdin THEN lines ELSE Tail(lines)
  /\ UNCHANGED <<command, step, key, pending, cut, code>>

EndOfList ==
  /\ step = "lines" /\ Unread = << >>
  /\ step' = "operands"
  /\ OperandDone
  /\ UNCHANGED <<command, stdin, key, lines, failures, printed, cut, code>>

\* getline() fails before the end: the loop takes it for the end.
ListUnreadable ==
  /\ step = "lines" /\ Unread # << >>
  /\ step' = "operands"
  /\ cut' = TRUE
  /\ OperandDone
  /\ UNCHANGED <<command, stdin, key, lines, failures, printed, code>>

-----------------------------------------------------------------------------
Finish ==
  /\ step = "operands" /\ pending = << >>
  /\ Exits(IF failures = 0 THEN 0 ELSE 1)
  /\ UNCHANGED <<command, stdin, key, pending, lines, failures, printed, cut>>

ChecksumNext ==
  \/ Guard \/ LoadKey \/ HashOperand
  \/ OpenList \/ CheckLine \/ EndOfList \/ ListUnreadable
  \/ Finish

-----------------------------------------------------------------------------
(* Properties *)

Operands == IF command.files = << >> THEN <<Stdin>> ELSE command.files

\* The data of operand i, when standard input began as "input".
OperandData(i) ==
  Content(Operands[i],
          IF \E j \in 1 .. i - 1 : Operands[j] = Stdin THEN << >> ELSE command.input)

\* A list's line is true of the files.
Verified(line) ==
  \/ line.form = "blank"
  \/ /\ line.form = "entry"
     /\ line.name = Stdin \/ line.name \in DOMAIN Disk
     /\ line.name # Stdin => line.digest = Digest(key, Disk[line.name])

ListOf(operand) == IF operand = Stdin THEN command.input ELSE ListFiles[operand]

\* An entry that names standard input takes what is left of it as its data.
TakesInput(line) == line.form = "entry" /\ line.name = Stdin

\* Such an entry came before line j of standard input as the list i.
TakenBefore(i, j) ==
  \/ \E h \in 1 .. i - 1 :
       Operands[h] # Stdin /\ \E line \in Range(ListOf(Operands[h])) : TakesInput(line)
  \/ \E h \in 1 .. j - 1 : TakesInput(command.input[h])

(***************************************************************************)
(* Status 0 is the whole truth: every operand was printed with the digest  *)
(* of its own data under the key, in order, or every line of every list is *)
(* true of the file it names, none skipped, whichever reads fail and       *)
(* whoever takes standard input first: a line of standard input that an    *)
(* entry "-" took before as its data is none of a list.  And status 2      *)
(* comes before any work.  (main, run_check)                               *)
(***************************************************************************)
VerdictsRight ==
  /\ code = 0 /\ ~command.check =>
       printed = [i \in DOMAIN Operands |-> <<Operands[i], Digest(key, OperandData(i))>>]
  /\ code = 0 /\ command.check /\ ~cut =>
       \A i \in DOMAIN Operands :
         \A j \in DOMAIN ListOf(Operands[i]) :
           Verified(ListOf(Operands[i])[j]) \/ (Operands[i] = Stdin /\ TakenBefore(i, j))
  /\ code = 2 => printed = << >> /\ failures = 0

(***************************************************************************)
(* "1 when the work itself failed (a file could not be read, a checksum    *)
(* did not match)" (tool_common.hpp): a list that could not be read to its *)
(* end is not reported as verified.                                        *)
(***************************************************************************)
UnreadListFails == code = 0 => ~cut
=============================================================================
