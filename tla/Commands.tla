------------------------------ MODULE Commands ------------------------------
(***************************************************************************)
(* evalctl and the client under it (main.py, client.py): what a command    *)
(* reads, sends, writes and prints, and the exit code a script sees.  An   *)
(* automation script runs a command, and again while its code is a         *)
(* failure that may pass.  Each problem leaves by the first except clause  *)
(* of its command that catches it, and one that none catches exits with 1. *)
(* What is printed may fail as well, half way or before: a result, which   *)
(* is printed inside the try, or the message of a problem.                 *)
(***************************************************************************)
EXTENDS Naturals

CONSTANTS
    CommandNames,  \* the commands a script runs, named for their functions
    MaxReruns      \* bound: the times it runs one again

AllCommands == {
    "project_create", "project_list", "dataset_create", "dataset_list",
    "dataset_publish", "dataset_import", "dataset_validate", "dataset_diff",
    "suite_create", "experiment_create", "run_start", "run_status", "run_cancel",
    "run_resume", "results_show", "compare_runs", "report_export", "gate_check"}

ASSUME CommandsAssumption == CommandNames \subseteq AllCommands /\ MaxReruns \in Nat

VARIABLES
    script,     \* the command, how far this run of it is, and its reruns
    screen,  \* this run's exit code, what it printed, and the file it was to write
    server   \* what the command left at the API, its last answer, and how much it
             \* left or was told that the script did not see

commandVars == <<script, screen, server>>

-----------------------------------------------------------------------------
(* The commands *)

Local == {"dataset_validate", "suite_create"}

\* Commands with a JSON document, which they validate inside their try.
Specified == {"dataset_publish", "suite_create", "experiment_create", "gate_check"}

\* Commands whose body a model validates out of reach of an except clause.
Unguarded == {"project_create", "dataset_create", "run_start", "compare_runs"}

Paged == {"project_list", "dataset_list"}

\* Commands that add something each time, and those that can only add it once.
Additive == {"dataset_publish", "dataset_import", "experiment_create", "run_start", "compare_runs"}
Single == {"project_create", "dataset_create", "run_cancel", "run_resume"}

WritesFile == {"suite_create", "report_export"}

Answers == {"value", "page", "refusal", "crash", "list", "noise", "misfit", "lost"}

-----------------------------------------------------------------------------
(* Exit codes *)

Usage == 2

\* An unreadable file: _load_json and dataset_validate say 2, dataset_import 3.
Unreadable(c) == IF c = "dataset_import" THEN 3 ELSE 2

\* A pydantic ValidationError, of the command's input or of the API's answer.
Unfit(c) == IF c \in Specified THEN 2 ELSE 1

\* What a problem with the answer becomes: ApiClientError is 4, and an undecodable body,
\* which every method but the import and the export decodes first, is caught by nobody;
\* nor is an answer of the import that is no object.
AnswerCode(c, answer) ==
    CASE answer = "refusal" -> 4
      [] answer = "list" -> IF c = "dataset_import" THEN 1 ELSE 4
      [] answer \in {"crash", "noise"} ->
            IF c \in {"dataset_import", "report_export"} THEN 4 ELSE 1
      [] answer = "misfit" -> Unfit(c)
      [] answer = "lost" -> 1

Unwritable(c) == IF c = "report_export" THEN 3 ELSE 2

\* An OSError of _emit: it is in the try of the command, after all it did.
Unshown(c) ==
    CASE c \in {"report_export", "dataset_import"} -> 3
      [] c \in {"suite_create", "dataset_validate"} -> 2
      [] OTHER -> 1

\* Mutant: the verdict is left to the printed result.
GateCodePrinted(c, passed) == 0

\* The end of a command that printed its result.
GateCode(c, passed) == IF c = "gate_check" /\ ~passed THEN 5 ELSE 0

-----------------------------------------------------------------------------
(* One run of a command *)

NoScript == [command |-> "none", at |-> "none", reruns |-> 0]
BlankScreen == [code |-> 0, shown |-> FALSE, written |-> FALSE, passed |-> TRUE]

CommandsInit ==
    /\ script = NoScript
    /\ screen = BlankScreen
    /\ server = [left |-> 0, heard |-> "none", unseen |-> 0]

Exit(code) ==
    /\ script' = [script EXCEPT !.at = "ended"]
    /\ screen' = [screen EXCEPT !.code = code]

\* A problem with its code; one whose message cannot be printed exits with 1.
LeaveWith(code) == Exit(code) \/ Exit(1)

Go(at) == script' = [script EXCEPT !.at = at]

RunCommand(c) ==
    /\ script.at = "none"
    /\ script' = [NoScript EXCEPT !.command = c, !.at = "options"]
    /\ UNCHANGED <<screen, server>>

\* Typer's checks, _money, _project_id, whose message is printed inside the try, and the
\* names of formats and schemas.
RejectOptions ==
    /\ script.at = "options"
    /\ LeaveWith(Usage) \/ LeaveWith(Unshown(script.command))
    /\ UNCHANGED server

AcceptOptions ==
    /\ script.at = "options" /\ Go("input")
    /\ UNCHANGED <<screen, server>>

\* A file that cannot be read or is no JSON, one that is not UTF-8, which _load_json does
\* not catch, and a body that the model turns down.
RejectInput ==
    /\ script.at = "input"
    /\ \/ /\ script.command \in Specified \union {"dataset_import", "dataset_validate"}
          /\ LeaveWith(Unreadable(script.command))
       \/ script.command \in Specified /\ Exit(1)
       \/ script.command \in Specified \union Unguarded /\ LeaveWith(Unfit(script.command))
    /\ UNCHANGED server

\* dataset validate prints its findings before it fails.
FindInvalid ==
    /\ script.command = "dataset_validate" /\ script.at = "input"
    /\ script' = [script EXCEPT !.at = "ended"]
    /\ screen' = [screen EXCEPT !.code = 2, !.shown = TRUE]
    /\ UNCHANGED server

AcceptInput ==
    /\ script.at = "input"
    /\ Go(IF script.command \notin Local THEN "request"
          ELSE IF script.command \in WritesFile THEN "output" ELSE "result")
    /\ UNCHANGED <<screen, server>>

\* What the answers may say of the change: a refusal and a crash leave none, a result
\* is given before the transaction commits, and the rest may come from in between.
Applied(answer) ==
    CASE answer \in {"refusal", "crash", "page"} -> {FALSE}
      [] answer \in {"list", "misfit"} -> {TRUE}
      [] OTHER -> BOOLEAN

Left(c, applied) ==
    IF ~applied \/ c \notin Additive \union Single THEN server.left
    ELSE IF c \in Additive THEN server.left + 1 ELSE 1

\* A second project or dataset of the same slug is refused.
Receive(answer, applied, passed) ==
    /\ script.at = "request"
    /\ applied \in Applied(answer)
    /\ answer = "page" => script.command \in Paged
    /\ script.command = "report_export" => answer \notin {"list", "misfit", "noise"}
    /\ script.command \in {"project_create", "dataset_create"} /\ server.left > 0
            => ~applied /\ answer # "value"
    /\ passed \/ (script.command = "gate_check" /\ answer = "value")
    /\ server' = [left |-> Left(script.command, applied), heard |-> answer,
                  unseen |-> IF applied /\ answer # "value" THEN server.unseen + 1
                             ELSE server.unseen]
    /\ CASE answer = "page" -> UNCHANGED <<script, screen>>
         [] answer = "value" ->
                /\ Go(IF script.command \in WritesFile THEN "output" ELSE "result")
                /\ screen' = [screen EXCEPT !.passed = passed]
         [] OTHER -> LeaveWith(AnswerCode(script.command, answer))

WriteOutput ==
    /\ script.at = "output"
    /\ \/ Go("result") /\ screen' = [screen EXCEPT !.written = TRUE]
       \/ LeaveWith(Unwritable(script.command))
    /\ UNCHANGED server

ShowResult ==
    /\ script.at = "result"
    /\ script' = [script EXCEPT !.at = "ended"]
    /\ screen' = [screen EXCEPT !.shown = TRUE,
                                !.code = GateCode(script.command, screen.passed)]
    /\ UNCHANGED server

\* _emit fails: the output is closed, full, or of an encoding that cannot tell it.
LoseResult ==
    /\ script.at = "result"
    /\ LeaveWith(Unshown(script.command))
    /\ server' = [server EXCEPT !.unseen = @ + 1]

\* The script runs the command again after a failure of the API, or of nobody's.
Rerun ==
    /\ script.at = "ended" /\ screen.code \in {1, 4} /\ script.reruns < MaxReruns
    /\ script' = [script EXCEPT !.at = "options", !.reruns = @ + 1]
    /\ screen' = BlankScreen
    /\ server' = [server EXCEPT !.heard = "none"]

CommandsNext ==
    \/ \E c \in CommandNames : RunCommand(c)
    \/ RejectOptions \/ AcceptOptions
    \/ RejectInput \/ FindInvalid \/ AcceptInput
    \/ \E answer \in Answers, applied, passed \in BOOLEAN : Receive(answer, applied, passed)
    \/ WriteOutput
    \/ ShowResult \/ LoseResult
    \/ Rerun

CommandsSpec == CommandsInit /\ [][CommandsNext]_commandVars

-----------------------------------------------------------------------------
(* Properties *)

\* What a script may conclude from an exit code, whatever it ran, however often, and
\* whatever it could print.  0: the API answered, the file is written, the gate passed and
\* the result is printed.  5: just those gates that failed and whose verdict is printed in
\* full.  3: a report or an import, and nothing the API refused, but the file may be there
\* and the import published.  4: the API answered.  2: the command, or the API's answer to
\* it, was not as it should be.  With any code but 0 and 5, all that is left at the API is
\* unseen; and a script that runs a failure again holds at most one thing more than it was
\* not shown.
\* main.py, every command; docs/guides/cli.md:58.
CodesTell ==
    script.at = "ended" =>
        /\ screen.code = 0 =>
              /\ screen.shown /\ screen.passed
              /\ script.command \notin Local => server.heard = "value"
              /\ script.command \in WritesFile => screen.written
        /\ screen.code = 5 <=> script.command = "gate_check" /\ screen.shown /\ ~screen.passed
        /\ screen.code = 5 => server.heard = "value"
        /\ screen.code = 3 =>
              /\ script.command \in {"report_export", "dataset_import"}
              /\ server.heard \in {"none", "value"} /\ ~screen.shown
        /\ screen.code = 4 => server.heard \notin {"none", "value", "lost", "misfit"}
        /\ screen.code = 2 => server.heard \in {"none", "misfit"}
        /\ screen.code \notin {0, 5} => server.left <= server.unseen
        /\ server.left <= server.unseen + 1
=============================================================================
