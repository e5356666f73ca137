-------------------------------- MODULE Sink --------------------------------
(***************************************************************************)
(* media.Sink (internal/media/output.go): where payloads go.  With         *)
(* --output=stdout the writer is os.Stdout behind a Close that does        *)
(* nothing; otherwise it is the stdin pipe of a child process that         *)
(* exec.CommandContext kills when the context is cancelled.                *)
(*                                                                         *)
(* output is the sequence of payloads the writer accepted.  writePayload   *)
(* holds outMu around Write, so a write is a single step.  A write that    *)
(* fails, or that the end of the process cuts off, may have put a part of  *)
(* the payload out: torn says behind how many payloads.                    *)
(***************************************************************************)
EXTENDS Sequences

CONSTANT CommandSink   \* TRUE: --output=ffmpeg|ffplay|command; FALSE: stdout

ASSUME SinkAssumption == CommandSink \in BOOLEAN

VARIABLES
  output,   \* the payloads written so far
  torn,     \* the payloads written in part: [after, of]
  sink,     \* "none", "open" or "closed" (Close has closed the writer)
  child     \* "none", "running"; "left" (the shell is gone, a process it started still
            \* holds the pipe) or "gone"

sinkVars == <<output, torn, sink, child>>

SinkInit == output = <<>> /\ torn = {} /\ sink = "none" /\ child = "none"

NewSink ==
  /\ sink' = "open"
  /\ child' = IF CommandSink THEN "running" ELSE "none"
  /\ UNCHANGED <<output, torn>>

(***************************************************************************)
(* A write to the pipe succeeds only while the pipe is open and has a      *)
(* reader; a write to stdout may succeed even after Close, whose           *)
(* nopCloser leaves the file open.  Any write may fail (disk, pipe).       *)
(***************************************************************************)
Writable == CommandSink => sink = "open" /\ child \in {"running", "left"}

Write(p) ==
  /\ Writable
  /\ output' = Append(output, p)
  /\ UNCHANGED <<torn, sink, child>>

Tear(p) ==
  /\ torn' = torn \cup {[after |-> Len(output), of |-> p]}
  /\ UNCHANGED <<output, sink, child>>

\* The caller of a failing write learns only that it failed.
WriteFails(p) == Tear(p) \/ UNCHANGED sinkVars

CloseWriter == sink' = "closed" /\ UNCHANGED <<output, torn, child>>

\* The command is a "sh -c", and the context kills the shell alone.
ShellExits ==
  /\ child = "running"
  /\ child' \in {"left", "gone"}
  /\ UNCHANGED <<output, torn, sink>>

PipeFreed ==
  /\ child = "left"
  /\ child' = "gone"
  /\ UNCHANGED <<output, torn, sink>>
=============================================================================
