------------------------------ MODULE Messages ------------------------------
(***************************************************************************)
(* How a program recognises a message.  Nothing on the wire says what a     *)
(* message is: a reader tries the formats it knows, in an order, and serde  *)
(* takes the first whose fields are there, whatever other fields there are; *)
(* an optional field may be absent or null.  Builders that are older than   *)
(* the readers send results in an earlier format.                           *)
(*                                                                          *)
(* A message is a function from its fields to values; of a value the model  *)
(* keeps its JSON type and, where a property asks, what it says.            *)
(***************************************************************************)
EXTENDS Naturals, Sequences, TLC

CONSTANTS Said,         \* what two different texts, or lists, say
          MaxMessages   \* bound: messages sent

Value(type, says) == [type |-> type, says |-> says]
Null == Value("null", "")

\* A format: for each field its type, and whether it is an Option.
Required(type) == [type |-> type, option |-> FALSE]
Option(type) == [type |-> type, option |-> TRUE]
Of(fields, shape) == [f \in fields |-> shape]

BuildLogMsg ==
  Of({"system", "identity", "attempt_id", "output"}, Required("string"))
    @@ Of({"line_number"}, Required("number"))
BuildLogStart ==
  Of({"system", "identity", "attempt_id"}, Required("string"))
    @@ Of({"attempted_attrs", "skipped_attrs"}, Option("list"))
Either ==
  Of({"system", "attempt_id", "request_id"}, Required("string"))
    @@ Of({"repo", "pr"}, Required("object")) @@ Of({"output"}, Required("list"))
    @@ Of({"attempted_attrs", "skipped_attrs"}, Option("list"))
V1 == Either @@ Of({"tag"}, Required("V1Tag")) @@ Of({"status"}, Required("BuildStatus"))
Legacy == Either @@ Of({"success"}, Option("bool")) @@ Of({"status"}, Option("BuildStatus"))
QueuedBuildJobs == Of({"job"}, Required("object")) @@ Of({"architectures"}, Required("list"))

Statuses == {"Skipped", "Success", "Failure", "TimedOut", "UnexpectedError"}

-----------------------------------------------------------------------------
\* Reading.

FitsIn(format, wire) ==
  \A f \in DOMAIN format :
    IF f \in DOMAIN wire
    THEN \/ wire[f].type = format[f].type
         \/ format[f].option /\ wire[f] = Null
    ELSE format[f].option

\* The struct, and what serde writes of it: every field, None as null.
Struct(format, wire) ==
  [f \in DOMAIN format |-> IF f \in DOMAIN wire THEN wire[f] ELSE Null]

Decoded(kind, format, wire) == [kind |-> kind, struct |-> Struct(format, wire)]
Undecodable == [kind |-> "undecodable", struct |-> <<>>]

\* An untagged enum: the first variant that fits.
BuildResult(wire) == IF FitsIn(V1, wire) THEN V1 ELSE Legacy

\* Mutant: the beginning of a log is tried before a line of it.
MsgToJob_StartFirst(wire) ==
  CASE FitsIn(BuildLogStart, wire)     -> Decoded("start", BuildLogStart, wire)
    [] FitsIn(BuildLogMsg, wire) /\ ~FitsIn(BuildLogStart, wire)
                                       -> Decoded("line", BuildLogMsg, wire)
    [] OTHER                           -> Decoded("result", BuildResult(wire), wire)
\* The log collector: a line, else a beginning, else a result.
MsgToJob(wire) ==
  IF FitsIn(BuildLogMsg, wire) THEN Decoded("line", BuildLogMsg, wire)
  ELSE IF FitsIn(BuildLogStart, wire) THEN Decoded("start", BuildLogStart, wire)
  ELSE IF FitsIn(BuildResult(wire), wire) THEN Decoded("result", BuildResult(wire), wire)
  ELSE Undecodable

\* The poster: checks that are queued, else a result.
PostableEvent(wire) ==
  IF FitsIn(QueuedBuildJobs, wire) THEN Decoded("queued", QueuedBuildJobs, wire)
  ELSE IF FitsIn(BuildResult(wire), wire) THEN Decoded("result", BuildResult(wire), wire)
  ELSE Undecodable

\* The status of a result: the older field where the newer is missing.
Status(result) ==
  IF result["status"] # Null THEN result["status"].says
  ELSE CASE result["success"] = Null          -> "Skipped"
         [] result["success"].says = "true"   -> "Success"
         [] result["success"].says = "false"  -> "Failure"

-----------------------------------------------------------------------------
\* Writing: the messages that programs of this version and of earlier ones send.

Attrs == {Null} \cup {Value("list", s) : s \in Said}
Text(fields) == [f \in fields |-> Value("string", "")]
AttrFields(attempted, skipped) == "attempted_attrs" :> attempted @@ "skipped_attrs" :> skipped

Line(said) ==
  Text({"system", "identity", "attempt_id"})
    @@ "output" :> Value("string", said) @@ "line_number" :> Value("number", "")
Start(attempted, skipped) ==
  Text({"system", "identity", "attempt_id"}) @@ AttrFields(attempted, skipped)
Queued == "job" :> Value("object", "") @@ "architectures" :> Value("list", "")

Result(output, attempted, skipped) ==
  Text({"system", "attempt_id", "request_id"})
    @@ "repo" :> Value("object", "") @@ "pr" :> Value("object", "")
    @@ "output" :> Value("list", output) @@ AttrFields(attempted, skipped)
Tagged(status) ==
  "tag" :> Value("V1Tag", "V1") @@ "status" :> Value("BuildStatus", status)

\* Before there was a tag the status came with success, and before there was a
\* status success said it all: nothing, of a build that was not attempted.
Success(status) ==
  CASE status = "Skipped" -> {<<>>, "success" :> Null}
    [] status = "Success" -> {"success" :> Value("bool", "true")}
    [] OTHER              -> {"success" :> Value("bool", "false")}
Untagged(status) ==
  {s @@ ("status" :> Value("BuildStatus", status)) : s \in Success(status)}
    \cup (IF status \in {"Skipped", "Success", "Failure"}
          THEN Success(status) \cup {s @@ ("status" :> Null) : s \in Success(status)}
          ELSE {})

-----------------------------------------------------------------------------
VARIABLES sent,     \* [kind, status]: what the author of the last message meant
          wire,     \* the message
          read,     \* what its readers took it for: a sequence of [kind, struct]
          stored,   \* what the log collector wrote to its file
          count

vars == <<sent, wire, read, stored, count>>

Nothing == [kind |-> "nothing", status |-> ""]
Init == sent = Nothing /\ wire = <<>> /\ read = <<>> /\ stored = <<>> /\ count = 0

Send(kind, status, message) ==
  /\ count < MaxMessages
  /\ count' = count + 1
  /\ sent' = [kind |-> kind, status |-> status]
  /\ wire' = message
  /\ read' = <<>> /\ stored' = <<>>

SendLine == \E said \in Said : Send("line", "", Line(said))
SendStart == \E a, s \in Attrs : Send("start", "", Start(a, s))
SendQueued == Send("queued", "", Queued)
SendResult ==
  \E status \in Statuses, output \in Said, a, s \in Attrs :
    Send("result", status, Result(output, a, s) @@ Tagged(status))
SendOldResult ==
  \E status \in Statuses, output \in Said, a, s \in Attrs : \E old \in Untagged(status) :
    Send("result", status, Result(output, a, s) @@ old)

\* The log collector reads it, and of all but lines stores what it has read.
Collect ==
  /\ sent.kind \in {"line", "start", "result"} /\ read = <<>>
  /\ read' = <<MsgToJob(wire)>>
  /\ stored' = IF MsgToJob(wire).kind = "line" THEN <<>> ELSE MsgToJob(wire).struct
  /\ UNCHANGED <<sent, wire, count>>

\* The poster reads it.
Post ==
  /\ sent.kind \in {"queued", "result"} /\ read = <<>>
  /\ read' = <<PostableEvent(wire)>>
  /\ UNCHANGED <<sent, wire, stored, count>>

Next == SendLine \/ SendStart \/ SendQueued \/ SendResult \/ SendOldResult \/ Collect \/ Post

Spec == Init /\ [][Next]_vars

-----------------------------------------------------------------------------
\* Whatever a program of this version or an earlier one sends is taken by the log
\* collector and by the poster for what it is, though a line of a log has all the
\* fields that the beginning of one needs.
ReadAsSent == \A i \in DOMAIN read : read[i].kind = sent.kind

\* A result means to its reader what it meant to the builder that sent it, of
\* whatever version (BuildResult::status; the check's conclusion comes from it).
StatusAsMeant ==
  \A i \in DOMAIN read :
    read[i].kind = "result" /\ sent.kind = "result" => Status(read[i].struct) = sent.status

\* The metadata and the result that the collector writes say all that the message
\* said: the struct it read has a place for every field (v1_serialization and the
\* other tests compare a few of them).
NothingLostInStore ==
  stored # <<>> => \A f \in DOMAIN wire : f \in DOMAIN stored /\ stored[f] = wire[f]
=============================================================================
