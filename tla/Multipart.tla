------------------------------ MODULE Multipart ------------------------------
(***************************************************************************)
(* An HTTP upload: http_handler/file_put_handler.h, and http_handler/      *)
(* util.h (FillFileReq, HandleMultipart), which makes a FileReq of a form. *)
(*                                                                         *)
(* External: the MultipartReader calls onPartBegin with the headers of a   *)
(* part and then onPartData any number of times with pieces of its data;   *)
(* at an error it stops.  Proxygen ends a request with onEOM or onError.   *)
(***************************************************************************)
EXTENDS SequencesExt, Integers

CONSTANTS
    Values, Numbers,    \* pieces of data; those that spell a number
    MaxParts, MaxPieces \* bounds: parts of a form, pieces of a part

ASSUME NumbersAreValues == Numbers \subseteq Values

\* The names of parts that HandleMultipart knows, and another one.
Names == {"op", "path", "hash", "size", "content", "partition_num", "repo_uuid",
          "partition_size"}
Other == "another name"

\* A part without the header Content-Disposition.
Unnamed == "no name"

VARIABLES
    form,               \* the form that is sent
    todo,               \* the calls the reader has yet to make for it
    field,              \* MultiContext::field, which is not initialised
    req,                \* the FileReq: a field's data as a sequence of pieces,
                        \* where <<>> is the field's default, "" or 0
    stage,              \* of the FilePutHandler
    handled             \* the FileReqs given to FileOpHandle

formVars == <<form, todo, field, req, stage, handled>>

Begin(name) == [call |-> "onPartBegin", arg |-> name]
Data(piece) == [call |-> "onPartData", arg |-> piece]

Calls(f) ==
    FlattenSeq([i \in 1 .. Len(f) |->
        <<Begin(f[i].name)>>
            \o [j \in 1 .. Len(f[i].pieces) |-> Data(f[i].pieces[j])]])

Forms == BoundedSeq([name : Names \cup {Other, Unnamed},
                     pieces : BoundedSeq(Values, MaxPieces)], MaxParts)

EmptyReq == [n \in Names |-> <<>>]

FormInit ==
    /\ form \in Forms
    /\ todo = <<>>
    /\ field = "uninitialised"
    /\ req = EmptyReq
    /\ stage = "new"
    /\ handled = {}

-----------------------------------------------------------------------------
(* FilePutHandler, and HandleMultipart with its callbacks *)

\* The boundary is what follows the 30th character of Content-Type; a shorter
\* header ends the process, as substr throws and the function is noexcept.
onRequest ==
    /\ stage = "new"
    /\ stage' \in {"body", "terminated"}
    /\ UNCHANGED <<form, todo, field, req, handled>>

\* onBody has collected the whole form when the request ends.
onEOM ==
    /\ stage = "body"
    /\ stage' = "parsing"
    /\ todo' = Calls(form)
    /\ UNCHANGED <<form, field, req, handled>>

onError ==
    /\ stage = "body"
    /\ stage' = "deleted"
    /\ UNCHANGED <<form, todo, field, req, handled>>

NextCall(call) ==
    /\ stage = "parsing"
    /\ todo # <<>> /\ Head(todo).call = call
    /\ todo' = Tail(todo)
    /\ UNCHANGED <<form, stage, handled>>

\* Mutant: a name that is not known leaves the field as it was.
FieldNamedKept(name) == IF name \in Names THEN name ELSE field

FieldNamed(name) ==
    IF name = Unnamed THEN field
    ELSE IF name \in Names THEN name
    ELSE "MP_unknown"

onPartBegin ==
    /\ NextCall("onPartBegin")
    /\ field' = FieldNamed(Head(todo).arg)
    /\ UNCHANGED req

\* Util::ToInt is 0 when the text is no number.
ToInt(piece) == IF piece \in Numbers THEN <<piece>> ELSE <<>>

\* FillFileReq.
FillFileReq(f, piece) ==
    CASE f \in {"op", "size", "partition_num", "partition_size"} ->
            [req EXCEPT ![f] = ToInt(piece)]
      [] f \in {"path", "hash", "repo_uuid"} -> [req EXCEPT ![f] = <<piece>>]
      [] f = "content" -> [req EXCEPT ![f] = Append(@, piece)]
      [] OTHER -> req

\* The field that is read before it was ever set may have any value.
onPartData ==
    /\ NextCall("onPartData")
    /\ \E f \in IF field = "uninitialised" THEN Names \cup {"MP_unknown"}
                                           ELSE {field} :
          req' = FillFileReq(f, Head(todo).arg)
    /\ UNCHANGED field

\* reader.hasError(): the answer is 500.
ReaderError ==
    /\ stage = "parsing" /\ todo # <<>>
    /\ stage' = "500"
    /\ UNCHANGED <<form, todo, field, req, handled>>

\* FileOpHandle gets the request; the answer is 200 whatever it says, or 500 if
\* it cannot be made JSON.
Handle ==
    /\ stage = "parsing" /\ todo = <<>>
    /\ stage' \in {"200", "500"}
    /\ handled' = handled \cup {req}
    /\ UNCHANGED <<form, todo, field, req>>

\* FilePutHandler::requestComplete.
PutComplete ==
    /\ stage \in {"200", "500"}
    /\ stage' = "deleted"
    /\ UNCHANGED <<form, todo, field, req, handled>>

FormNext ==
    \/ onRequest \/ onEOM \/ onError \/ onPartBegin \/ onPartData
    \/ ReaderError \/ Handle \/ PutComplete

-----------------------------------------------------------------------------

\* The request that FileOpHandle gets has of every field what the form says of
\* it, if every part of the form is named: the content is all of the form's
\* content in order, any other field the last piece given for it, and data of a
\* part with another name are in no field.
FormMeansRequest ==
    (\A i \in 1 .. Len(form) : form[i].name # Unnamed) =>
        \A r \in handled, n \in Names :
            LET mine == SelectSeq(form, LAMBDA part : part.name = n)
                said == FlattenSeq([i \in 1 .. Len(mine) |-> mine[i].pieces])
            IN  r[n] = IF n = "content" THEN said
                       ELSE IF said = <<>> THEN <<>>
                       ELSE IF n \in {"path", "hash", "repo_uuid"}
                              \/ Last(said) \in Numbers
                            THEN <<Last(said)>>
                       ELSE <<>>

==============================================================================
