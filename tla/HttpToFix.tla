----------------------------- MODULE HttpToFix -----------------------------
(***************************************************************************)
(* What becomes of an HTTP request: HttpBuilder answers it with what        *)
(* HttpToFixBuilder makes of it, which copies the request's JSON into a FIX *)
(* message, has FixBuilder send it, and copies the response back.  The      *)
(* fields go through JsonObject (http_message.cpp), Object::copy_from       *)
(* (message.cpp) and FixObject (fix_message.cpp), each with its own idea of *)
(* a field's type.                                                         *)
(*                                                                         *)
(* One connection's requests, one after the other.  What goes on between    *)
(* the threads meanwhile is FixBuilder's and Connection's.                  *)
(***************************************************************************)
EXTENDS Naturals, Sequences, SequencesExt

CONSTANTS
    Name,        \* the fields of fix_field.hpp's tables
    Tags,        \* the same, in the order of their tags
    FixTypeOf,   \* the FIX type they give each
    Comp,        \* BeginString, SenderCompID and TargetCompID, taken as one field
    MsgType,
    Whole, Fraction, Word,   \* texts: of whole numbers, of others, and the rest
    Session,     \* the FIX sessions, by what Comp says: a subset of Word
    NewOrderSingle, ExecutionReport,   \* values of MsgType
    Foreign,     \* names of JSON members that are no field's
    JsonHeads, JsonBodies,   \* the objects clients send, sequences of members
    FixHeads, FixBodies,     \* the counterparty's messages
    None,        \* no value, no object, no session
    MaxRequests  \* bound: requests on the connection

Text == Whole \cup Fraction \cup Word
FixType == {"String", "Char", "UtcTimeStamp", "Int", "Qty", "Price", "Amt", "Boolean"}

\* What a field can be in the interface the two kinds of message share.
FieldType == {"unknown", "int", "string", "double"}

\* detail::get_type: the FIX types that have a type here.  The others (amounts,
\* floats, booleans, currencies, dates, lengths and more) are "unknown".
TypeOf(name) ==
    CASE FixTypeOf[name] \in {"String", "Char", "UtcTimeStamp"} -> "string"
      [] FixTypeOf[name] = "Int" -> "int"
      [] FixTypeOf[name] \in {"Qty", "Price"} -> "double"
      [] OTHER -> "unknown"

ASSUME TagsAreNames == Tags \in Seq(Name) /\ IsInjective(Tags) /\ ToSet(Tags) = Name
ASSUME TypesOfNames == FixTypeOf \in [Name -> FixType]
ASSUME TypesAreTypes == \A name \in Name : TypeOf(name) \in FieldType
ASSUME IdentityIsText ==
    /\ {Comp, MsgType} \subseteq Name
    /\ FixTypeOf[Comp] = "String" /\ FixTypeOf[MsgType] = "String"
ASSUME BoundIsNat == MaxRequests \in Nat

\* A member of a JSON object has a text if it has a type; a FIX message has a text
\* for each of its fields.
Member == [name : Name \cup Foreign,
           value : [kind : FieldType \ {"unknown"}, text : Text]
                   \cup [kind : {"other"}, text : {None}]]

Fields == UNION {[names -> Text] : names \in SUBSET Name}

ASSUME JsonObjects == JsonHeads \cup JsonBodies \subseteq Seq(Member)
ASSUME FixMessages == FixHeads \cup FixBodies \subseteq Fields

VARIABLES
    up,         \* HttpSession's up: the FIX session of the connection
    phase,      \* "idle", "waiting" in FixBuilder::create, or "over"
    got,        \* a response has come that create waits past
    asked,      \* history: the requests
    wire,       \* history: what was sent, where, and for which request
    answers     \* history: the HTTP responses, with the request's number

vars == <<up, phase, got, asked, wire, answers>>

-----------------------------------------------------------------------------
(* JsonObject.  A member's kind is that of its JSON: a number that is no     *)
(* int32_t nor double, an object, an array, a boolean and null are "other".   *)

JsonType(value) == IF value.kind = "other" THEN "unknown" ELSE value.kind

\* What the iterator gives of a member.
JsonMember(m) == [name |-> m.name, type |-> JsonType(m.value), text |-> m.value.text]

\* set_value: the first member of that name is replaced, or one is added.
JsonSet(object, name, value) ==
    IF \E i \in DOMAIN object : object[i].name = name
    THEN LET i == SelectInSeq(object, LAMBDA m : m.name = name)
         IN [object EXCEPT ![i] = [@ EXCEPT !.value = value]]
    ELSE Append(object, [name |-> name, value |-> value])

(* FixObject.  A field holds its text; the type is the table's.              *)

NoFields == [name \in {} |-> None]

With(fields, name, text) ==
    [other \in DOMAIN fields \cup {name} |-> IF other = name THEN text ELSE fields[other]]

\* A variant with a bug: names that are in no table are set all the same.
FixSetAny(fields, name, text) == With(fields, name, text)

\* set_value: a name that is in no table is passed over without a word.  A value
\* has one text on both sides; how a number is written is left out.
FixSet(fields, name, text) ==
    IF name \in Name THEN With(fields, name, text) ELSE fields

\* get_string of a name of the table: the text, or NoKeyException.
Has(fields, name) == name \in DOMAIN fields

\* A variant with a bug: doubles are read as integers.
FixMemberAsInt(fields, name) ==
    [name |-> name,
     value |-> [kind |-> IF TypeOf(name) = "double" THEN "int" ELSE TypeOf(name),
                text |-> fields[name]]]

\* What the iterator gives of a field: its value as the table types it.
FixMember(fields, name) ==
    [name |-> name, value |-> [kind |-> TypeOf(name), text |-> fields[name]]]

(* Object::copy_from, which passes over what has no type.                    *)

\* A variant with a bug: a field that is there already is not set again.
PutOnce(fields, m) ==
    LET field == JsonMember(m) IN
    IF field.type = "unknown" \/ field.name \in DOMAIN fields THEN fields
    ELSE FixSet(fields, field.name, field.text)

\* The next member of a JSON object is set in a FIX message.
Put(fields, m) ==
    LET field == JsonMember(m) IN
    IF field.type = "unknown" THEN fields ELSE FixSet(fields, field.name, field.text)

CopyIntoFix(object) == FoldLeft(Put, NoFields, object)

\* The next tag, if the FIX message has the field, is set in a JSON object.
PutMember(object, fields, name) ==
    IF ~Has(fields, name) \/ TypeOf(name) = "unknown" THEN object
    ELSE JsonSet(object, name, FixMember(fields, name).value)

CopyIntoJson(fields) ==
    FoldLeft(LAMBDA object, name : PutMember(object, fields, name), <<>>, Tags)

-----------------------------------------------------------------------------
Json == [name : Name, value : [kind : FieldType \ {"unknown"}, text : Text]]

TypeOK ==
    /\ up \in Session \cup {None}
    /\ phase \in {"idle", "waiting", "over"}
    /\ got \in BOOLEAN
    /\ Len(asked) <= MaxRequests
    /\ \A i \in DOMAIN wire :
          /\ wire[i].n \in DOMAIN asked /\ wire[i].session \in Session
          /\ wire[i].head \in Fields /\ wire[i].body \in Fields
    /\ \A i \in DOMAIN answers :
          /\ answers[i].n \in DOMAIN asked
          /\ answers[i].code \in {200, 400, 404, 500}
          /\ answers[i].head \in Seq(Json) /\ answers[i].body \in Seq(Json)

Init ==
    /\ up = None
    /\ phase = "idle"
    /\ got = FALSE
    /\ asked = <<>>
    /\ wire = <<>>
    /\ answers = <<>>

\* What clients ask: a method and URL that has a builder or not, and a body that
\* is no JSON object, or one with or without the objects "head" and "body".
Request == [found : BOOLEAN, object : BOOLEAN,
            head : JsonHeads \cup {None}, body : JsonBodies \cup {None}]

Ask(r) == phase = "idle" /\ Len(asked) < MaxRequests /\ asked' = Append(asked, r)

\* The request that waits, as it was sent.
Latest == wire[Len(wire)]

\* HttpBuilder answers a request: with a response, or with an error's code.
AnswerFrom(n, code, head, body) ==
    answers' = Append(answers, [n |-> n, code |-> code, head |-> head, body |-> body])

\* The exceptions about a message, and what handle_error makes of these and the
\* others that leave MessageBuilder::create.  UnknownKeyException is for names of no
\* table, and the names asked for here are literals.
MessageException == {"NoKeyException", "TypeExecption"}
CodeOf == [NotFoundException |-> 404, NoKeyException |-> 400, TypeExecption |-> 400,
           TimeoutException |-> 500]
AnswerError(n, exception) == AnswerFrom(n, CodeOf[exception], <<>>, <<>>)

\* MessageBuilder::create has no builder of that pattern.
NotFound(r) ==
    /\ Ask(r)
    /\ ~r.found
    /\ AnswerError(Len(asked'), "NotFoundException")
    /\ UNCHANGED <<up, phase, got, wire>>

Translatable(r) == r.found /\ r.object /\ r.head # None /\ r.body # None

\* FixClient::create finds the session the head names, unless the connection has
\* one of an earlier request.
SessionOf(head) == IF up # None THEN up ELSE head[Comp]

\* An object is missing or something else, or a field that names the session is
\* missing.
Refused(r) ==
    /\ Ask(r)
    /\ r.found /\ r.object
    /\ \/ ~Translatable(r)
       \/ Translatable(r) /\ up = None /\ ~Has(CopyIntoFix(r.head), Comp)
    /\ \E exception \in MessageException : AnswerError(Len(asked'), exception)
    /\ UNCHANGED <<up, phase, got, wire>>

\* FindMember's assertion on a JSON value that is no object, or no such session:
\* FixBuilder returns a null message, and HttpToFixBuilder takes its head.
Crash(r) ==
    /\ Ask(r)
    /\ r.found
    /\ \/ ~r.object
       \/ /\ Translatable(r) /\ up = None
          /\ Has(CopyIntoFix(r.head), Comp)
          /\ CopyIntoFix(r.head)[Comp] \notin Session
    /\ phase' = "over"
    /\ UNCHANGED <<up, got, wire, answers>>

\* The order is sent, and FixBuilder::create waits.
Send(r) ==
    /\ Ask(r)
    /\ Translatable(r)
    /\ LET head == CopyIntoFix(r.head) IN
       /\ up # None \/ Has(head, Comp)
       /\ SessionOf(head) \in Session
       /\ wire' = Append(wire, [n |-> Len(asked'), session |-> SessionOf(head),
                                head |-> head, body |-> CopyIntoFix(r.body)])
    /\ phase' = "waiting"
    /\ got' = FALSE
    /\ UNCHANGED <<up, answers>>

\* A response: only the execution report of an order ends the wait well.
IsOrder == Has(Latest.head, MsgType) /\ Latest.head[MsgType] = NewOrderSingle

Answered(head, body) ==
    /\ phase = "waiting"
    /\ IsOrder /\ head[MsgType] = ExecutionReport
    /\ AnswerFrom(Latest.n, 200, CopyIntoJson(head), CopyIntoJson(body))
    /\ up' = Latest.session
    /\ phase' = "idle"
    /\ UNCHANGED <<got, asked, wire>>

\* A variant with a bug: a response that is no report is an error.
PassedOverRefused(head) ==
    /\ phase = "waiting"
    /\ Has(Latest.head, MsgType) /\ ~(IsOrder /\ head[MsgType] = ExecutionReport)
    /\ AnswerError(Latest.n, "NoKeyException")
    /\ phase' = "idle"
    /\ UNCHANGED <<up, got, asked, wire>>

PassedOver(head) ==
    /\ phase = "waiting"
    /\ Has(Latest.head, MsgType) /\ ~(IsOrder /\ head[MsgType] = ExecutionReport)
    /\ got' = TRUE
    /\ UNCHANGED <<up, phase, asked, wire, answers>>

\* The request's own MsgType is only looked at now, and is missing.
RefusedLate ==
    /\ phase = "waiting"
    /\ ~Has(Latest.head, MsgType)
    /\ AnswerError(Latest.n, "NoKeyException")
    /\ phase' = "idle"
    /\ UNCHANGED <<up, got, asked, wire>>

\* A variant with a bug: the session is kept whatever came of the request.
TimedOutKeeping ==
    /\ phase = "waiting"
    /\ ~got
    /\ AnswerError(Latest.n, "TimeoutException")
    /\ up' = Latest.session
    /\ phase' = "idle"
    /\ UNCHANGED <<got, asked, wire>>

\* TimeoutException, which needs that nothing came: the session is not kept.
TimedOut ==
    /\ phase = "waiting"
    /\ ~got
    /\ AnswerError(Latest.n, "TimeoutException")
    /\ phase' = "idle"
    /\ UNCHANGED <<up, got, asked, wire>>

Next ==
    \/ \E r \in Request : NotFound(r) \/ Refused(r) \/ Crash(r) \/ Send(r)
    \/ \E head \in FixHeads, body \in FixBodies : Answered(head, body)
    \/ \E head \in FixHeads : PassedOver(head)
    \/ RefusedLate
    \/ TimedOut

Spec == Init /\ [][Next]_vars

-----------------------------------------------------------------------------
(* Properties.                                                              *)

\* What the last member of a name says that has a type, if there is one.
Said(object, name) ==
    {object[i].value.text : i \in {i \in DOMAIN object :
        /\ object[i].name = name /\ JsonType(object[i].value) # "unknown"
        /\ \A j \in DOMAIN object :
              object[j].name = name /\ JsonType(object[j].value) # "unknown" => j <= i}}

Carries(fields, object) ==
    \A name \in Name :
        Said(object, name) = IF name \in DOMAIN fields THEN {fields[name]} ELSE {}

\* The order on the wire says what the request said, in every field that FIX
\* knows and JSON types, and nothing else.  Of a name given twice the last counts.
SentIsAsked ==
    \A i \in DOMAIN wire :
        /\ Carries(wire[i].head, asked[wire[i].n].head)
        /\ Carries(wire[i].body, asked[wire[i].n].body)

\* An object of the answer reads as the table types its fields: numbers of
\* fields that hold numbers, strings of the others, each name once.
ReadsAsTyped(object) ==
    /\ \A i, j \in DOMAIN object : object[i].name = object[j].name => i = j
    /\ \A i \in DOMAIN object : object[i].value.kind = TypeOf(object[i].name)

\* It says what the message's fields say that have a type, and nothing else.
Tells(object, fields) ==
    \A name \in Name :
        Said(object, name) = IF Has(fields, name) /\ TypeOf(name) # "unknown"
                             THEN {fields[name]} ELSE {}

\* A 200 carries a response of the counterparty, all of it that has a type.
AnswerIsReply ==
    \A i \in DOMAIN answers :
        answers[i].code = 200 =>
            /\ ReadsAsTyped(answers[i].head) /\ ReadsAsTyped(answers[i].body)
            /\ \E head \in FixHeads, body \in FixBodies :
                  Tells(answers[i].head, head) /\ Tells(answers[i].body, body)

\* A request that is refused, 400 or 404, has not been sent: only one without a
\* MsgType is refused after it went out.
RefusedUnsent ==
    \A i \in DOMAIN answers, j \in DOMAIN wire :
        answers[i].code \in {400, 404} /\ wire[j].n = answers[i].n
            => ~Has(wire[j].head, MsgType)

\* An order goes to the session its head names, or to the one that answered an
\* earlier request of the connection.
SentWhereNamed ==
    \A i \in DOMAIN wire :
        \/ Has(wire[i].head, Comp) /\ wire[i].head[Comp] = wire[i].session
        \/ \E k \in DOMAIN answers : \E j \in DOMAIN wire :
              /\ answers[k].code = 200 /\ answers[k].n = wire[j].n
              /\ j < i /\ wire[j].session = wire[i].session
=============================================================================
