------------------------------ MODULE Encoding ------------------------------
(***************************************************************************)
(* The data of one log call: a context built up step by step, the macro's   *)
(* expansion (eden_logger_macros/src/lib.rs), the two text formats and the  *)
(* structured record (eden_logger/src/schema.rs), the sink's filter         *)
(* (eden_logger_export/src/lib.rs) and the attributes of the OTLP record    *)
(* (mapper.rs).  Identifiers are in Emission.                               *)
(*                                                                         *)
(* Text is a sequence of UTF-8 bytes, as its escaping works on bytes.  A    *)
(* value given to the macro is formatted by Display, piece by piece.        *)
(***************************************************************************)
EXTENDS Integers, SequencesExt

CONSTANTS
    Builds,         \* what the application does to a context
    Calls,          \* macro calls
    DisplayKey,     \* the application's request schema: the key under which its
    JsonKey,        \*   write_display and its write_json write a request field
    Features,       \* sets of compiled features
    Filters,        \* the exporter's severity and audience filters
    MaxBuilds,      \* bound on the calls that build the context
    MaxI64,         \* i64::MAX
    None            \* an absent value

Level == <<"Trace", "Debug", "Info", "Warn", "Error">>
Rank(level) == CHOOSE i \in DOMAIN Level : Level[i] = level
Audience == {"Internal", "Client", "Both"}
Field == {"feature", "function", "error_code", "error_category"}

Byte == 0..255
SourceLocation == "source-location"
Location == [file |-> <<102>>, line |-> 7]   \* what file!() and line!() expand to

(* A build is a builder call or a merge: what it sets, by kind.  Text is    *)
(* [text |-> bytes]; request fields may be numbers, [number |-> n].  What   *)
(* request fields there are and how they are written is the application's:  *)
(* RequestFields::write_display and write_json are two methods of its own,  *)
(* each with a key for every field that it writes.                          *)
Kinds == {"field", "request", "additional"}
Number == [number : Nat]
TextValue == [text : Seq(Byte)]

(* What follows the message: a key with the pieces of its value, or an      *)
(* audience.                                                                *)
Item == [key : STRING, value : Seq(Seq(Byte))] \cup [audience : Audience]

ASSUME EncodingAssumption ==
    /\ \A b \in Builds :
        /\ DOMAIN b = Kinds /\ DOMAIN b.field \subseteq Field
        /\ \A kind \in Kinds : IsFiniteSet(DOMAIN b[kind])
        /\ \A kind \in {"field", "additional"} : \A k \in DOMAIN b[kind] : b[kind][k] \in TextValue
        /\ \A k \in DOMAIN b.request : b.request[k] \in TextValue \cup Number
    /\ \A keyOf \in {DisplayKey, JsonKey} : IsInjective(keyOf)
    /\ \A c \in Calls : c.level \in ToSet(Level) /\ c.msg \in Seq(Byte) /\ c.rest \in Seq(Item)
    /\ \A f \in Filters : f.min_level \in ToSet(Level) /\ f.audiences \subseteq Audience
    /\ MaxBuilds \in Nat /\ MaxI64 \in Nat
    /\ None # Location

VARIABLES
    features, filter,  \* how the program was compiled, how the exporter is configured
    builds,      \* calls that built the context
    ctx,         \* the LogContext
    call,        \* the macro call: its level, message and remaining arguments
    pc,          \* its place
    evaluated,   \* the macro's expressions that have been evaluated, in order
    display, json,   \* the line in either format, empty until written
    record,      \* the EdenLog handed to the sink
    attributes,  \* the attributes of the OTLP record, none until mapped
    given        \* history: what the application last gave for each kind and key

vars == <<features, filter, builds, ctx, call, pc, evaluated, display, json, record, attributes,
          given>>

(* Bindings of @@, the right-hand one giving way.                           *)
Over(new, old) == [k \in DOMAIN new \cup DOMAIN old |-> IF k \in DOMAIN new THEN new[k] ELSE old[k]]
NoKeys == [k \in {} |-> None]
One(key, value) == [k \in {key} |-> value]

(* The members that one of the two methods writes of a request.             *)
KeyedBy(keyOf, request) ==
    LET written == DOMAIN request \cap DOMAIN keyOf
    IN [key \in {keyOf[f] : f \in written} |-> request[CHOOSE f \in written : keyOf[f] = key]]

Empty == [kind \in Kinds |-> NoKeys]

Init ==
    /\ features \in Features /\ filter \in Filters
    /\ builds = 0 /\ ctx = Empty
    /\ call = None /\ pc = "context" /\ evaluated = <<>>
    /\ display = <<>> /\ json = <<>> /\ record = None /\ attributes = NoKeys
    /\ given = Empty

-----------------------------------------------------------------------------
(* The context: every with_ call sets what it names, and merge takes from   *)
(* the other context what that one has set.                                 *)
(* Mutant: additional data already there is kept.                          *)
Merged_keeps_additional(own, other) ==
    [kind \in Kinds |-> IF kind = "additional" THEN Over(own[kind], other[kind])
                        ELSE Over(other[kind], own[kind])]

Merged(own, other) == [kind \in Kinds |-> Over(other[kind], own[kind])]

BuildContext ==
    /\ pc = "context" /\ builds < MaxBuilds
    /\ \E build \in Builds :
        /\ ctx' = Merged(ctx, build)
        /\ given' = [kind \in Kinds |-> Over(build[kind], given[kind])]
    /\ builds' = builds + 1
    /\ UNCHANGED <<features, filter, call, pc, evaluated, display, json, record, attributes>>

(* with_request replaces the whole request block.                           *)
WithRequest ==
    /\ pc = "context" /\ builds < MaxBuilds
    /\ \E build \in Builds :
        /\ ctx' = [ctx EXCEPT !.request = build.request]
        /\ given' = [given EXCEPT !.request = build.request]
    /\ builds' = builds + 1
    /\ UNCHANGED <<features, filter, call, pc, evaluated, display, json, record, attributes>>

-----------------------------------------------------------------------------
(* The macro.  Arguments after the message are audience = expression or a   *)
(* key and its value; of several audiences the last one counts.             *)
IsAudience(item) == "audience" \in DOMAIN item
AudienceOf(c) ==
    LET named == {i \in DOMAIN c.rest : IsAudience(c.rest[i])}
    IN IF named = {} THEN "Internal" ELSE c.rest[Max(named)].audience
Kvs(c) == FlattenSeq([i \in DOMAIN c.rest |-> IF IsAudience(c.rest[i]) THEN <<>> ELSE <<c.rest[i]>>])

UnchangedContext == UNCHANGED <<features, filter, builds, ctx>>
UnchangedOutput == UNCHANGED <<display, json, record, attributes>>

(* Without the feature of its level the macro expands to nothing.           *)
Expand ==
    /\ pc = "context"
    /\ call' \in Calls
    /\ pc' = IF call'.level \in features THEN "audience" ELSE "done"
    /\ UNCHANGED <<evaluated, given>> /\ UnchangedContext /\ UnchangedOutput

(* Mutant: the audience feature is not asked for.                           *)
EvaluateAudience_unchecked ==
    /\ pc = "audience"
    /\ evaluated' = Append(evaluated, "audience")
    /\ pc' = "arguments"
    /\ UNCHANGED <<call, given>> /\ UnchangedContext /\ UnchangedOutput

(* gen_body: the audience is evaluated, then compared with the features.    *)
EvaluateAudience ==
    /\ pc = "audience"
    /\ evaluated' = Append(evaluated, "audience")
    /\ pc' = IF AudienceOf(call) \in features THEN "arguments" ELSE "done"
    /\ UNCHANGED <<call, given>> /\ UnchangedContext /\ UnchangedOutput

(* The message, the values one by one and the context.                      *)
Arguments(c) == <<"msg">> \o [i \in DOMAIN Kvs(c) |-> Kvs(c)[i].key] \o <<"ctx">>

Formatted(chunks) == FlattenSeq(chunks)

EvaluateArgument ==
    /\ pc = "arguments"
    /\ LET n == Len(evaluated)   \* the audience came first
           kv == n - 1
       IN /\ evaluated' = Append(evaluated, Arguments(call)[n])
          /\ given' = IF kv \in DOMAIN Kvs(call)
                      THEN [given EXCEPT !.additional =
                              Over(One(Kvs(call)[kv].key, [text |-> Formatted(Kvs(call)[kv].value)]), @)]
                      ELSE given
          /\ pc' = IF n = Len(Arguments(call)) THEN "should_log" ELSE "arguments"
    /\ UNCHANGED call /\ UnchangedContext /\ UnchangedOutput

(* RuntimeFilter says which; the arguments have been evaluated by then.     *)
ShouldLog ==
    /\ pc = "should_log"
    /\ pc' \in {"text", "done"}
    /\ UNCHANGED <<call, evaluated, given>> /\ UnchangedContext /\ UnchangedOutput

WithLocation == SourceLocation \in features

-----------------------------------------------------------------------------
(* JSON escaping.                                                           *)
HexDigit(n) == IF n < 10 THEN 48 + n ELSE 87 + n
JSON_ESCAPE_TABLE(b) == b < 32 \/ b \in {34, 92}

(* A byte pushed as a character: from 128 on it takes two bytes in UTF-8.   *)
PushChar(b) == IF b < 128 THEN <<b>> ELSE <<192 + b \div 64, 128 + (b % 64)>>

EscapedByte(b) ==
    CASE b \in {34, 92} -> <<92, b>>
      [] b = 10 -> <<92, 110>>
      [] b = 13 -> <<92, 114>>
      [] b = 9 -> <<92, 116>>
      [] b < 32 /\ b \notin {9, 10, 13} -> <<92, 117, 48, 48, HexDigit(b \div 16), HexDigit(b % 16)>>
      [] OTHER -> PushChar(b)

NeedsEscape(bytes) == \E i \in DOMAIN bytes : JSON_ESCAPE_TABLE(bytes[i])

(* Mutant: only the quotes are escaped.                                     *)
write_json_escaped_quotes_only(bytes) ==
    FlattenSeq([i \in DOMAIN bytes |-> IF bytes[i] = 34 THEN <<92, 34>> ELSE <<bytes[i]>>])

write_json_escaped(bytes) ==
    IF NeedsEscape(bytes) THEN FlattenSeq([i \in DOMAIN bytes |-> EscapedByte(bytes[i])]) ELSE bytes

(* JsonEscapingWriter: the pieces Display writes are escaped one by one.    *)
JsonEscapingWriter(chunks) == FlattenSeq([i \in DOMAIN chunks |-> write_json_escaped(chunks[i])])

-----------------------------------------------------------------------------
(* The two text formats, as sequences of members: a key with its text.  A   *)
(* map is written in some order; its keys differ, so any order will do.     *)
Member(key, value) == [key |-> key, value |-> value]
Members(map) ==
    LET keys == SetToSeq(DOMAIN map)
    IN [i \in DOMAIN keys |-> Member(keys[i], map[keys[i]])]
Optional(map, key, name) == IF key \in DOMAIN map THEN <<Member(name, map[key])>> ELSE <<>>
Text(bytes) == [text |-> bytes]

Digits(n) ==
    LET digits[m \in 0..n] == IF m < 10 THEN <<48 + m>> ELSE digits[m \div 10] \o <<48 + (m % 10)>>
    IN digits[n]
Plain(value) == IF "number" \in DOMAIN value THEN Digits(value.number) ELSE value.text
PlainMembers(members) ==
    [i \in DOMAIN members |-> Member(members[i].key, Plain(members[i].value))]

(* JsonFieldWriter leaves a number unquoted.                                *)
JsonValue(value) ==
    IF "number" \in DOMAIN value THEN value ELSE Text(write_json_escaped(value.text))
JsonMembers(members) ==
    [i \in DOMAIN members |-> Member(members[i].key, JsonValue(members[i].value))]

(* The display line has no place for the error's category.                  *)
write_display(fields, request, additional, kvs, message, location) ==
    PlainMembers(
        Optional(fields, "feature", "feature") \o Optional(fields, "function", "fn")
        \o Members(request) \o Optional(fields, "error_code", "error")
        \o Members(additional) \o kvs \o <<Member("msg", Text(message))>>)
    \o (IF location = None THEN <<>> ELSE <<Member("location", location)>>)

KvDisplay(kvs) == [i \in DOMAIN kvs |-> Member(kvs[i].key, Text(Formatted(kvs[i].value)))]
write_display_direct ==
    write_display(ctx.field, KeyedBy(DisplayKey, ctx.request), ctx.additional, KvDisplay(Kvs(call)), call.msg,
                  IF WithLocation THEN Location ELSE None)

KvJson == [i \in DOMAIN Kvs(call) |->
             Member(Kvs(call)[i].key, Text(JsonEscapingWriter(Kvs(call)[i].value)))]
write_json_direct ==
    JsonMembers(
        Optional(ctx.field, "feature", "feature") \o Optional(ctx.field, "function", "fn")
        \o Members(KeyedBy(JsonKey, ctx.request))
        \o Optional(ctx.field, "error_code", "error_code")
        \o Optional(ctx.field, "error_category", "error_category")
        \o Members(ctx.additional))
    \o KvJson
    \o JsonMembers(
        (IF WithLocation
         THEN <<Member("file", Text(Location.file)), Member("line", [number |-> Location.line])>>
         ELSE <<>>)
        \o <<Member("msg", Text(call.msg))>>)

WriteText ==
    /\ pc = "text"
    /\ display' = write_display_direct
    /\ json' = write_json_direct
    /\ pc' = "record"
    /\ UNCHANGED <<call, evaluated, record, attributes, given>> /\ UnchangedContext

-----------------------------------------------------------------------------
(* One insertion after the other, each over what was there.                 *)
Inserted(map, members) == FoldLeft(LAMBDA m, entry : Over(One(entry.key, entry.value), m), map, members)

KvMap(kvs, base) == Inserted(base, KvDisplay(kvs))
(* Mutant: a value of the context replaces the macro's.                     *)
from_direct_context_wins ==
    [level |-> call.level, audience |-> AudienceOf(call), message |-> call.msg,
     location |-> IF WithLocation THEN Location ELSE None,
     field |-> ctx.field, request |-> ctx.request,
     additional |-> Over(ctx.additional, KvMap(Kvs(call), NoKeys))]

(* The context's fields, then the macro's values over them.                 *)
from_direct ==
    [level |-> call.level, audience |-> AudienceOf(call), message |-> call.msg,
     location |-> IF WithLocation THEN Location ELSE None,
     field |-> ctx.field, request |-> ctx.request,
     additional |-> KvMap(Kvs(call), ctx.additional)]

BuildRecord ==
    /\ pc = "record"
    /\ record' = from_direct
    /\ pc' = "sink"
    /\ UNCHANGED <<call, evaluated, display, json, attributes, given>> /\ UnchangedContext

(* The sink: severity, then AudienceFilter::allows.                         *)
Accepts(log) == Rank(log.level) >= Rank(filter.min_level) /\ log.audience \in filter.audiences

Filtered ==
    /\ pc = "sink" /\ ~Accepts(record)
    /\ pc' = "done"
    /\ UNCHANGED <<call, evaluated, given>> /\ UnchangedContext /\ UnchangedOutput

(* AttributeWriter: an unsigned number beyond i64 becomes its text.         *)
AttributeValue(value) ==
    IF "number" \in DOMAIN value /\ value.number > MaxI64 THEN [text |-> Digits(value.number)]
    ELSE value

AttributeName == [feature |-> "eden.feature", function |-> "code.function.name",
                  error_code |-> "error.code", error_category |-> "error.type"]
AudienceText == [Internal |-> "INTERNAL", Client |-> "CLIENT", Both |-> "BOTH"]

Mapped(log) ==
    LET fields == SetToSeq(DOMAIN log.field)
        request == KeyedBy(JsonKey, log.request)
    IN
    Inserted(NoKeys,
        Members(log.additional)
        \o Members([key \in DOMAIN request |-> AttributeValue(request[key])])
        \o <<Member("eden.audience", [name |-> AudienceText[log.audience]])>>
        \o [i \in DOMAIN fields |-> Member(AttributeName[fields[i]], log.field[fields[i]])]
        \o (IF log.location = None THEN <<>>
            ELSE <<Member("code.file.path", [text |-> log.location.file]),
                   Member("code.line.number", [number |-> log.location.line])>>))

Map ==
    /\ pc = "sink" /\ Accepts(record)
    /\ attributes' = Mapped(record)
    /\ pc' = "done"
    /\ UNCHANGED <<call, evaluated, display, json, record, given>> /\ UnchangedContext

Next ==
    \/ BuildContext \/ WithRequest \/ Expand \/ EvaluateAudience \/ EvaluateArgument \/ ShouldLog
    \/ WriteText \/ BuildRecord \/ Filtered \/ Map

Spec == Init /\ [][Next]_vars
-----------------------------------------------------------------------------
(* Reading a line back: a JSON string as its grammar defines it, where      *)
(* Broken stands for text no reader accepts.                                *)
Broken == 256
SingleEscape == [b \in {34, 92, 110, 114, 116} |->
                    CASE b = 110 -> 10 [] b = 114 -> 13 [] b = 116 -> 9 [] OTHER -> b]
HexValue(b) == IF b \in 48..57 THEN b - 48 ELSE IF b \in 97..102 THEN b - 87 ELSE Broken

ReadString(bytes) ==
    LET end == Len(bytes) + 1
        From[i \in 1..(end + 6)] ==
            IF i >= end THEN IF i = end THEN <<>> ELSE <<Broken>>
            ELSE IF bytes[i] # 92
                 THEN <<IF JSON_ESCAPE_TABLE(bytes[i]) THEN Broken ELSE bytes[i]>> \o From[i + 1]
            ELSE IF i + 1 < end /\ bytes[i + 1] \in DOMAIN SingleEscape
                 THEN <<SingleEscape[bytes[i + 1]]>> \o From[i + 2]
            ELSE IF i + 5 < end /\ SubSeq(bytes, i + 1, i + 3) = <<117, 48, 48>>
                 THEN <<16 * HexValue(bytes[i + 4]) + HexValue(bytes[i + 5])>> \o From[i + 6]
            ELSE <<Broken>>
    IN From[1]

Reads(member) ==
    IF "number" \in DOMAIN member.value THEN Digits(member.value.number)
    ELSE ReadString(member.value.text)

(* Of a key that occurs twice a reader keeps the last.                      *)
LastOf(members, key) == members[Max({i \in DOMAIN members : members[i].key = key})].value
KeysOf(members) == {members[i].key : i \in DOMAIN members}

(* Text that escaping keeps: each piece is ASCII or needs no escape.        *)
Kept(bytes) == ~NeedsEscape(bytes) \/ \A i \in DOMAIN bytes : bytes[i] < 128

-----------------------------------------------------------------------------
(* Every string of a JSON line is one a reader accepts, whatever the values *)
(* hold and however Display cuts them into pieces, and a value given to the *)
(* macro or as the message reads back as its own text if escaping leaves    *)
(* its pieces alone or they are ASCII.                                      *)
JsonReadsBack ==
    json # <<>> =>
        /\ \A i \in DOMAIN json : Broken \notin ToSet(Reads(json[i]))
        /\ Kept(call.msg) => ReadString(Last(json).value.text) = call.msg
        /\ \A i \in DOMAIN Kvs(call) :
            (\A j \in DOMAIN Kvs(call)[i].value : Kept(Kvs(call)[i].value[j])) =>
                \E m \in ToSet(json) :
                    /\ m.key = Kvs(call)[i].key
                    /\ Reads(m) = Formatted(Kvs(call)[i].value)

(* The OTLP attributes are the latest value the application gave for every  *)
(* key, whether to a builder, in a merge or to the macro; mapper.rs,        *)
(* "Attribute precedence is: intrinsic Eden fields, supplied attributes,    *)
(* typed request fields, then ad-hoc additional fields".                    *)
LatestValueWins ==
    attributes # NoKeys =>
        LET request == KeyedBy(JsonKey, given.request)
            located == IF WithLocation THEN {"code.file.path", "code.line.number"} ELSE {}
            fields == {AttributeName[f] : f \in DOMAIN given.field}
            intrinsic == fields \cup located \cup {"eden.audience"}
            Latest(key) ==
                IF key \in fields
                  THEN given.field[CHOOSE f \in Field : AttributeName[f] = key]
                ELSE IF key \in DOMAIN request THEN AttributeValue(request[key])
                ELSE given.additional[key]
        IN /\ DOMAIN attributes = intrinsic \cup DOMAIN request \cup DOMAIN given.additional
           /\ \A key \in DOMAIN attributes \ (located \cup {"eden.audience"}) :
                attributes[key] = Latest(key)
           /\ attributes["eden.audience"].name = AudienceText[AudienceOf(call)]
           /\ WithLocation => attributes["code.file.path"].text = Location.file

(* The names of the line's or the record's own fields.                      *)
OwnNames == {"feature", "fn", "error", "error_code", "error_category", "file", "line", "msg",
             "location", "eden.audience", "code.file.path", "code.line.number"}
            \cup {AttributeName[f] : f \in Field}

(* The four writers of a call tell what was last given.  The display line   *)
(* of emit_direct and that of emit, which formats the record, hold every    *)
(* request field under the key of write_display and all additional data;    *)
(* the JSON line, as far as escaping keeps the text, and the attributes     *)
(* hold every request field under the key of write_json and all additional  *)
(* data; the exceptions are names of the line's own and keys that request   *)
(* fields and additional data share.                                        *)
FormatsAgree ==
    attributes # NoKeys =>
        LET emitted == write_display(record.field, KeyedBy(DisplayKey, record.request),
                                     record.additional, <<>>, record.message, record.location)
            extra == DOMAIN given.additional
            Shown(key, text) == LastOf(display, key) = text /\ LastOf(emitted, key) = text
            Written(key, text) ==
                /\ Plain(attributes[key]) = text
                /\ Kept(text) => Reads(Member(key, LastOf(json, key))) = text
        IN /\ KeysOf(emitted) = KeysOf(display)
           /\ \A f \in DOMAIN given.request \cap DOMAIN DisplayKey :
                DisplayKey[f] \notin OwnNames \cup extra =>
                    Shown(DisplayKey[f], Plain(given.request[f]))
           /\ \A f \in DOMAIN given.request \cap DOMAIN JsonKey :
                JsonKey[f] \notin OwnNames \cup extra =>
                    Written(JsonKey[f], Plain(given.request[f]))
           /\ \A key \in extra \ OwnNames :
                /\ Shown(key, Plain(given.additional[key]))
                /\ key \notin DOMAIN KeyedBy(JsonKey, given.request) =>
                       Written(key, Plain(given.additional[key]))

(* lib.rs, "A log requires BOTH a level feature AND an audience feature to  *)
(* be compiled".  With both every argument is evaluated once, and what the  *)
(* runtime filter lets through reaches the collector if the exporter        *)
(* accepts its severity and the audience named last.  Without the level's   *)
(* nothing is evaluated, and without the audience's only the audience       *)
(* expression, although eden_logger/README.md:77 says that the macro        *)
(* "expands to `{}`" if either is off; nothing is written or recorded.      *)
DisabledIsFree ==
    pc = "done" =>
        IF {call.level, AudienceOf(call)} \subseteq features
        THEN /\ evaluated = <<"audience">> \o Arguments(call)
             /\ display # <<>> =>
                  (attributes # NoKeys <=>
                     /\ Rank(call.level) >= Rank(filter.min_level)
                     /\ AudienceOf(call) \in filter.audiences)
        ELSE /\ evaluated = IF call.level \in features THEN <<"audience">> ELSE <<>>
             /\ display = <<>> /\ json = <<>> /\ record = None
=============================================================================
