----------------------------- MODULE MCEncoding -----------------------------
(***************************************************************************)
(* Small instances of Encoding: texts that are plain, hold a quote, a line  *)
(* break or a control byte, or a character of two bytes, alone and beside   *)
(* an escape; ad hoc keys that are a request field's in the display line or *)
(* in the other formats, and one that is a name of the line's own.          *)
(***************************************************************************)
EXTENDS Encoding

Word == <<97>>
Quoted == <<97, 34>>
Path == <<92, 110>>          \* a backslash and an n, no line break
Bell == <<7, 31>>
Accent == <<195, 169>>       \* e with an acute accent
AccentBreak == <<195, 169, 10>>

Nothing == [kind \in Kinds |-> NoKeys]
Sets(kind, key, value) == [Nothing EXCEPT ![kind] = One(key, value)]
MCBuilds == {
    Sets("field", "feature", [text |-> Word]),
    Sets("field", "error_category", [text |-> Quoted]),
    Sets("request", "user_id", [text |-> Accent]),
    Sets("request", "tries", [number |-> 3]),
    Sets("request", "shard", [number |-> 17]),
    Sets("additional", "user", [text |-> Path]),
    Sets("additional", "user_id", [text |-> Path]),
    Sets("additional", "step", [text |-> AccentBreak]),
    Sets("additional", "feature", [text |-> Bell]),
    [field |-> One("feature", [text |-> Quoted]), request |-> One("user_id", [text |-> Word]),
     additional |-> One("step", [text |-> Word])]}

(* The crate's README writes user_id as "user" in the display line.         *)
MCDisplayKey == [user_id |-> "user", tries |-> "tries"]
MCJsonKey == [user_id |-> "user_id", tries |-> "tries", shard |-> "shard"]

Kv(key, chunks) == [key |-> key, value |-> chunks]
For(a) == [audience |-> a]
MCCalls ==
    {[level |-> l, msg |-> m, rest |-> r] :
        l \in {"Info", "Error"}, m \in {Bell, AccentBreak},
        r \in {<<>>,
               <<For("Client"), Kv("step", <<Accent, Path>>), For("Internal")>>,
               <<Kv("step", <<Word>>), For("Client"), Kv("step", <<Quoted, Accent>>)>>}}

MCFeatures == {{"Info", "Error", "Internal", "Client", SourceLocation}, {"Error", "Internal"}}
MCFilters == {[min_level |-> "Trace", audiences |-> Audience],
              [min_level |-> "Warn", audiences |-> {"Internal"}]}
=============================================================================
