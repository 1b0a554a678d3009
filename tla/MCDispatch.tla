----------------------------- MODULE MCDispatch -----------------------------
(***************************************************************************)
(* Bounds of Dispatch for TLC: commands of every kind, some of which are   *)
(* prefixes of others, have the key of another, or differ from one in the  *)
(* case of a letter only; texts of up to three characters, and some with   *)
(* the entity of '&' before, behind and between commands.                  *)
(***************************************************************************)
EXTENDS Dispatch, TLC

CONSTANTS a, A, b, amp

TemporaryTalk == <<A, A, A, A>>
Lower == (a :> a) @@ (A :> a) @@ (b :> b) @@ (Space :> Space) @@ (Garbage :> Garbage)
    @@ (Amp :> Amp) @@ (amp :> amp)
Entities == amp :> Amp

Registered(kind, word, owner) == [how |-> kind, key |-> word, service |-> owner]

AllCommands ==
    << Registered("prefix", <<a>>, "echo"), Registered("prefix", <<a, b, b>>, "help"),
       Registered("prefix", <<A>>, "late"), Registered("suffix", <<b, a>>, "weather"),
       Registered("full", <<a, b>>, "clean"), Registered("full", <<A>>, "clean"),
       Registered("suffix", <<b, A>>, "late"), Registered("regex", <<>>, "bili"),
       Registered("all", <<>>, "any"), Registered("notice", <<>>, "increase"),
       Registered("notice", <<b>>, "kick"), Registered("request", <<>>, "friend"),
       Registered("request", <<b>>, "invite") >>
AllServices == {AllCommands[i].service : i \in DOMAIN AllCommands}
ServiceLevels ==
    [s \in AllServices |-> CASE s = "clean" -> 7 [] s = "help" -> 4 [] OTHER -> 1]
MatchedTexts == [s \in AllServices |-> {<<a, b>>, <<b, a>>, <<b>>}]

Texts == UNION {[1 .. n -> {a, A, b, Space}] : n \in 0 .. 2} \cup [1 .. 3 -> {a, b}]
Escaped ==
    {<<Amp, amp>>, <<amp, a>>, <<A, Amp, amp>>, <<Amp, amp, b, a>>, <<a, b, Amp, amp>>,
     <<a, Amp, amp, amp, b, a>>, <<a, Amp, Amp, amp>>, <<Amp, a>>}

Incoming(post, group, sender, to, text, sub) ==
    [post |-> post, group |-> group, sender |-> sender, to |-> to, text |-> text,
     sub |-> sub]
Plain(post) == Incoming(post, FALSE, "friend", "nobody", <<>>, <<>>)

AllEvents ==
    LET addressed == {"nobody", "name", "code"}
    IN  {Incoming("message", TRUE, s, to, t, <<>>) :
             s \in {"member", "superuser"}, to \in addressed, t \in Texts}
        \cup {Incoming("message", FALSE, s, to, t, <<>>) :
             s \in {"white", "friend"}, to \in addressed, t \in Texts}
        \cup {Incoming("message", TRUE, s, "nobody", t, <<>>) :
             s \in {"member", "superuser"}, t \in Escaped}
        \cup {Incoming("message", TRUE, s, "nobody", <<a, b>>, <<>>) :
             s \in {"admin", "owner", "anonymous"}}
        \cup {Incoming(post, g, "member", "nobody", <<>>, sub) :
             post \in {"notice", "request"}, g \in BOOLEAN, sub \in {<<>>, <<b>>}}
        \cup {Incoming("message", FALSE, "friend", "nobody", <<a>>, TemporaryTalk),
              Plain("answer"), Plain("meta")}
=============================================================================
