---------------------------- MODULE ArtifactContent ----------------------------
(***************************************************************************)
(* What the artifact service promises its callers.  Every artifact has one *)
(* content for ever; it is listed or withdrawn, and the content of an      *)
(* artifact whose creation was acknowledged is never lost.                 *)
(***************************************************************************)
CONSTANTS Artifacts, Contents, NoContent

VARIABLES
    known,         \* artifacts ever created, withdrawn ones included
    listed,        \* those offered to visitors
    acknowledged,  \* those whose creator was told of success
    content,       \* the content each was created with
    readable       \* those whose content a reader gets

Init ==
    /\ known = {}
    /\ listed = {}
    /\ acknowledged = {}
    /\ content = [a \in Artifacts |-> NoContent]
    /\ readable = {}

\* A new artifact, listed in place of the ones in "replaced" (none or one).
Create(a, replaced) ==
    /\ a \notin known
    /\ replaced \subseteq listed
    /\ known' = known \cup {a}
    /\ listed' = (listed \ replaced) \cup {a}
    /\ acknowledged' \in {acknowledged, acknowledged \cup {a}}
    /\ \E c \in Contents : content' = [content EXCEPT ![a] = c]
    /\ readable' = readable \cup {a}

Withdraw(a) ==
    /\ a \in listed
    /\ listed' = listed \ {a}
    /\ UNCHANGED <<known, acknowledged, content, readable>>

Return(a) ==
    /\ a \in known \ listed
    /\ listed' = listed \cup {a}
    /\ UNCHANGED <<known, acknowledged, content, readable>>

\* Only what was never acknowledged may become unreadable, for a time or for
\* good.
Flicker(a) ==
    /\ a \in known \ acknowledged
    /\ readable' \in {readable \cup {a}, readable \ {a}}
    /\ UNCHANGED <<known, listed, acknowledged, content>>

Next ==
    \E a \in Artifacts :
        \/ Create(a, {})
        \/ \E old \in listed : Create(a, {old})
        \/ Withdraw(a)
        \/ Return(a)
        \/ Flicker(a)

vars == <<known, listed, acknowledged, content, readable>>

Spec == Init /\ [][Next]_vars
===============================================================================
