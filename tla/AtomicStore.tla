----------------------------- MODULE AtomicStore -----------------------------
(***************************************************************************)
(* What a reservation store promises to its callers (the Store interface   *)
(* of sdk/reservation), whatever backend is behind it: every call takes    *)
(* effect at most once and as a whole, on the content the calls before it  *)
(* left, and the content survives any crash.  A call answered "ok" has     *)
(* taken effect and one answered "refused" or "conflict" never will; after *)
(* an "error", or when the caller died, the outcome is open: the call may  *)
(* have taken effect, may still do so once, or never.                      *)
(***************************************************************************)
CONSTANTS Calls,         \* the mutating calls made, each made once
          Contents,      \* what the store can hold
          Empty,         \* the content of a new store
          Apply(_, _)    \* the content a call leaves: a singleton, or {} when refused

VARIABLES content,    \* the content that survives a crash
          applied,    \* the calls that have taken effect
          answer      \* for each call: "new", "open", or what its caller was told

atomicVars == <<content, applied, answer>>

Answers == {"ok", "refused", "conflict", "error", "lost"}

(* The answers after which a caller cannot know the outcome. *)
OpenOutcome == {"error", "lost"}

AtomicInit ==
    /\ content = Empty
    /\ applied = {}
    /\ answer = [c \in Calls |-> "new"]

Call(c) ==
    /\ answer[c] = "new"
    /\ answer' = [answer EXCEPT ![c] = "open"]
    /\ UNCHANGED <<content, applied>>

Effect(c) ==
    /\ answer[c] \in {"open"} \cup OpenOutcome
    /\ c \notin applied
    /\ content' \in Apply(c, content)
    /\ applied' = applied \cup {c}
    /\ UNCHANGED answer

(* The answer may be the end of the step in which the call took effect. *)
EffectAndAnswer(c) ==
    /\ answer[c] = "open"
    /\ c \notin applied
    /\ content' \in Apply(c, content)
    /\ applied' = applied \cup {c}
    /\ \E a \in {"ok"} \cup OpenOutcome : answer' = [answer EXCEPT ![c] = a]

(* A crash of the machine ends several calls at once. *)
Answer(S) ==
    /\ S # {}
    /\ \A c \in S : answer[c] = "open"
    /\ \E told \in [S -> Answers] :
         /\ \A c \in S : /\ told[c] = "ok" => c \in applied
                         /\ told[c] \in {"refused", "conflict"} => c \notin applied
         /\ answer' = [c \in Calls |-> IF c \in S THEN told[c] ELSE answer[c]]
    /\ UNCHANGED <<content, applied>>

AtomicNext ==
    \/ \E c \in Calls : Call(c) \/ Effect(c) \/ EffectAndAnswer(c)
    \/ \E S \in SUBSET Calls : Answer(S)

AtomicSpec == AtomicInit /\ [][AtomicNext]_atomicVars
=============================================================================
