---------------------------- MODULE StringMatch ----------------------------
(***************************************************************************)
(* strcmp_by_map() of ebpf/common/buffer.h: a BPF program cannot compare   *)
(* strings, so it puts the rule into the hash map str_buf, looks its own   *)
(* text up there, and takes the rule out again.  str_buf is one map for    *)
(* all CPUs.  A rule and a text are sequences of characters.               *)
(*                                                                         *)
(* str_buf never fills up: its keys are rules, of which arg_filter holds   *)
(* 40 at most, and it has 256 entries.                                     *)
(***************************************************************************)
EXTENDS Naturals, Sequences

CONSTANTS Char,    \* characters
          Cpu,     \* the programs that run at the same time
          Rules,   \* the strings of the -f w: and b: filters
          Texts    \* the strings that OP_SAVE_STRING may have read

ASSUME StringMatchAssumption ==
  \A s \in Rules \cup Texts : s \in Seq(Char)

VARIABLES str_buf,    \* the keys of str_buf
          pc,         \* where each program is in strcmp_by_map
          rule, text, \* its arguments
          match       \* the programs whose last comparison has matched

vars == <<str_buf, pc, rule, text, match>>

(* Faulty: the lookup is made with the rule.                               *)
KeyOfRule(r, t) == r

(* The text is read again, as far as the rule is long; the rest of the key *)
(* is zero, so that a text one shorter is followed by its NUL.             *)
Key(r, t) == IF Len(t) < Len(r) THEN t ELSE SubSeq(t, 1, Len(r))

(* str_len counts the terminating NUL of the text that was saved, and not  *)
(* the one of the rule.                                                    *)
ShorterThan(t, r) == Len(t) + 1 < Len(r)

Init ==
  /\ str_buf = {}
  /\ pc = [c \in Cpu |-> "idle"]
  /\ rule \in [Cpu -> Rules]
  /\ text \in [Cpu -> Texts]
  /\ match = {}

(* The text is shorter than the rule: there is nothing to compare.         *)
TooShort(c, r, t) ==
  /\ pc[c] = "idle"
  /\ ShorterThan(t, r)
  /\ rule' = [rule EXCEPT ![c] = r]
  /\ text' = [text EXCEPT ![c] = t]
  /\ match' = match \ {c}
  /\ pc' = [pc EXCEPT ![c] = "return"]
  /\ UNCHANGED str_buf

(* bpf_map_update_elem(&str_buf, filter->str_val, ...)                     *)
Update(c, r, t) ==
  /\ pc[c] = "idle"
  /\ ~ShorterThan(t, r)
  /\ rule' = [rule EXCEPT ![c] = r]
  /\ text' = [text EXCEPT ![c] = t]
  /\ str_buf' = str_buf \cup {r}
  /\ pc' = [pc EXCEPT ![c] = "updated"]
  /\ UNCHANGED match

(* bpf_map_lookup_elem(&str_buf, str_value)                                *)
Lookup(c) ==
  /\ pc[c] = "updated"
  /\ match' = IF Key(rule[c], text[c]) \in str_buf THEN match \cup {c} ELSE match \ {c}
  /\ pc' = [pc EXCEPT ![c] = "looked up"]
  /\ UNCHANGED <<str_buf, rule, text>>

(* Faulty: the rule is taken out only when it has been found.              *)
DeleteFound(c) ==
  /\ pc[c] = "looked up"
  /\ str_buf' = IF c \in match THEN str_buf \ {rule[c]} ELSE str_buf
  /\ pc' = [pc EXCEPT ![c] = "return"]
  /\ UNCHANGED <<rule, text, match>>

(* bpf_map_delete_elem(&str_buf, filter->str_val), in both branches.       *)
Delete(c) ==
  /\ pc[c] = "looked up"
  /\ str_buf' = str_buf \ {rule[c]}
  /\ pc' = [pc EXCEPT ![c] = "return"]
  /\ UNCHANGED <<rule, text, match>>

(* read_args uses the result and goes on.                                  *)
Return(c) ==
  /\ pc[c] = "return"
  /\ pc' = [pc EXCEPT ![c] = "idle"]
  /\ UNCHANGED <<str_buf, rule, text, match>>

Next ==
  \E c \in Cpu :
    \/ \E r \in Rules, t \in Texts : TooShort(c, r, t) \/ Update(c, r, t)
    \/ Lookup(c) \/ Delete(c) \/ Return(c)

Spec == Init /\ [][Next]_vars

-----------------------------------------------------------------------------
TypeOK ==
  /\ str_buf \subseteq Rules
  /\ pc \in [Cpu -> {"idle", "updated", "looked up", "return"}]
  /\ rule \in [Cpu -> Rules] /\ text \in [Cpu -> Texts]
  /\ match \subseteq Cpu

(* No rule stays in str_buf for good: every key was put there by a program *)
(* that is still to take it out.                                           *)
NoLeak ==
  \A r \in str_buf : \E c \in Cpu : rule[c] = r /\ pc[c] \in {"updated", "looked up"}

StartsWith(t, r) == Len(t) >= Len(r) /\ SubSeq(t, 1, Len(r)) = r

(* A comparison in progress, whose rule is in str_buf if nobody else has   *)
(* taken it out.                                                           *)
Comparing(c) == pc[c] \in {"updated", "looked up"}

(* A program that finds a match has one, its text starts with its rule; or *)
(* it has found the rule of another program that is comparing just then.   *)
(* That rule is as long as its own or one shorter, and its text starts     *)
(* with it: rules whose lengths are two apart are never mistaken.          *)
FalseMatchesExplained ==
  [][\A c \in Cpu : pc[c] = "updated" /\ pc'[c] = "looked up" /\ c \in match' =>
       \/ StartsWith(text[c], rule[c])
       \/ \E d \in Cpu \ {c} :
            /\ Comparing(d)
            /\ StartsWith(text[c], rule[d]) /\ rule[d] # rule[c]
            /\ Len(rule[c]) - Len(rule[d]) \in {0, 1}]_vars

-----------------------------------------------------------------------------
(* What a comment of the code says and the lookup does not tell.           *)

(* buffer.h:249: "found means it matches, not found means it does not".    *)
LookupTellsMatch ==
  \A c \in Cpu : pc[c] = "return" => (c \in match <=> StartsWith(text[c], rule[c]))
=============================================================================
