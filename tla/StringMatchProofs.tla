------------------------- MODULE StringMatchProofs -------------------------
(***************************************************************************)
(* strcmp_by_map for any number of CPUs, any rules and any texts: str_buf  *)
(* is always cleaned up, and a match that is not true is another program's *)
(* rule, of the same length or one shorter.                                *)
(***************************************************************************)
EXTENDS StringMatch, TLAPS

(* A program that is to look its text up has one that is long enough.      *)
LongEnough == \A c \in Cpu : pc[c] = "updated" => ~ShorterThan(text[c], rule[c])

-----------------------------------------------------------------------------
(* The initial state has its type, and every step keeps it.                *)
LEMMA InitTypeOK == Init => TypeOK
  BY DEF Init, TypeOK

(* Every step keeps the types.                                             *)
LEMMA NextTypeOK == TypeOK /\ [Next]_vars => TypeOK'
<1> SUFFICES ASSUME TypeOK, [Next]_vars PROVE TypeOK'
  OBVIOUS
<1> USE DEF TypeOK
<1>1. ASSUME NEW c \in Cpu, NEW r \in Rules, NEW t \in Texts, TooShort(c, r, t)
      PROVE  TypeOK'
  BY <1>1 DEF TooShort
<1>2. ASSUME NEW c \in Cpu, NEW r \in Rules, NEW t \in Texts, Update(c, r, t)
      PROVE  TypeOK'
  BY <1>2 DEF Update
<1>3. ASSUME NEW c \in Cpu, Lookup(c) PROVE TypeOK'
  BY <1>3 DEF Lookup
<1>4. ASSUME NEW c \in Cpu, Delete(c) PROVE TypeOK'
  BY <1>4 DEF Delete
<1>5. ASSUME NEW c \in Cpu, Return(c) PROVE TypeOK'
  BY <1>5 DEF Return
<1>6. CASE UNCHANGED vars
  BY <1>6 DEF vars
<1> QED
  BY <1>1, <1>2, <1>3, <1>4, <1>5, <1>6 DEF Next

(* Every variable of strcmp_by_map keeps its type: no key of str_buf is    *)
(* anything but a rule.                                                    *)
THEOREM TypeCorrect == Spec => []TypeOK
  BY InitTypeOK, NextTypeOK, PTL DEF Spec

-----------------------------------------------------------------------------
(* One program at a time adds or takes out its own rule; the others keep   *)
(* theirs or have lost it already, but none is left without an owner.      *)
LEMMA NextNoLeak == TypeOK /\ NoLeak /\ [Next]_vars => NoLeak'
<1> SUFFICES ASSUME TypeOK, NoLeak, [Next]_vars, NEW r \in str_buf'
             PROVE  \E c \in Cpu : rule'[c] = r /\ pc'[c] \in {"updated", "looked up"}
  BY DEF NoLeak
<1> USE DEF TypeOK
<1>0. ASSUME r \in str_buf
      PROVE  \E c \in Cpu : rule[c] = r /\ pc[c] \in {"updated", "looked up"}
  BY <1>0 DEF NoLeak
<1>1. ASSUME NEW c \in Cpu, NEW q \in Rules, NEW t \in Texts, TooShort(c, q, t)
      PROVE  \E d \in Cpu : rule'[d] = r /\ pc'[d] \in {"updated", "looked up"}
  <2>1. PICK d \in Cpu : rule[d] = r /\ pc[d] \in {"updated", "looked up"}
    BY <1>0, <1>1 DEF TooShort
  <2>2. d # c
    BY <1>1, <2>1 DEF TooShort
  <2> QED
    BY <1>1, <2>1, <2>2 DEF TooShort
<1>2. ASSUME NEW c \in Cpu, NEW q \in Rules, NEW t \in Texts, Update(c, q, t)
      PROVE  \E d \in Cpu : rule'[d] = r /\ pc'[d] \in {"updated", "looked up"}
  <2>1. CASE r = q
    BY <1>2, <2>1 DEF Update
  <2>2. CASE r # q
    <3>1. PICK d \in Cpu : rule[d] = r /\ pc[d] \in {"updated", "looked up"}
      BY <1>0, <1>2, <2>2 DEF Update
    <3>2. d # c
      BY <1>2, <3>1 DEF Update
    <3> QED
      BY <1>2, <3>1, <3>2 DEF Update
  <2> QED
    BY <2>1, <2>2
<1>3. ASSUME NEW c \in Cpu, Lookup(c)
      PROVE  \E d \in Cpu : rule'[d] = r /\ pc'[d] \in {"updated", "looked up"}
  <2>1. PICK d \in Cpu : rule[d] = r /\ pc[d] \in {"updated", "looked up"}
    BY <1>0, <1>3 DEF Lookup
  <2> QED
    BY <1>3, <2>1 DEF Lookup
<1>4. ASSUME NEW c \in Cpu, Delete(c)
      PROVE  \E d \in Cpu : rule'[d] = r /\ pc'[d] \in {"updated", "looked up"}
  <2>1. r \in str_buf /\ r # rule[c]
    BY <1>4 DEF Delete
  <2>2. PICK d \in Cpu : rule[d] = r /\ pc[d] \in {"updated", "looked up"}
    BY <1>0, <2>1
  <2> QED
    BY <1>4, <2>1, <2>2 DEF Delete
<1>5. ASSUME NEW c \in Cpu, Return(c)
      PROVE  \E d \in Cpu : rule'[d] = r /\ pc'[d] \in {"updated", "looked up"}
  <2>1. PICK d \in Cpu : rule[d] = r /\ pc[d] \in {"updated", "looked up"}
    BY <1>0, <1>5 DEF Return
  <2> QED
    BY <1>5, <2>1 DEF Return
<1>6. CASE UNCHANGED vars
  BY <1>0, <1>6 DEF vars
<1> QED
  BY <1>1, <1>2, <1>3, <1>4, <1>5, <1>6 DEF Next

(* No rule stays in str_buf for good, however the CPUs interleave.         *)
THEOREM RulesAreTakenOut == Spec => []NoLeak
<1>1. Init => NoLeak
  BY DEF Init, NoLeak
<1> QED
  BY <1>1, TypeCorrect, NextNoLeak, PTL DEF Spec

-----------------------------------------------------------------------------
(* What a lookup can find.  A key is a text cut to the length of the rule, *)
(* or a text one shorter; a rule that equals it is a start of the text.    *)
LEMMA FoundRule ==
  ASSUME NEW r \in Rules, NEW t \in Texts, ~ShorterThan(t, r), NEW q \in Rules, Key(r, t) = q
  PROVE  /\ StartsWith(t, q) /\ Len(r) - Len(q) \in {0, 1}
         /\ q = r => StartsWith(t, r)
<1>1. /\ r \in Seq(Char) /\ t \in Seq(Char) /\ q \in Seq(Char)
      /\ Len(r) \in Nat /\ Len(t) \in Nat /\ Len(q) \in Nat
  BY StringMatchAssumption
<1>2. CASE Len(t) < Len(r)
  <2>1. q = t /\ Len(t) + 1 = Len(r)
    BY <1>1, <1>2 DEF Key, ShorterThan
  <2>2. SubSeq(t, 1, Len(t)) = t
    BY <1>1
  <2>3. StartsWith(t, q)
    BY <1>1, <2>1, <2>2 DEF StartsWith
  <2>4. Len(r) - Len(q) \in {0, 1}
    BY <1>1, <2>1
  <2> QED
    BY <2>3, <2>4
<1>3. CASE ~(Len(t) < Len(r))
  <2>1. q = SubSeq(t, 1, Len(r))
    BY <1>3 DEF Key
  <2>2. Len(q) = Len(r)
    BY <1>1, <1>3, <2>1
  <2>3. StartsWith(t, q)
    <3>1. Len(t) >= Len(q)
      BY <1>1, <1>3, <2>2
    <3>2. SubSeq(t, 1, Len(q)) = q
      BY <2>1, <2>2, Zenon
    <3> QED
      BY <3>1, <3>2 DEF StartsWith
  <2> QED
    BY <1>1, <2>2, <2>3
<1> QED
  BY <1>2, <1>3

(* Only a program that has begun is to look anything up.                   *)
LEMMA NextLongEnough == TypeOK /\ LongEnough /\ [Next]_vars => LongEnough'
<1> SUFFICES ASSUME TypeOK, LongEnough, [Next]_vars PROVE LongEnough'
  OBVIOUS
<1> USE DEF TypeOK, LongEnough
<1>1. ASSUME NEW c \in Cpu, NEW r \in Rules, NEW t \in Texts, TooShort(c, r, t) \/ Update(c, r, t)
      PROVE  LongEnough'
  BY <1>1 DEF TooShort, Update
<1>2. ASSUME NEW c \in Cpu, Lookup(c) \/ Delete(c) \/ Return(c) PROVE LongEnough'
  BY <1>2 DEF Lookup, Delete, Return
<1>3. CASE UNCHANGED vars
  BY <1>3 DEF vars
<1> QED
  BY <1>1, <1>2, <1>3 DEF Next

(* A program's lookup finds its own rule or that of another program that   *)
(* is comparing: no other key is in str_buf.                               *)
LEMMA LookupExplained ==
  ASSUME TypeOK, NoLeak, LongEnough, NEW c \in Cpu, Lookup(c), c \in match'
  PROVE  \/ StartsWith(text[c], rule[c])
         \/ \E d \in Cpu \ {c} :
              /\ Comparing(d)
              /\ StartsWith(text[c], rule[d]) /\ rule[d] # rule[c]
              /\ Len(rule[c]) - Len(rule[d]) \in {0, 1}
<1> DEFINE key == Key(rule[c], text[c])
<1>1. key \in str_buf /\ rule[c] \in Rules /\ text[c] \in Texts /\ ~ShorterThan(text[c], rule[c])
  BY DEF Lookup, TypeOK, LongEnough
<1>2. PICK d \in Cpu : rule[d] = key /\ Comparing(d)
  BY <1>1 DEF NoLeak, Comparing
<1>3. rule[d] \in Rules
  BY DEF TypeOK
<1>4. /\ StartsWith(text[c], rule[d]) /\ Len(rule[c]) - Len(rule[d]) \in {0, 1}
      /\ rule[d] = rule[c] => StartsWith(text[c], rule[c])
  BY <1>1, <1>2, <1>3, FoundRule
<1>5. rule[d] # rule[c] => d # c
  OBVIOUS
<1> QED
  BY <1>2, <1>4, <1>5

(* Whatever the rules and however the CPUs interleave in the one str_buf   *)
(* they share: a match that is not true is a rule of another program that  *)
(* compares at the same time, as long as the rule asked for or one         *)
(* shorter.                                                                *)
THEOREM MatchesAreExplained == Spec => FalseMatchesExplained
<1>1. Init => LongEnough
  BY DEF Init, LongEnough
<1>2. TypeOK /\ LongEnough /\ [Next]_vars => LongEnough'
  BY NextLongEnough
<1>3. TypeOK /\ NoLeak /\ LongEnough /\ [Next]_vars
        => [\A c \in Cpu : pc[c] = "updated" /\ pc'[c] = "looked up" /\ c \in match' =>
              \/ StartsWith(text[c], rule[c])
              \/ \E d \in Cpu \ {c} :
                   /\ Comparing(d)
                   /\ StartsWith(text[c], rule[d]) /\ rule[d] # rule[c]
                   /\ Len(rule[c]) - Len(rule[d]) \in {0, 1}]_vars
  <2> SUFFICES ASSUME TypeOK, NoLeak, LongEnough, Next,
                      NEW c \in Cpu, pc[c] = "updated", pc'[c] = "looked up", c \in match'
               PROVE  \/ StartsWith(text[c], rule[c])
                      \/ \E d \in Cpu \ {c} :
                           /\ Comparing(d)
                           /\ StartsWith(text[c], rule[d]) /\ rule[d] # rule[c]
                           /\ Len(rule[c]) - Len(rule[d]) \in {0, 1}
    OBVIOUS
  <2>1. Lookup(c)
    <3>1. pc \in [Cpu -> {"idle", "updated", "looked up", "return"}]
      BY DEF TypeOK
    <3>2. PICK e \in Cpu :
            \/ \E r \in Rules, t \in Texts : TooShort(e, r, t) \/ Update(e, r, t)
            \/ Lookup(e) \/ Delete(e) \/ Return(e)
      BY DEF Next
    <3>3. e # c => pc'[c] = pc[c]
      BY <3>1, <3>2 DEF TooShort, Update, Lookup, Delete, Return
    <3>4. e = c
      BY <3>3
    <3> QED
      BY <3>1, <3>2, <3>4 DEF TooShort, Update, Delete, Return
  <2> QED
    BY <2>1, LookupExplained
<1> QED
  BY <1>1, <1>2, <1>3, TypeCorrect, RulesAreTakenOut, PTL DEF Spec, FalseMatchesExplained
=============================================================================
