---------------------- MODULE AutotuningContextProofs ----------------------
(***************************************************************************)
(* Proofs about AutotuningContext, for every set of tasks, threads,         *)
(* results, ids, calls and configs.                                         *)
(***************************************************************************)
EXTENDS AutotuningContext, SequenceTheorems, WellFoundedInduction, TLAPS

-----------------------------------------------------------------------------
\* Sequences.

\* The first n elements of s.
LEMMA PrefixProperties ==
  ASSUME NEW S, NEW s \in Seq(S), NEW n \in 0..Len(s)
  PROVE  /\ SubSeq(s, 1, n) \in Seq(S)
         /\ Len(SubSeq(s, 1, n)) = n
         /\ \A i \in 1..n : SubSeq(s, 1, n)[i] = s[i]
<1>1. Len(s) \in Nat
  BY LenProperties
<1>2. \A i \in 1..n : s[i] \in S
  BY <1>1, ElementOfSeq
<1>3. n \in Int /\ 1 \in Int
  BY <1>1
<1>4. /\ SubSeq(s, 1, n) \in Seq(S)
      /\ Len(SubSeq(s, 1, n)) = IF 1 =< n THEN n - 1 + 1 ELSE 0
      /\ \A i \in 1..n - 1 + 1 : SubSeq(s, 1, n)[i] = s[1 + i - 1]
  BY <1>2, <1>3, SubSeqProperties
<1>5. (IF 1 =< n THEN n - 1 + 1 ELSE 0) = n /\ n - 1 + 1 = n
  BY <1>1
<1>6. \A i \in 1..n : 1 + i - 1 = i
  BY <1>1
<1> QED
  BY <1>4, <1>5, <1>6

\* Pop drops the last element.
LEMMA PopProperties ==
  ASSUME NEW S, NEW s \in Seq(S), s # <<>>
  PROVE  /\ Pop(s) \in Seq(S)
         /\ Len(s) \in Nat /\ Len(s) >= 1
         /\ Len(Pop(s)) = Len(s) - 1
         /\ \A i \in 1..Len(s) - 1 : Pop(s)[i] = s[i]
<1>1. Len(s) \in Nat /\ Len(s) >= 1
  BY EmptySeq, LenProperties
<1>2. Len(s) - 1 \in 0..Len(s)
  BY <1>1
<1> QED
  BY <1>1, <1>2, PrefixProperties DEF Pop

\* Below(s, i) is the prefix of s before position i.
LEMMA BelowProperties ==
  ASSUME NEW S, NEW s \in Seq(S), NEW i \in 1..Len(s)
  PROVE  /\ Below(s, i) \in Seq(S)
         /\ Len(Below(s, i)) = i - 1
         /\ \A j \in 1..i - 1 : Below(s, i)[j] = s[j]
<1>1. i - 1 \in 0..Len(s)
  BY LenProperties
<1> QED
  BY <1>1, PrefixProperties DEF Below

\* Appending changes no prefix, and the whole sequence is the last prefix.
LEMMA BelowAppend ==
  ASSUME NEW S, NEW s \in Seq(S), NEW x \in S
  PROVE  /\ \A i \in 1..Len(s) : Below(Append(s, x), i) = Below(s, i)
         /\ Below(Append(s, x), Len(s) + 1) = s
<1>1. Len(s) \in Nat /\ Append(s, x) \in Seq(S)
      /\ Len(Append(s, x)) = Len(s) + 1
      /\ \A i \in 1..Len(s) : Append(s, x)[i] = s[i]
  BY LenProperties, AppendProperties
<1>2. ASSUME NEW i \in 1..Len(s)
      PROVE  Below(Append(s, x), i) = Below(s, i)
  <2>1. i \in 1..Len(Append(s, x)) /\ i - 1 \in Nat
    BY <1>1
  <2>2. /\ Below(s, i) \in Seq(S)
        /\ Len(Below(s, i)) = i - 1
        /\ \A j \in 1..i - 1 : Below(s, i)[j] = s[j]
    BY BelowProperties
  <2>3. /\ Below(Append(s, x), i) \in Seq(S)
        /\ Len(Below(Append(s, x), i)) = i - 1
        /\ \A j \in 1..i - 1 : Below(Append(s, x), i)[j] = Append(s, x)[j]
    BY <1>1, <2>1, BelowProperties
  <2>4. \A j \in 1..i - 1 : j \in 1..Len(s)
    BY <1>1
  <2>5. \A j \in 1..Len(Below(s, i)) :
          Below(Append(s, x), i)[j] = Below(s, i)[j]
    BY <1>1, <2>2, <2>3, <2>4
  <2> QED
    BY <2>2, <2>3, <2>5, SeqEqual
<1>3. Below(Append(s, x), Len(s) + 1) = s
  <2>1. Len(s) + 1 \in 1..Len(Append(s, x)) /\ Len(s) + 1 - 1 = Len(s)
    BY <1>1
  <2>2. /\ Below(Append(s, x), Len(s) + 1) \in Seq(S)
        /\ Len(Below(Append(s, x), Len(s) + 1)) = Len(s)
        /\ \A j \in 1..Len(s) :
             Below(Append(s, x), Len(s) + 1)[j] = Append(s, x)[j]
    <3> DEFINE n == Len(s) + 1
               a == Append(s, x)
    <3>1. a \in Seq(S) /\ n \in 1..Len(a)
      BY <1>1
    <3> HIDE DEF a, n
    <3>2. /\ Below(a, n) \in Seq(S)
          /\ Len(Below(a, n)) = n - 1
          /\ \A j \in 1..n - 1 : Below(a, n)[j] = a[j]
      BY <3>1, BelowProperties
    <3>3. n - 1 = Len(s)
      BY <1>1 DEF n
    <3> QED
      BY <3>2, <3>3 DEF a, n
  <2>3. \A j \in 1..Len(Below(Append(s, x), Len(s) + 1)) :
          Below(Append(s, x), Len(s) + 1)[j] = s[j]
    BY <1>1, <2>2
  <2> QED
    BY <2>2, <2>3, SeqEqual
<1> QED
  BY <1>2, <1>3

\* Popping changes no prefix that is left.
LEMMA BelowPop ==
  ASSUME NEW S, NEW s \in Seq(S), s # <<>>, NEW i \in 1..Len(s) - 1
  PROVE  Below(Pop(s), i) = Below(s, i)
<1>1. /\ Len(s) \in Nat /\ Len(s) >= 1
      /\ Pop(s) \in Seq(S)
      /\ Len(Pop(s)) = Len(s) - 1
      /\ \A j \in 1..Len(s) - 1 : Pop(s)[j] = s[j]
  BY PopProperties
<1>2. i \in 1..Len(s) /\ i \in 1..Len(Pop(s)) /\ i - 1 \in Nat
  BY <1>1
<1>3. \A j \in 1..i - 1 : j \in 1..Len(s) - 1
  BY <1>1
<1>4. /\ Below(s, i) \in Seq(S)
      /\ Len(Below(s, i)) = i - 1
      /\ \A j \in 1..i - 1 : Below(s, i)[j] = s[j]
  BY <1>2, BelowProperties
<1>5. /\ Below(Pop(s), i) \in Seq(S)
      /\ Len(Below(Pop(s), i)) = i - 1
      /\ \A j \in 1..i - 1 : Below(Pop(s), i)[j] = Pop(s)[j]
  BY <1>1, <1>2, BelowProperties
<1>6. \A j \in 1..Len(Below(s, i)) : Below(Pop(s), i)[j] = Below(s, i)[j]
  BY <1>1, <1>3, <1>4, <1>5
<1> QED
  BY <1>4, <1>5, <1>6, SeqEqual

-----------------------------------------------------------------------------
\* Ids of a scope.

\* The results of the scope s have been created.
Created(s) == \A i \in 1..Len(s) : addr[s[i]] \in Addrs

\* A scope of created results has as many ids as results, ...
LEMMA IdsType ==
  ASSUME NEW s \in Seq(Results), Created(s)
  PROVE  /\ Ids(s) \in Seq(Addrs)
         /\ Len(Ids(s)) = Len(s)
         /\ \A i \in 1..Len(s) : Ids(s)[i] = addr[s[i]]
<1>1. Len(s) \in Nat
  BY LenProperties
<1>2. \A i \in 1..Len(s) : addr[s[i]] \in Addrs
  BY DEF Created
<1> QED
  BY <1>1, <1>2, IsASeq DEF Ids

\* ... and grows and shrinks by one id with it.
LEMMA IdsAppend ==
  ASSUME NEW s \in Seq(Results), Created(s),
         NEW r \in Results, addr[r] \in Addrs
  PROVE  Created(Append(s, r)) /\ Ids(Append(s, r)) = Append(Ids(s), addr[r])
<1>1. /\ Len(s) \in Nat
      /\ Append(s, r) \in Seq(Results)
      /\ Len(Append(s, r)) = Len(s) + 1
      /\ \A i \in 1..Len(s) : Append(s, r)[i] = s[i]
      /\ Append(s, r)[Len(s) + 1] = r
  BY LenProperties, AppendProperties
<1>2. Created(Append(s, r))
  BY <1>1 DEF Created
<1>3. /\ Ids(s) \in Seq(Addrs)
      /\ Len(Ids(s)) = Len(s)
      /\ \A i \in 1..Len(s) : Ids(s)[i] = addr[s[i]]
  BY IdsType
<1>4. /\ Ids(Append(s, r)) \in Seq(Addrs)
      /\ Len(Ids(Append(s, r))) = Len(s) + 1
      /\ \A i \in 1..Len(s) + 1 : Ids(Append(s, r))[i] = addr[Append(s, r)[i]]
  BY <1>1, <1>2, IdsType
<1>5. /\ Append(Ids(s), addr[r]) \in Seq(Addrs)
      /\ Len(Append(Ids(s), addr[r])) = Len(s) + 1
      /\ \A i \in 1..Len(s) : Append(Ids(s), addr[r])[i] = Ids(s)[i]
      /\ Append(Ids(s), addr[r])[Len(s) + 1] = addr[r]
  BY <1>3, AppendProperties
<1>6. \A i \in 1..Len(s) + 1 :
        Ids(Append(s, r))[i] = Append(Ids(s), addr[r])[i]
  <2> SUFFICES ASSUME NEW i \in 1..Len(s) + 1
               PROVE  Ids(Append(s, r))[i] = Append(Ids(s), addr[r])[i]
    OBVIOUS
  <2>1. CASE i = Len(s) + 1
    BY <1>1, <1>4, <1>5, <2>1
  <2>2. CASE i \in 1..Len(s)
    <3>1. Ids(Append(s, r))[i] = addr[Append(s, r)[i]]
      BY <1>4
    <3>2. Append(s, r)[i] = s[i]
      BY <1>1, <2>2
    <3>3. Append(Ids(s), addr[r])[i] = addr[s[i]]
      BY <1>3, <1>5, <2>2
    <3> QED
      BY <3>1, <3>2, <3>3
  <2>3. i = Len(s) + 1 \/ i \in 1..Len(s)
    BY <1>1
  <2> QED
    BY <2>1, <2>2, <2>3, Zenon
<1> QED
  BY <1>2, <1>4, <1>5, <1>6, SeqEqual

LEMMA IdsPop ==
  ASSUME NEW s \in Seq(Results), s # <<>>, Created(s)
  PROVE  Created(Pop(s)) /\ Ids(Pop(s)) = Below(Ids(s), Len(s))
<1>1. /\ Len(s) \in Nat /\ Len(s) >= 1
      /\ Pop(s) \in Seq(Results)
      /\ Len(Pop(s)) = Len(s) - 1
      /\ \A i \in 1..Len(s) - 1 : Pop(s)[i] = s[i]
  BY PopProperties
<1>2. Created(Pop(s))
  BY <1>1 DEF Created
<1>3. /\ Ids(s) \in Seq(Addrs)
      /\ Len(Ids(s)) = Len(s)
      /\ \A i \in 1..Len(s) : Ids(s)[i] = addr[s[i]]
  BY IdsType
<1>4. /\ Ids(Pop(s)) \in Seq(Addrs)
      /\ Len(Ids(Pop(s))) = Len(s) - 1
      /\ \A i \in 1..Len(s) - 1 : Ids(Pop(s))[i] = addr[Pop(s)[i]]
  BY <1>1, <1>2, IdsType
<1>5. /\ Below(Ids(s), Len(s)) \in Seq(Addrs)
      /\ Len(Below(Ids(s), Len(s))) = Len(s) - 1
      /\ \A i \in 1..Len(s) - 1 : Below(Ids(s), Len(s))[i] = Ids(s)[i]
  <2>1. Len(s) \in 1..Len(Ids(s))
    BY <1>1, <1>3
  <2> QED
    BY <1>3, <2>1, BelowProperties
<1>6. \A i \in 1..Len(s) - 1 : Ids(Pop(s))[i] = Below(Ids(s), Len(s))[i]
  <2> SUFFICES ASSUME NEW i \in 1..Len(s) - 1
               PROVE  Ids(Pop(s))[i] = Below(Ids(s), Len(s))[i]
    OBVIOUS
  <2>1. i \in 1..Len(s)
    BY <1>1
  <2>2. Ids(Pop(s))[i] = addr[Pop(s)[i]] /\ Pop(s)[i] = s[i]
    BY <1>1, <1>4
  <2>3. Below(Ids(s), Len(s))[i] = Ids(s)[i] /\ Ids(s)[i] = addr[s[i]]
    BY <1>3, <1>5, <2>1
  <2> QED
    BY <2>2, <2>3
<1> QED
  BY <1>2, <1>4, <1>5, <1>6, SeqEqual

-----------------------------------------------------------------------------
\* The lookup.

\* A non-empty set of positions has a last one.
LEMMA InnermostExists ==
  ASSUME NEW n \in Nat, NEW I, I \subseteq 1..n, I # {}
  PROVE  Innermost(I) \in I /\ \A j \in I : j =< Innermost(I)
<1> DEFINE T == {n - i : i \in I}
<1>1. T \subseteq Nat /\ T # {}
  <2>1. \A i \in I : n - i \in Nat
    OBVIOUS
  <2> QED
    BY <2>1
<1>2. PICK x \in T : \A y \in T : ~(<<y, x>> \in OpToRel(<, Nat))
  BY <1>1, NatLessThanWellFounded, WFMin
<1>3. \A y \in T : x =< y
  <2> TAKE y \in T
  <2>1. x \in Nat /\ y \in Nat
    BY <1>1
  <2>2. ~(y < x)
    BY <1>2, <2>1 DEF OpToRel
  <2> HIDE DEF T
  <2> QED
    BY <2>1, <2>2
<1>4. PICK i \in I : x = n - i
  OBVIOUS
<1>5. \A j \in I : j =< i
  <2> TAKE j \in I
  <2>1. n - i =< n - j
    BY <1>3, <1>4
  <2>2. i \in Int /\ j \in Int
    OBVIOUS
  <2> HIDE DEF T
  <2> QED
    BY <2>1, <2>2
<1> QED
  BY <1>5 DEF Innermost

\* A lookup of well-formed caches finds an entry, ...
LEMMA CachedDataType ==
  ASSUME NEW s \in Seq(Results), NEW stored \in Entries,
         NEW c \in Calls, NEW opt
  PROVE  CachedData(s, stored, c, opt) \in Entries
<1>1. CASE opt.ignore \/ Holders(s, c) = {}
  BY <1>1 DEF CachedData, Entries
<1>2. CASE ~opt.ignore /\ Holders(s, c) # {}
  <2>1. Len(s) \in Nat /\ Holders(s, c) \subseteq 1..Len(s)
    BY LenProperties DEF Holders
  <2>2. Innermost(Holders(s, c)) \in 1..Len(s)
    BY <1>2, <2>1, InnermostExists
  <2>3. s[Innermost(Holders(s, c))] \in Results
    BY <2>2, ElementOfSeq
  <2> QED
    BY <1>2, <2>3, ConstantsAssumption DEF CachedData
<1> QED
  BY <1>1, <1>2

\* ... and its resolution a config or an exception.
LEMMA ResolveType ==
  ASSUME NEW data \in Entries, NEW opt, NEW tuned
  PROVE  Resolve(data, opt, tuned) \in Outcomes
  BY ConstantsAssumption
  DEF Resolve, Outcomes, FastestConfig, Missing, Entries

\* A store keeps the caches well-formed.
LEMMA StoreType ==
  ASSUME NEW c \in Calls, NEW tuned \in TuningResults,
         cache \in [Calls -> Entries], history \in [Calls -> SUBSET Entries],
         Store(c, tuned)
  PROVE  /\ cache' \in [Calls -> Entries]
         /\ history' \in [Calls -> SUBSET Entries]
<1>1. tuned \in Entries
  BY DEF TuningResults, Entries
<1>2. StoredAt(c) \in Calls
  BY ConstantsAssumption DEF StoredAt, Calls
<1> QED
  BY <1>1, <1>2 DEF Store, Stored

\* What Lookup does keeps the caches and the reply well-formed.
LEMMA LookupType ==
  ASSUME NEW t \in Tasks, NEW c \in Calls, NEW opt \in OptionsUsed,
         NEW jit \in BOOLEAN, NEW data \in Entries, NEW tuned \in TuningResults,
         cache \in [Calls -> Entries], history \in [Calls -> SUBSET Entries],
         Lookup(t, c, opt, jit, data, tuned)
  PROVE  /\ cache' \in [Calls -> Entries]
         /\ history' \in [Calls -> SUBSET Entries]
         /\ reply' \in Replies
<1>1. reply' \in Replies
  BY ResolveType DEF Lookup, Answer, Replies
<1>2. /\ cache' \in [Calls -> Entries]
      /\ history' \in [Calls -> SUBSET Entries]
  BY StoreType DEF Lookup
<1> QED
  BY <1>1, <1>2

-----------------------------------------------------------------------------
\* Types.

\* A task in a handler is in it for a result it uses.
LEMMA HandlerObject ==
  ASSUME TypeOK, NEW t \in Tasks, step[t].at \in {"enter", "exit"}
  PROVE  /\ step[t] # Idle
         /\ step[t].obj \in Results
         /\ step[t].obj \in Using(t)
  BY DEF TypeOK, Steps, Idle, Using

\* A result a task uses has an id.
LEMMA UsedHasId ==
  ASSUME TypeOK, IdsUnique, NEW t \in Tasks, NEW r \in Using(t)
  PROVE  r \in Results /\ addr[r] \in Addrs
  BY DEF TypeOK, IdsUnique

\* The last frame of a task is a result it has entered.
LEMMA LastFrame ==
  ASSUME TypeOK, NEW t \in Tasks, frames[t] # <<>>
  PROVE  /\ Len(frames[t]) \in Nat /\ Len(frames[t]) >= 1
         /\ frames[t][Len(frames[t])] \in Results
         /\ frames[t][Len(frames[t])] \in Entered(t)
<1>1. frames[t] \in Seq(Results)
  BY DEF TypeOK
<1>2. Len(frames[t]) \in Nat /\ Len(frames[t]) >= 1
  BY <1>1, PopProperties
<1>3. Len(frames[t]) \in 1..Len(frames[t])
  BY <1>2
<1> QED
  BY <1>1, <1>2, <1>3, ElementOfSeq DEF Entered

LEMMA InitType == ASSUME Init PROVE TypeOK
<1>1. Idle \in Steps /\ <<>> \in Seq(Results) /\ <<>> \in Seq(Addrs)
  BY EmptySeq DEF Steps
<1>2. cache \in [Calls -> Entries] /\ history \in [Calls -> SUBSET Entries]
  BY ContextAssumption DEF Init
<1>3. DOMAIN traces = {}
  BY DEF Init
<1> QED
  BY <1>1, <1>2, <1>3 DEF Init, TypeOK, Tokens, Contexts

LEMMA EnterStackType ==
  ASSUME TypeOK, NEW t \in Tasks, NEW r \in Results, EnterStack(t, r)
  PROVE  TypeOK'
<1>1. Append(stack[t], r) \in Seq(Results)
  BY AppendProperties DEF TypeOK
<1>2. stack' \in [Tasks -> Seq(Results)]
  BY <1>1 DEF TypeOK, EnterStack
<1>3. token' \in [Results -> Tokens]
  BY DEF TypeOK, EnterStack, Tokens
<1>4. step' \in [Tasks -> Steps]
  BY DEF TypeOK, EnterStack, At, Steps
<1> QED
  BY <1>2, <1>3, <1>4 DEF TypeOK, EnterStack, lookups

LEMMA EnterJaxType ==
  ASSUME TypeOK, IdsUnique, NEW t \in Tasks, EnterJax(t)
  PROVE  TypeOK'
<1> DEFINE h == ThreadOf[t]
           r == step[t].obj
<1>1. h \in Threads /\ r \in Results /\ addr[r] \in Addrs
  BY HandlerObject, UsedHasId, ContextAssumption DEF EnterJax
<1> HIDE DEF h, r
<1>2. jaxCtx[h] \in Seq(Addrs) /\ frames[t] \in Seq(Results)
  BY <1>1 DEF TypeOK
<1>3. Append(jaxCtx[h], addr[r]) \in Seq(Addrs)
      /\ Append(frames[t], r) \in Seq(Results)
  BY <1>1, <1>2, AppendProperties
<1>4. jaxCtx' \in [Threads -> Seq(Addrs)] /\ frames' \in [Tasks -> Seq(Results)]
  BY <1>3 DEF TypeOK, EnterJax, h, r
<1>5. context' \in [Results -> Contexts]
  BY <1>2 DEF TypeOK, EnterJax, Contexts, h
<1>6. step' \in [Tasks -> Steps]
  BY DEF TypeOK, EnterJax, Steps
<1> QED
  BY <1>4, <1>5, <1>6 DEF TypeOK, EnterJax, lookups

LEMMA LeaveType ==
  ASSUME TypeOK, NEW t \in Tasks, frames[t] # <<>>,
         NEW e \in SUBSET {"AttributeError", "ValueError"}, Leave(t, e)
  PROVE  /\ frames' \in [Tasks -> Seq(Results)]
         /\ step' \in [Tasks -> Steps]
         /\ error' \subseteq {"AttributeError", "ValueError"}
<1>1. Pop(frames[t]) \in Seq(Results)
  BY PopProperties DEF TypeOK
<1> QED
  BY <1>1 DEF TypeOK, Leave, Steps

LEMMA ExitJaxType ==
  ASSUME TypeOK, NEW t \in Tasks, ExitJax(t)
  PROVE  TypeOK'
<1> DEFINE h == ThreadOf[t]
           r == frames[t][Len(frames[t])]
<1>1. h \in Threads /\ r \in Results
  BY LastFrame, ContextAssumption DEF ExitJax
<1>2. CASE context[r] = NoContext
  <2>1. Leave(t, {"AttributeError"}) /\ UNCHANGED <<jaxCtx, context>>
    BY <1>2 DEF ExitJax
  <2>2. /\ frames' \in [Tasks -> Seq(Results)]
        /\ step' \in [Tasks -> Steps]
        /\ error' \subseteq {"AttributeError", "ValueError"}
    BY <2>1, LeaveType DEF ExitJax
  <2> QED
    BY <2>1, <2>2 DEF TypeOK, ExitJax, lookups
<1>3. CASE context[r] # NoContext
  <2>1. /\ jaxCtx' = [jaxCtx EXCEPT ![h] = context[r].prev]
        /\ context' = [context EXCEPT ![r] = NoContext]
        /\ step' = [step EXCEPT ![t] = At("exit", r)]
        /\ UNCHANGED <<frames, error>>
    BY <1>3 DEF ExitJax
  <2>2. context[r].prev \in Seq(Addrs)
    BY <1>1, <1>3 DEF TypeOK, Contexts
  <2> HIDE DEF h, r
  <2>3. jaxCtx' \in [Threads -> Seq(Addrs)]
    BY <1>1, <2>1, <2>2 DEF TypeOK
  <2>4. context' \in [Results -> Contexts] /\ step' \in [Tasks -> Steps]
    BY <1>1, <2>1 DEF TypeOK, Contexts, Steps, At
  <2> QED
    BY <2>1, <2>3, <2>4 DEF TypeOK, ExitJax, lookups
<1> QED
  BY <1>2, <1>3

LEMMA ExitStackType ==
  ASSUME TypeOK, NEW t \in Tasks, TaskInv(t), ExitStack(t)
  PROVE  TypeOK'
<1> DEFINE r == step[t].obj
<1>1. frames[t] # <<>> /\ r \in Results
  BY HandlerObject DEF ExitStack, TaskInv, MidExit
<1>2. /\ token' \in [Results -> Tokens]
      /\ stack' \in [Tasks -> Seq(Results)]
      /\ \E e \in SUBSET {"AttributeError", "ValueError"} : Leave(t, e)
  <2>1. CASE token[r] = NoToken \/ token[r].task # t
    BY <2>1 DEF TypeOK, ExitStack
  <2>2. CASE token[r] # NoToken /\ token[r].task = t
    <3>1. /\ stack' = [stack EXCEPT ![t] = token[r].prev]
          /\ token' = [token EXCEPT ![r] = NoToken]
          /\ Leave(t, {})
      BY <2>2 DEF ExitStack
    <3>2. token[r].prev \in Seq(Results)
      BY <1>1, <2>2 DEF TypeOK, Tokens
    <3> HIDE DEF r
    <3> QED
      BY <1>1, <3>1, <3>2 DEF TypeOK, Tokens
  <2> QED
    BY <2>1, <2>2
<1>3. /\ frames' \in [Tasks -> Seq(Results)]
      /\ step' \in [Tasks -> Steps]
      /\ error' \subseteq {"AttributeError", "ValueError"}
  BY <1>1, <1>2, LeaveType
<1> QED
  BY <1>2, <1>3 DEF TypeOK, ExitStack, lookups

LEMMA CallType ==
  ASSUME TypeOK, NEW t \in Tasks, NEW c \in Calls, NEW opt \in OptionsUsed,
         Call(t, c, opt)
  PROVE  TypeOK'
<1> DEFINE k == TraceKey(t, c, opt)
           data == CachedData(stack[t], cache[c], c, opt)
<1>1. stack[t] \in Seq(Results) /\ cache[c] \in Entries
  BY DEF TypeOK
<1>2. data \in Entries
  BY <1>1, CachedDataType
<1>3. k \in TraceKeys
  BY ContextAssumption DEF TypeOK, TraceKey, TraceKeys
<1> HIDE DEF data, k
<1>4. CASE EagerCall(t, c, opt)
  <2>1. PICK tuned \in TuningResults : Lookup(t, c, opt, FALSE, data, tuned)
    BY <1>4 DEF EagerCall, data
  <2>2. /\ cache' \in [Calls -> Entries]
        /\ history' \in [Calls -> SUBSET Entries]
        /\ reply' \in Replies
    BY <1>2, <2>1, LookupType DEF TypeOK
  <2> QED
    BY <1>4, <2>2 DEF TypeOK, EagerCall, managers
<1>5. CASE JitHit(t, c, opt)
  <2>1. traces[k] \in Outcomes
    BY <1>5 DEF JitHit, k, TypeOK, Outcomes
  <2>2. reply' \in Replies
    BY <1>5, <2>1 DEF JitHit, Answer, Replies, k
  <2> QED
    BY <1>5, <2>2 DEF TypeOK, JitHit, managers, lookups
<1>6. CASE JitTrace(t, c, opt)
  <2>1. PICK tuned \in TuningResults :
          LET out == Resolve(data, opt, tuned) IN
          /\ Lookup(t, c, opt, TRUE, data, tuned)
          /\ traces' = IF out = Raised THEN traces
                       ELSE [x \in DOMAIN traces \cup {k} |->
                               IF x = k THEN out ELSE traces[x]]
    BY <1>6 DEF JitTrace, data, k
  <2>2. /\ cache' \in [Calls -> Entries]
        /\ history' \in [Calls -> SUBSET Entries]
        /\ reply' \in Replies
    BY <1>2, <2>1, LookupType DEF TypeOK
  <2>3. Resolve(data, opt, tuned) \in Outcomes
    BY <1>2, ResolveType
  <2>4. /\ DOMAIN traces' \subseteq TraceKeys
        /\ \A x \in DOMAIN traces' : traces'[x] \in Configs
    BY <1>3, <2>1, <2>3 DEF TypeOK, Outcomes
  <2> QED
    BY <1>6, <2>2, <2>4 DEF TypeOK, JitTrace, managers
<1> QED
  BY <1>4, <1>5, <1>6 DEF Call

\* Every step keeps the types.
LEMMA TypeStep ==
  ASSUME TypeOK, IdsUnique, \A t \in Tasks : TaskInv(t), [Next]_vars
  PROVE  TypeOK'
<1>1. ASSUME NEW r \in Results, Free(r)
      PROVE  TypeOK'
  BY <1>1 DEF TypeOK, Free, lookups
<1>2. ASSUME NEW r \in Results, NEW a \in Addrs, Create(r, a)
      PROVE  TypeOK'
  BY <1>2 DEF TypeOK, Create, lookups
<1>3. ASSUME NEW t \in Tasks, Manage(t)
      PROVE  TypeOK'
  BY <1>3, EnterStackType, EnterJaxType, ExitJaxType, ExitStackType DEF Manage
<1>4. ASSUME NEW t \in Tasks, NEW c \in Calls, NEW opt \in OptionsUsed,
             Call(t, c, opt)
      PROVE  TypeOK'
  BY <1>4, CallType
<1>5. ASSUME NEW c \in Calls, Autotune(c)
      PROVE  TypeOK'
  <2>1. PICK tuned \in TuningResults : Store(c, tuned)
    BY <1>5 DEF Autotune
  <2>2. /\ cache' \in [Calls -> Entries]
        /\ history' \in [Calls -> SUBSET Entries]
    BY <2>1, StoreType DEF TypeOK
  <2> QED
    BY <1>5, <2>2 DEF TypeOK, Autotune, managers
<1>6. CASE UNCHANGED vars
  BY <1>6 DEF TypeOK, vars, managers, lookups
<1> QED
  BY <1>1, <1>2, <1>3, <1>4, <1>5, <1>6 DEF Next

-----------------------------------------------------------------------------
\* The inductive invariant.

\* A step that leaves alone what concerns the task u keeps its invariant.
LEMMA TaskUnaffected ==
  ASSUME TypeOK, NEW u \in Tasks, TaskInv(u),
         addr' = addr,
         frames'[u] = frames[u], stack'[u] = stack[u], step'[u] = step[u],
         jaxCtx'[ThreadOf[u]] = jaxCtx[ThreadOf[u]],
         \A r \in Using(u) : token'[r] = token[r] /\ context'[r] = context[r]
  PROVE  TaskInv(u)'
<1>1. \A i \in 1..Len(frames[u]) : frames[u][i] \in Using(u)
  BY DEF Using, Entered
<1>2. FrameTokens(u)'
  BY <1>1 DEF TaskInv, FrameTokens, Below
<1>3. FrameContexts(u)'
  BY <1>1, ZenonT(60) DEF TaskInv, FrameContexts, Below, Ids
<1>4. (step[u] = Idle => AtRest(u))'
  BY DEF TaskInv, AtRest, Ids, Idle
<1>5. (step[u].at = "enter" => MidEnter(u))'
  <2>1. SUFFICES ASSUME step[u].at = "enter"
                 PROVE  MidEnter(u)'
    OBVIOUS
  <2>2. MidEnter(u) /\ token'[step[u].obj] = token[step[u].obj]
    BY <2>1, HandlerObject DEF TaskInv
  <2> QED
    BY <2>2 DEF MidEnter, Ids, Entered
<1>6. (step[u].at = "exit" => MidExit(u))'
  BY DEF TaskInv, MidExit, Ids, Pop
<1> QED
  BY <1>2, <1>3, <1>4, <1>5, <1>6 DEF TaskInv

\* A step that leaves alone all the tasks keeps the invariant, types apart.
LEMMA ManagersUnchanged ==
  ASSUME IInv, TypeOK', UNCHANGED <<managers, error>>
  PROVE  IInv'
<1>1. \A t \in Tasks : TaskInv(t)'
  BY TaskUnaffected DEF IInv, managers
<1>2. Exclusive'
  BY DEF IInv, Exclusive, Using, Entered, managers
<1>3. IdsUnique'
  BY DEF IInv, IdsUnique, Using, Entered, managers
<1> QED
  BY <1>1, <1>2, <1>3 DEF IInv, ExitNeverRaises

\* The scope of a task has ids.
LEMMA ScopeCreated ==
  ASSUME TypeOK, IdsUnique, NEW t \in Tasks
  PROVE  frames[t] \in Seq(Results) /\ Created(frames[t])
<1>1. \A i \in 1..Len(frames[t]) : frames[t][i] \in Using(t)
  BY DEF Using, Entered
<1> QED
  BY <1>1, UsedHasId DEF TypeOK, Created

LEMMA InitIInv == ASSUME Init PROVE IInv
<1>1. TypeOK
  BY InitType
<1>2. \A t \in Tasks : Len(frames[t]) = 0 /\ step[t] = Idle /\ Using(t) = {}
  BY DEF Init, Using, Entered
<1>3. Exclusive /\ IdsUnique
  BY <1>2 DEF Init, Exclusive, IdsUnique
<1>4. ASSUME NEW t \in Tasks
      PROVE  TaskInv(t)
  <2>1. frames[t] = <<>> /\ stack[t] = <<>> /\ jaxCtx[ThreadOf[t]] = <<>>
    BY ContextAssumption DEF Init
  <2>2. Ids(<<>>) = <<>>
    BY DEF Ids
  <2> QED
    BY <1>2, <2>1, <2>2
    DEF TaskInv, FrameTokens, FrameContexts, AtRest, Idle
<1> QED
  BY <1>1, <1>3, <1>4 DEF IInv, ExitNeverRaises, Init

LEMMA FreeIInv ==
  ASSUME IInv, TypeOK', NEW r \in Results, Free(r)
  PROVE  IInv'
<1>1. \A t \in Tasks : TaskInv(t)'
  BY TaskUnaffected DEF IInv, Free
<1>2. \A t \in Tasks : Using(t)' = Using(t)
  BY DEF Free, Using, Entered
<1>3. Exclusive'
  BY <1>2 DEF IInv, Exclusive, Free
<1>4. IdsUnique'
  BY <1>2 DEF IInv, IdsUnique, Free, InUse
<1> QED
  BY <1>1, <1>3, <1>4 DEF IInv, ExitNeverRaises, Free

LEMMA CreateIInv ==
  ASSUME Disciplined, IInv, TypeOK',
         NEW r \in Results, NEW a \in Addrs, Create(r, a)
  PROVE  IInv'
<1>1. \A t \in Tasks : Using(t)' = Using(t) /\ r \notin Using(t)
  <2>1. r \notin alive
    BY DEF IInv, IdsUnique, Create
  <2> QED
    BY <2>1 DEF IInv, IdsUnique, Create, Using, Entered
<1>2. \A q \in Results : addr[q] # a
  BY DEF Create, Disciplined
<1>3. Exclusive'
  BY <1>1 DEF IInv, Exclusive, Create
<1>4. IdsUnique'
  BY <1>1, <1>2, ContextAssumption DEF IInv, TypeOK, IdsUnique, Create
<1>5. ASSUME NEW t \in Tasks
      PROVE  TaskInv(t)'
  <2>1. \A q \in Using(t) : addr'[q] = addr[q]
    BY <1>1 DEF Create, IInv, TypeOK
  <2>2. \A i \in 1..Len(frames[t]) : frames[t][i] \in Using(t)
    BY DEF Using, Entered
  <2>3. Ids(frames[t])' = Ids(frames[t])
    BY <2>1, <2>2 DEF Ids, Create
  <2>4. Ids(Pop(frames[t]))' = Ids(Pop(frames[t]))
    <3>1. CASE frames[t] = <<>>
      BY <3>1 DEF Ids, Create, Pop
    <3>2. CASE frames[t] # <<>>
      <4>1. /\ Len(Pop(frames[t])) = Len(frames[t]) - 1
            /\ \A i \in 1..Len(frames[t]) - 1 : Pop(frames[t])[i] = frames[t][i]
            /\ Len(frames[t]) \in Nat
        BY <3>2, PopProperties DEF IInv, TypeOK
      <4>2. \A i \in 1..Len(Pop(frames[t])) : Pop(frames[t])[i] \in Using(t)
        BY <2>2, <4>1
      <4>3. Pop(frames[t])' = Pop(frames[t])
        BY DEF Pop, Create
      <4> QED
        BY <2>1, <4>2, <4>3 DEF Ids
    <3> QED
      BY <3>1, <3>2
  <2> QED
    BY <2>3, <2>4
    DEF IInv, TaskInv, FrameTokens, FrameContexts, AtRest, MidEnter, MidExit,
        Entered, Below, Idle, Create
<1> QED
  BY <1>3, <1>4, <1>5 DEF IInv, ExitNeverRaises, Create

LEMMA EnterStackIInv ==
  ASSUME Disciplined, IInv, TypeOK',
         NEW t \in Tasks, NEW r \in Results, EnterStack(t, r)
  PROVE  IInv'
<1>1. /\ step[t] = Idle /\ r \in alive
      /\ \A u \in Tasks : r \notin Using(u)
      /\ token' = [token EXCEPT ![r] = [task |-> t, prev |-> stack[t]]]
      /\ stack' = [stack EXCEPT ![t] = Append(@, r)]
      /\ step' = [step EXCEPT ![t] = At("enter", r)]
      /\ UNCHANGED <<jaxCtx, frames, addr, alive, context, error>>
  BY DEF EnterStack, Ready, Disciplined, InUse
<1>2. step'[t] = At("enter", r) /\ step'[t] # Idle
  BY <1>1 DEF IInv, TypeOK, At, Idle
<1>3. /\ Using(t)' = Using(t) \cup {r}
      /\ Using(t) = Entered(t)
      /\ \A u \in Tasks \ {t} : Using(u)' = Using(u)
  BY <1>1, <1>2 DEF IInv, TypeOK, Using, Entered, At
<1>4. Exclusive'
  BY <1>1, <1>3 DEF IInv, Exclusive
<1>5. IdsUnique'
  BY <1>1, <1>3 DEF IInv, IdsUnique
<1>6. ASSUME NEW u \in Tasks \ {t}
      PROVE  TaskInv(u)'
  <2>1. \A q \in Using(u) : q \in Results /\ q # r
    BY <1>1 DEF IInv, IdsUnique, TypeOK
  <2>2. \A q \in Using(u) : token'[q] = token[q] /\ context'[q] = context[q]
    BY <1>1, <2>1 DEF IInv, TypeOK
  <2>3. stack'[u] = stack[u] /\ step'[u] = step[u]
    BY <1>1 DEF IInv, TypeOK
  <2> QED
    BY <1>1, <2>2, <2>3, TaskUnaffected DEF IInv
<1>7. TaskInv(t)'
  <2>1. AtRest(t)
    BY <1>1 DEF IInv, TaskInv
  <2>2. \A i \in 1..Len(frames[t]) :
          /\ frames[t][i] # r
          /\ token'[frames[t][i]] = token[frames[t][i]]
    <3>1. \A i \in 1..Len(frames[t]) : frames[t][i] \in Using(t)
      BY DEF Using, Entered
    <3>2. \A q \in Using(t) : q \in Results /\ q # r
      BY <1>1 DEF IInv, IdsUnique, TypeOK
    <3> QED
      BY <1>1, <3>1, <3>2 DEF IInv, TypeOK
  <2>3. FrameTokens(t)'
    BY <1>1, <2>2 DEF IInv, TaskInv, FrameTokens, Below
  <2>4. FrameContexts(t)'
    <3>1. \A i \in 1..Len(frames[t]) :
            context[frames[t][i]] = [prev |-> Below(Ids(frames[t]), i)]
      BY <1>1 DEF IInv, TaskInv, FrameContexts, Idle
    <3>2. \A i \in 1..Len(frames[t]) :
            Below(Ids(frames[t]), i)' = Below(Ids(frames[t]), i)
      BY <1>1 DEF Below, Ids
    <3> QED
      BY <1>1, <3>1, <3>2 DEF FrameContexts
  <2>5. MidEnter(t)'
    <3>1. (step[t].obj)' = r
      BY <1>2 DEF At
    <3>2. token'[r] = [task |-> t, prev |-> frames[t]]
      BY <1>1, <2>1 DEF IInv, TypeOK, AtRest
    <3>3. stack'[t] = Append(frames[t], r)
      BY <1>1, <2>1 DEF IInv, TypeOK, AtRest
    <3> QED
      BY <1>1, <2>1, <2>2, <3>1, <3>2, <3>3
      DEF MidEnter, AtRest, Ids, Entered
  <2> QED
    BY <1>2, <2>3, <2>4, <2>5 DEF TaskInv, At, Idle
<1> QED
  BY <1>1, <1>4, <1>5, <1>6, <1>7 DEF IInv, ExitNeverRaises

LEMMA EnterJaxIInv ==
  ASSUME Disciplined, IInv, TypeOK', NEW t \in Tasks, EnterJax(t)
  PROVE  IInv'
<1> DEFINE h == ThreadOf[t]
           r == step[t].obj
           f == frames[t]
<1>1. /\ step[t].at = "enter"
      /\ context' = [context EXCEPT ![r] = [prev |-> jaxCtx[h]]]
      /\ jaxCtx' = [jaxCtx EXCEPT ![h] = Append(@, addr[r])]
      /\ frames' = [frames EXCEPT ![t] = Append(@, r)]
      /\ step' = [step EXCEPT ![t] = Idle]
      /\ UNCHANGED <<stack, addr, alive, token, error>>
  BY DEF EnterJax
<1>2. /\ r \in Results /\ r \in Using(t) /\ addr[r] \in Addrs
      /\ step[t] # Idle
  BY <1>1, HandlerObject, UsedHasId DEF IInv
<1>3. MidEnter(t)
  BY <1>1 DEF IInv, TaskInv
<1>4. /\ f \in Seq(Results) /\ Created(f) /\ h \in Threads
      /\ Len(f) \in Nat
  BY ScopeCreated, ContextAssumption, LenProperties DEF IInv
<1>5. /\ Append(f, r) \in Seq(Results)
      /\ Len(Append(f, r)) = Len(f) + 1
      /\ \A i \in 1..Len(f) : Append(f, r)[i] = f[i]
      /\ Append(f, r)[Len(f) + 1] = r
  BY <1>2, <1>4, AppendProperties
<1>6. /\ frames'[t] = Append(f, r)
      /\ step'[t] = Idle
      /\ jaxCtx'[h] = Append(Ids(f), addr[r])
      /\ \A u \in Tasks \ {t} : frames'[u] = frames[u] /\ step'[u] = step[u]
  BY <1>1, <1>3, <1>4 DEF IInv, TypeOK, MidEnter
<1> HIDE DEF h, r, f
<1>7. \A i \in 1..Len(f) : f[i] # r /\ f[i] \in Results
  BY <1>3, <1>4, ElementOfSeq DEF MidEnter, Entered, f, r
<1>8. Entered(t)' = Entered(t) \cup {r}
  <2>1. Entered(t)' = {Append(f, r)[i] : i \in 1..Len(f) + 1}
    BY <1>5, <1>6 DEF Entered
  <2>2. Entered(t) = {f[i] : i \in 1..Len(f)}
    BY DEF Entered, f
  <2>3. \A i \in 1..Len(f) + 1 : i \in 1..Len(f) \/ i = Len(f) + 1
    BY <1>4
  <2>4. Len(f) + 1 \in 1..Len(f) + 1
        /\ \A i \in 1..Len(f) : i \in 1..Len(f) + 1
    BY <1>4
  <2>5. ASSUME NEW x \in Entered(t)'
        PROVE  x \in Entered(t) \cup {r}
    BY <1>5, <2>1, <2>2, <2>3
  <2>6. ASSUME NEW x \in Entered(t) \cup {r}
        PROVE  x \in Entered(t)'
    BY <1>5, <2>1, <2>2, <2>4
  <2> QED
    BY <2>5, <2>6
<1>9. Using(t)' = Using(t)
  <2>1. Using(t) = Entered(t) \cup {r}
    BY <1>2 DEF Using, r
  <2>2. Using(t)' = Entered(t)'
    BY <1>6 DEF Using
  <2> QED
    BY <1>8, <2>1, <2>2
<1>10. \A u \in Tasks \ {t} : Using(u)' = Using(u)
  BY <1>6 DEF Using, Entered
<1>11. Exclusive'
  <2>1. \A i, j \in 1..Len(f) + 1 :
          Append(f, r)[i] = Append(f, r)[j] => i = j
    <3> SUFFICES ASSUME NEW i \in 1..Len(f) + 1, NEW j \in 1..Len(f) + 1,
                        Append(f, r)[i] = Append(f, r)[j]
                 PROVE  i = j
      OBVIOUS
    <3>1. \A k \in 1..Len(f) + 1 : k \in 1..Len(f) \/ k = Len(f) + 1
      BY <1>4
    <3>2. \A k, l \in 1..Len(f) : f[k] = f[l] => k = l
      BY DEF IInv, Exclusive, f
    <3> QED
      BY <1>5, <1>7, <3>1, <3>2
  <2>2. \A i, j \in 1..Len(frames'[t]) :
          frames'[t][i] = frames'[t][j] => i = j
    BY <1>5, <1>6, <2>1
  <2> QED
    BY <1>6, <1>9, <1>10, <2>2, ZenonT(60) DEF IInv, Exclusive
<1>12. IdsUnique'
  BY <1>1, <1>9, <1>10 DEF IInv, IdsUnique
<1>13. ASSUME NEW u \in Tasks \ {t}
       PROVE  TaskInv(u)'
  <2>1. \A q \in Using(u) : q \in Results /\ q # r
    BY <1>2 DEF IInv, IdsUnique, TypeOK, Exclusive
  <2>2. \A q \in Using(u) : token'[q] = token[q] /\ context'[q] = context[q]
    BY <1>1, <2>1 DEF IInv, TypeOK, r
  <2>3. ThreadOf[u] # h /\ ThreadOf[u] \in Threads
    BY ContextAssumption DEF Disciplined, h
  <2>4. jaxCtx'[ThreadOf[u]] = jaxCtx[ThreadOf[u]] /\ stack'[u] = stack[u]
    BY <1>1, <2>3 DEF IInv, TypeOK, h
  <2> QED
    BY <1>1, <1>6, <2>2, <2>4, TaskUnaffected DEF IInv
<1>14. TaskInv(t)'
  <2>1. Ids(Append(f, r)) = Append(Ids(f), addr[r])
    BY <1>2, <1>4, IdsAppend
  <2>2. Ids(frames[t])' = Append(Ids(f), addr[r])
    BY <1>1, <1>6, <2>1 DEF Ids
  <2>3. /\ Ids(f) \in Seq(Addrs) /\ Len(Ids(f)) = Len(f)
    BY <1>4, IdsType
  <2>4. /\ \A i \in 1..Len(f) : Below(Append(f, r), i) = Below(f, i)
        /\ Below(Append(f, r), Len(f) + 1) = f
    BY <1>2, <1>4, BelowAppend
  <2>5. /\ \A i \in 1..Len(f) :
             Below(Append(Ids(f), addr[r]), i) = Below(Ids(f), i)
        /\ Below(Append(Ids(f), addr[r]), Len(f) + 1) = Ids(f)
    BY <1>2, <2>3, BelowAppend
  <2>6. \A i \in 1..Len(f) + 1 : i \in 1..Len(f) \/ i = Len(f) + 1
    BY <1>4
  <2>7. FrameTokens(t)'
    <3> SUFFICES ASSUME NEW i \in 1..Len(f) + 1
                 PROVE  token[Append(f, r)[i]] =
                          [task |-> t, prev |-> Below(Append(f, r), i)]
      BY <1>1, <1>5, <1>6 DEF FrameTokens, Below
    <3>1. CASE i \in 1..Len(f)
      <4>1. token[f[i]] = [task |-> t, prev |-> Below(f, i)]
        BY <3>1 DEF IInv, TaskInv, FrameTokens, f
      <4> QED
        BY <1>5, <2>4, <3>1, <4>1
    <3>2. CASE i = Len(f) + 1
      <4>1. token[r] = [task |-> t, prev |-> f]
        BY <1>3 DEF MidEnter, f, r
      <4> QED
        BY <1>5, <2>4, <3>2, <4>1
    <3> QED
      BY <2>6, <3>1, <3>2
  <2>8. FrameContexts(t)'
    <3>1. \A i \in 1..Len(f) + 1 :
            context'[Append(f, r)[i]] =
              [prev |-> Below(Append(Ids(f), addr[r]), i)]
      <4> SUFFICES ASSUME NEW i \in 1..Len(f) + 1
                   PROVE  context'[Append(f, r)[i]] =
                            [prev |-> Below(Append(Ids(f), addr[r]), i)]
        OBVIOUS
      <4>1. CASE i \in 1..Len(f)
        <5>1. context[f[i]] = [prev |-> Below(Ids(f), i)]
          BY <1>1, <4>1 DEF IInv, TaskInv, FrameContexts, f
        <5>2. context'[f[i]] = context[f[i]]
          BY <1>1, <1>7, <4>1 DEF IInv, TypeOK, r
        <5> QED
          BY <1>5, <2>5, <4>1, <5>1, <5>2
      <4>2. CASE i = Len(f) + 1
        <5>1. context'[r] = [prev |-> Ids(f)]
          BY <1>1, <1>2, <1>3 DEF IInv, TypeOK, MidEnter, f, h, r
        <5> QED
          BY <1>5, <2>5, <4>2, <5>1
      <4> QED
        BY <2>6, <4>1, <4>2
    <3>2. \A i \in 1..Len(f) + 1 : Below(Ids(frames[t]), i)' =
                                     Below(Append(Ids(f), addr[r]), i)
      BY <2>2 DEF Below
    <3> QED
      BY <1>5, <1>6, <3>1, <3>2 DEF FrameContexts
  <2>9. AtRest(t)'
    BY <1>1, <1>3, <1>6, <2>2 DEF AtRest, MidEnter, f, h, r
  <2> QED
    BY <1>6, <2>7, <2>8, <2>9 DEF TaskInv, Idle
<1> QED
  BY <1>1, <1>11, <1>12, <1>13, <1>14 DEF IInv, ExitNeverRaises

LEMMA ExitJaxIInv ==
  ASSUME Disciplined, IInv, TypeOK', NEW t \in Tasks, ExitJax(t)
  PROVE  IInv'
<1> DEFINE h == ThreadOf[t]
           f == frames[t]
           n == Len(f)
           r == f[n]
<1>1. /\ step[t] = Idle /\ f # <<>>
      /\ UNCHANGED <<stack, addr, alive, token>>
  BY DEF ExitJax, Ready
<1>2. /\ f \in Seq(Results) /\ Created(f) /\ h \in Threads
      /\ n \in Nat /\ n >= 1 /\ n \in 1..n
      /\ r \in Results /\ r \in Using(t)
  BY <1>1, ScopeCreated, ContextAssumption, LastFrame DEF IInv, Using
<1>3. /\ Ids(f) \in Seq(Addrs) /\ Len(Ids(f)) = n
      /\ Ids(Pop(f)) = Below(Ids(f), n)
  BY <1>1, <1>2, IdsType, IdsPop
<1>4. context[r] = [prev |-> Below(Ids(f), n)]
  BY <1>1, <1>2 DEF IInv, TaskInv, FrameContexts, Idle
<1>5. Below(Ids(f), n) \in Seq(Addrs)
  BY <1>2, <1>3, BelowProperties
<1>6. context[r] # NoContext
  BY <1>4, <1>5, ContextAssumption
<1>7. /\ jaxCtx' = [jaxCtx EXCEPT ![h] = context[r].prev]
      /\ context' = [context EXCEPT ![r] = NoContext]
      /\ step' = [step EXCEPT ![t] = At("exit", r)]
      /\ UNCHANGED <<frames, error>>
  BY <1>6 DEF ExitJax
<1>8. /\ jaxCtx'[h] = Ids(Pop(f))
      /\ step'[t] = At("exit", r)
      /\ \A u \in Tasks \ {t} : step'[u] = step[u]
  BY <1>2, <1>3, <1>4, <1>7 DEF IInv, TypeOK
<1>9. step'[t].at = "exit" /\ step'[t].obj = r /\ step'[t] # Idle
  BY <1>8 DEF At, Idle
<1>10. \A u \in Tasks : Using(u)' = Using(u)
  <2>1. \A u \in Tasks \ {t} : Using(u)' = Using(u)
    BY <1>7, <1>8 DEF Using, Entered
  <2>2. r \in Entered(t)
    BY <1>2 DEF Entered
  <2>3. Using(t)' = Using(t)
    BY <1>1, <1>2, <1>7, <1>9, <2>2 DEF Using, Entered
  <2> QED
    BY <2>1, <2>3
<1> HIDE DEF h, f, n, r
<1>11. Exclusive'
  BY <1>7, <1>10 DEF IInv, Exclusive
<1>12. IdsUnique'
  BY <1>1, <1>10 DEF IInv, IdsUnique
<1>13. ASSUME NEW u \in Tasks \ {t}
       PROVE  TaskInv(u)'
  <2>1. \A q \in Using(u) : q \in Results /\ q # r
    BY <1>2 DEF IInv, IdsUnique, TypeOK, Exclusive
  <2>2. \A q \in Using(u) : token'[q] = token[q] /\ context'[q] = context[q]
    BY <1>1, <1>7, <2>1 DEF IInv, TypeOK
  <2>3. ThreadOf[u] # h /\ ThreadOf[u] \in Threads
    BY ContextAssumption DEF Disciplined, h
  <2>4. jaxCtx'[ThreadOf[u]] = jaxCtx[ThreadOf[u]] /\ stack'[u] = stack[u]
    BY <1>1, <1>7, <2>3 DEF IInv, TypeOK
  <2> QED
    BY <1>1, <1>7, <1>8, <2>2, <2>4, TaskUnaffected DEF IInv
<1>14. TaskInv(t)'
  <2>1. AtRest(t)
    BY <1>1 DEF IInv, TaskInv
  <2>2. FrameTokens(t)'
    BY <1>1, <1>7 DEF IInv, TaskInv, FrameTokens, Below
  <2>3. FrameContexts(t)'
    <3>1. \A i \in 1..n : i # n =>
            /\ context'[f[i]] = context[f[i]]
            /\ context[f[i]] = [prev |-> Below(Ids(f), i)]
      <4> SUFFICES ASSUME NEW i \in 1..n, i # n
                   PROVE  /\ context'[f[i]] = context[f[i]]
                          /\ context[f[i]] = [prev |-> Below(Ids(f), i)]
        OBVIOUS
      <4>1. f[i] # r /\ f[i] \in Results
        BY <1>2, ElementOfSeq DEF IInv, Exclusive, f, n, r
      <4>2. context[f[i]] = [prev |-> Below(Ids(f), i)]
        BY <1>1 DEF IInv, TaskInv, FrameContexts, f, n, Idle
      <4> QED
        BY <1>7, <4>1, <4>2 DEF IInv, TypeOK
    <3>2. \A i \in 1..n : Below(Ids(frames[t]), i)' = Below(Ids(f), i)
      BY <1>1, <1>7 DEF Below, Ids, f
    <3> QED
      BY <1>7, <1>9, <3>1, <3>2 DEF FrameContexts, f, n
  <2>4. MidExit(t)'
    <3>1. Ids(Pop(frames[t]))' = Ids(Pop(f))
      BY <1>1, <1>7 DEF Ids, Pop, f
    <3> QED
      BY <1>1, <1>7, <1>8, <1>9, <2>1, <3>1 DEF MidExit, AtRest, f, n, r, h
  <2> QED
    BY <1>9, <2>2, <2>3, <2>4 DEF TaskInv
<1> QED
  BY <1>7, <1>11, <1>12, <1>13, <1>14 DEF IInv, ExitNeverRaises

LEMMA ExitStackIInv ==
  ASSUME Disciplined, IInv, TypeOK', NEW t \in Tasks, ExitStack(t)
  PROVE  IInv'
<1> DEFINE f == frames[t]
           n == Len(f)
           r == step[t].obj
<1>1. step[t].at = "exit" /\ UNCHANGED <<jaxCtx, addr, alive, context>>
  BY DEF ExitStack
<1>2. MidExit(t)
  BY <1>1 DEF IInv, TaskInv
<1>3. /\ f \in Seq(Results) /\ Created(f) /\ f # <<>>
      /\ n \in Nat /\ n >= 1 /\ n \in 1..n
      /\ r = f[n] /\ r \in Results /\ r \in Using(t)
  BY <1>1, <1>2, ScopeCreated, LastFrame, HandlerObject DEF IInv, MidExit
<1>4. token[r] = [task |-> t, prev |-> Pop(f)]
  BY <1>3 DEF IInv, TaskInv, FrameTokens, Below, Pop
<1>5. /\ Pop(f) \in Seq(Results)
      /\ Len(Pop(f)) = n - 1
      /\ \A i \in 1..n - 1 : Pop(f)[i] = f[i]
  BY <1>3, PopProperties
<1>6. token[r] # NoToken /\ token[r].task = t /\ token[r].prev = Pop(f)
  BY <1>4, <1>5, ContextAssumption
<1>7. /\ stack' = [stack EXCEPT ![t] = Pop(f)]
      /\ token' = [token EXCEPT ![r] = NoToken]
      /\ frames' = [frames EXCEPT ![t] = Pop(@)]
      /\ step' = [step EXCEPT ![t] = Idle]
      /\ error' = error
  BY <1>6 DEF ExitStack, Leave
<1>8. /\ stack'[t] = Pop(f) /\ frames'[t] = Pop(f) /\ step'[t] = Idle
      /\ \A u \in Tasks \ {t} : /\ stack'[u] = stack[u]
                               /\ frames'[u] = frames[u]
                               /\ step'[u] = step[u]
  BY <1>7 DEF IInv, TypeOK
<1> HIDE DEF f, n, r
<1>9. \A i \in 1..n - 1 : i \in 1..n /\ i # n
  BY <1>3
<1>10. \A u \in Tasks \ {t} : Using(u)' = Using(u)
  BY <1>8 DEF Using, Entered
<1>11. Using(t)' \subseteq Using(t)
  <2>1. Using(t)' = {Pop(f)[i] : i \in 1..n - 1}
    BY <1>5, <1>8 DEF Using, Entered
  <2>2. Entered(t) = {f[i] : i \in 1..n}
    BY DEF Entered, f, n
  <2> QED
    BY <1>5, <1>9, <2>1, <2>2 DEF Using
<1>12. Exclusive'
  <2>1. \A i, j \in 1..n - 1 : Pop(f)[i] = Pop(f)[j] => i = j
    BY <1>5, <1>9 DEF IInv, Exclusive, f, n
  <2>2. \A i, j \in 1..Len(frames'[t]) :
          frames'[t][i] = frames'[t][j] => i = j
    BY <1>5, <1>8, <2>1
  <2> QED
    BY <1>8, <1>10, <1>11, <2>2 DEF IInv, Exclusive
<1>13. IdsUnique'
  BY <1>1, <1>10, <1>11 DEF IInv, IdsUnique
<1>14. ASSUME NEW u \in Tasks \ {t}
       PROVE  TaskInv(u)'
  <2>1. \A q \in Using(u) : q \in Results /\ q # r
    BY <1>3 DEF IInv, IdsUnique, TypeOK, Exclusive
  <2>2. \A q \in Using(u) : token'[q] = token[q] /\ context'[q] = context[q]
    BY <1>1, <1>7, <2>1 DEF IInv, TypeOK
  <2> QED
    BY <1>1, <1>8, <2>2, TaskUnaffected DEF IInv
<1>15. TaskInv(t)'
  <2>1. Ids(Pop(f)) = Below(Ids(f), n) /\ Ids(f) \in Seq(Addrs)
        /\ Len(Ids(f)) = n
    BY <1>3, IdsPop, IdsType DEF n
  <2>2. Ids(Pop(f)) = Pop(Ids(f)) /\ Ids(f) # <<>>
    BY <1>3, <2>1, EmptySeq DEF Pop, Below
  <2>3. \A i \in 1..n - 1 : /\ Below(Pop(f), i) = Below(f, i)
                            /\ Below(Ids(Pop(f)), i) = Below(Ids(f), i)
    BY <1>3, <2>1, <2>2, BelowPop DEF n
  <2>4. FrameTokens(t)'
    <3>1. \A i \in 1..n - 1 :
            token'[Pop(f)[i]] = [task |-> t, prev |-> Below(Pop(f), i)]
      <4> SUFFICES ASSUME NEW i \in 1..n - 1
                   PROVE  token'[Pop(f)[i]] =
                            [task |-> t, prev |-> Below(Pop(f), i)]
        OBVIOUS
      <4>1. f[i] # r /\ f[i] \in Results
        BY <1>3, <1>9, ElementOfSeq DEF IInv, Exclusive, f, n
      <4>2. token[f[i]] = [task |-> t, prev |-> Below(f, i)]
        BY <1>9 DEF IInv, TaskInv, FrameTokens, f, n
      <4>3. token'[f[i]] = token[f[i]]
        BY <1>7, <4>1 DEF IInv, TypeOK
      <4> QED
        BY <1>5, <2>3, <4>2, <4>3
    <3> QED
      BY <1>5, <1>8, <3>1 DEF FrameTokens, Below
  <2>5. Ids(frames[t])' = Ids(Pop(f))
    BY <1>1, <1>8 DEF Ids
  <2>6. FrameContexts(t)'
    <3>1. \A i \in 1..n - 1 :
            context[Pop(f)[i]] = [prev |-> Below(Ids(Pop(f)), i)]
      BY <1>5, <1>9, <2>3 DEF IInv, TaskInv, FrameContexts, f, n
    <3>2. \A i \in 1..n - 1 :
            Below(Ids(frames[t]), i)' = Below(Ids(Pop(f)), i)
      BY <2>5 DEF Below
    <3> QED
      BY <1>1, <1>5, <1>8, <3>1, <3>2 DEF FrameContexts
  <2>7. AtRest(t)'
    BY <1>1, <1>2, <1>8, <2>5 DEF AtRest, MidExit, f
  <2> QED
    BY <1>8, <2>4, <2>6, <2>7 DEF TaskInv, Idle
<1> QED
  BY <1>7, <1>12, <1>13, <1>14, <1>15 DEF IInv, ExitNeverRaises

-----------------------------------------------------------------------------
\* Every step keeps the invariant.
LEMMA NextIInv ==
  ASSUME Disciplined, IInv, [Next]_vars
  PROVE  IInv'
<1>1. TypeOK'
  BY TypeStep DEF IInv
<1>2. ASSUME NEW r \in Results, Free(r) \/ \E a \in Addrs : Create(r, a)
      PROVE  IInv'
  BY <1>1, <1>2, FreeIInv, CreateIInv
<1>3. ASSUME NEW t \in Tasks, Manage(t)
      PROVE  IInv'
  BY <1>1, <1>3, EnterStackIInv, EnterJaxIInv, ExitJaxIInv, ExitStackIInv
  DEF Manage
<1>4. ASSUME NEW t \in Tasks, NEW c \in Calls, NEW opt \in OptionsUsed,
             Call(t, c, opt)
      PROVE  IInv'
  BY <1>1, <1>4, ManagersUnchanged DEF Call, EagerCall, JitHit, JitTrace
<1>5. ASSUME NEW c \in Calls, Autotune(c)
      PROVE  IInv'
  BY <1>1, <1>5, ManagersUnchanged DEF Autotune
<1>6. CASE UNCHANGED vars
  BY <1>1, <1>6, ManagersUnchanged DEF vars
<1> QED
  BY <1>2, <1>3, <1>4, <1>5, <1>6 DEF Next

\* The inductive invariant: what an open with-block has saved of the stack and
\* of the ids is what was there when it was entered (api.py:173-189).
THEOREM Invariance == ASSUME Disciplined PROVE Spec => []IInv
<1>1. Init => IInv
  BY InitIInv
<1>2. IInv /\ [Next]_vars => IInv'
  BY NextIInv
<1> QED
  BY <1>1, <1>2, PTL DEF Spec

\* In a disciplined program every variable keeps its type.
THEOREM TypeCorrect == ASSUME Disciplined PROVE Spec => []TypeOK
<1>1. IInv => TypeOK
  BY DEF IInv
<1> QED
  BY <1>1, Invariance, PTL

\* In a disciplined program the overlays a task sees and the ids it traces
\* under are always those of its open with-blocks (api.py:173-189).
THEOREM Coherence == ASSUME Disciplined PROVE Spec => []Coherent
<1>1. IInv => Coherent
  BY DEF IInv, TaskInv, Coherent
<1> QED
  BY <1>1, Invariance, PTL

\* In a disciplined program no __exit__ raises (api.py:185-189).
THEOREM ExitsNeverRaise == ASSUME Disciplined PROVE Spec => []ExitNeverRaises
<1>1. IInv => ExitNeverRaises
  BY DEF IInv
<1> QED
  BY <1>1, Invariance, PTL

-----------------------------------------------------------------------------
\* What calls answer: the jit cache is faithful, calls follow their scope, and
\* AutotuningContext implements OverlayScope.

\* The cache holds one of the entries it has held.
CacheKnown == \A c \in Calls : cache[c] \in history[c]

\* The invariant behind the theorems about answers.
CallInv == IInv /\ CacheKnown /\ TracesFaithful /\ CallsFollowScope

-----------------------------------------------------------------------------
\* Answers.

\* Where a task may call, it sees and traces under its with-blocks.
LEMMA ReadyAtRest ==
  ASSUME IInv, NEW t \in Tasks, Ready(t)
  PROVE  /\ stack[t] = frames[t]
         /\ jaxCtx[ThreadOf[t]] = Ids(frames[t])
         /\ frames[t] \in Seq(Results)
         /\ Created(frames[t])
  BY ScopeCreated DEF IInv, TaskInv, AtRest, Ready

\* The innermost position of a set is its greatest element.
LEMMA InnermostIs ==
  ASSUME NEW n \in Nat, NEW I, I \subseteq 1..n,
         NEW i \in I, \A j \in I : j =< i
  PROVE  Innermost(I) = i
<1>1. Innermost(I) \in I /\ \A j \in I : j =< Innermost(I)
  BY InnermostExists
<1>2. \A m \in I : (\A j \in I : j =< m) => m = i
  OBVIOUS
<1> QED
  BY <1>1, <1>2

\* The innermost result that knows the call decides.
LEMMA InnermostDecides ==
  ASSUME NEW s \in Seq(Results), NEW c, NEW opt, ~opt.ignore,
         NEW stored, NEW tuned,
         NEW i \in Holders(s, c), \A j \in Holders(s, c) : j =< i
  PROVE  LET entry == Data[s[i]][c]
             out == Resolve(CachedData(s, stored, c, opt), opt, tuned) IN
         /\ entry \in Configs => out = entry
         /\ entry = AllFailed => out = Raised
<1>1. Len(s) \in Nat /\ Holders(s, c) \subseteq 1..Len(s)
  BY LenProperties DEF Holders
<1>2. Innermost(Holders(s, c)) = i
  BY <1>1, InnermostIs
<1>3. CachedData(s, stored, c, opt) = Data[s[i]][c]
  BY <1>2 DEF CachedData
<1> QED
  BY <1>3, ConstantsAssumption DEF Resolve, Missing, FastestConfig

\* An answer from the scope of the task and some state of the cache follows the
\* scope.
LEMMA AnswerFollows ==
  ASSUME IInv, NEW t \in Tasks, NEW c \in Calls, NEW opt \in OptionsUsed,
         NEW jit \in BOOLEAN, NEW out, Ready(t),
         Answer(t, c, opt, jit, out), frames' = frames,
         NEW stored \in history'[c], NEW tuned \in TuningResults,
         out = Resolve(CachedData(frames[t], stored, c, opt), opt, tuned)
  PROVE  CallsFollowScope'
<1> DEFINE s == frames[t]
<1>1. s \in Seq(Results)
  BY ReadyAtRest
<1>2. /\ reply'.task = t /\ reply'.call = c /\ reply'.opt = opt
      /\ reply'.out = out
  BY DEF Answer
<1>3. out \in {Resolve(CachedData(s, st, c, opt), opt, tu) :
                 st \in history'[c], tu \in TuningResults}
  OBVIOUS
<1> DEFINE known == {i \in 1..Len(s) : Data[s[i]][c] # NoData}
<1>4. ASSUME NEW i \in known, ~opt.ignore, \A j \in known : j =< i
      PROVE  /\ Data[s[i]][c] \in Configs => out = Data[s[i]][c]
             /\ Data[s[i]][c] = AllFailed => out = Raised
  <2>1. Holders(s, c) = known
    BY DEF Holders
  <2> HIDE DEF known, s
  <2>2. i \in Holders(s, c) /\ \A j \in Holders(s, c) : j =< i
    BY <1>4, <2>1
  <2> QED
    BY <1>1, <1>4, <2>2, InnermostDecides DEF s
<1> QED
  BY <1>2, <1>3, <1>4 DEF CallsFollowScope, Allowed

\* A call that looks its config up follows the scope.
LEMMA LookupFollows ==
  ASSUME IInv, CacheKnown, NEW t \in Tasks, NEW c \in Calls,
         NEW opt \in OptionsUsed, NEW jit \in BOOLEAN,
         NEW tuned \in TuningResults, Ready(t), frames' = frames,
         Lookup(t, c, opt, jit, CachedData(stack[t], cache[c], c, opt), tuned)
  PROVE  CallsFollowScope'
<1>1. stack[t] = frames[t]
  BY ReadyAtRest
<1>2. cache[c] \in history'[c]
  <2>1. CASE UNCHANGED <<cache, history>>
    BY <2>1 DEF CacheKnown
  <2>2. CASE Store(c, tuned)
    BY <2>2, ConstantsAssumption DEF Store, CacheKnown, IInv, TypeOK
  <2> QED
    BY <2>1, <2>2 DEF Lookup
<1> QED
  BY <1>1, <1>2, AnswerFollows DEF Lookup

-----------------------------------------------------------------------------
\* The jit cache.

\* The ids of a trace belong to one scope.
LEMMA ScopeOfIds ==
  ASSUME IdsUnique, NEW s \in Seq(Results), Created(s), NEW n,
         NEW q \in [1..n -> Results], n = Len(Ids(s)), Ids(s) = Ids(q)
  PROVE  q = s
<1>1. /\ Len(s) \in Nat /\ n = Len(s)
      /\ \A i \in 1..n : Ids(s)[i] = addr[s[i]]
  BY IdsType, LenProperties
<1>2. Len(q) = n /\ q \in Seq(Results)
  BY <1>1
<1>3. \A i \in 1..n : Ids(q)[i] = addr[q[i]]
  BY <1>2 DEF Ids
<1>4. \A i \in 1..n : addr[q[i]] = addr[s[i]] /\ addr[s[i]] \in Addrs
  BY <1>1, <1>3 DEF Created
<1>5. \A i \in 1..n : q[i] = s[i]
  BY <1>1, <1>4, ContextAssumption, ElementOfSeq DEF IdsUnique
<1> QED
  BY <1>1, <1>2, <1>5

\* A trace a task finds has a config its own scope allows.
LEMMA HitAllowed ==
  ASSUME IInv, TracesFaithful, NEW t \in Tasks, NEW c \in Calls,
         NEW opt \in OptionsUsed, Ready(t),
         TraceKey(t, c, opt) \in DOMAIN traces
  PROVE  \E stored \in history[c], tuned \in TuningResults :
           traces[TraceKey(t, c, opt)]
             = Resolve(CachedData(frames[t], stored, c, opt), opt, tuned)
<1> DEFINE k == TraceKey(t, c, opt)
<1>1. /\ frames[t] \in Seq(Results) /\ Created(frames[t])
      /\ k.ids = Ids(frames[t]) /\ k.call = c /\ k.opt = opt
  BY ReadyAtRest DEF TraceKey
<1>2. PICK q \in [1..Len(k.ids) -> Results] :
        k.ids = Ids(q) /\ traces[k] \in Allowed(q, k.call, k.opt)
  BY DEF TracesFaithful
<1>3. q = frames[t]
  BY <1>1, <1>2, ScopeOfIds DEF IInv
<1> QED
  BY <1>1, <1>2, <1>3 DEF Allowed

\* What a step must leave alone to keep the traces faithful: ids that were
\* given, and what the cache has held.
Kept ==
  /\ \A r \in Results : addr[r] # NoAddr => addr'[r] = addr[r]
  /\ \A c \in Calls : history[c] \subseteq history'[c]

\* The scope a trace was made in still allows its config.
LEMMA ScopeKept ==
  ASSUME Kept, NEW k \in TraceKeys, NEW out,
         \E q \in [1..Len(k.ids) -> Results] :
           k.ids = Ids(q) /\ out \in Allowed(q, k.call, k.opt)
  PROVE  \E q \in [1..Len(k.ids) -> Results] :
           k.ids = Ids(q)' /\ out \in Allowed(q, k.call, k.opt)'
<1>1. PICK q \in [1..Len(k.ids) -> Results] :
        k.ids = Ids(q) /\ out \in Allowed(q, k.call, k.opt)
  OBVIOUS
<1>2. k.ids \in Seq(Addrs) /\ Len(k.ids) \in Nat /\ k.call \in Calls
  BY LenProperties DEF TraceKeys
<1>3. Len(q) = Len(k.ids)
  BY <1>2
<1>4. \A i \in 1..Len(q) : addr[q[i]] = k.ids[i]
  BY <1>1, <1>3 DEF Ids
<1>5. \A i \in 1..Len(q) : addr[q[i]] # NoAddr
  BY <1>2, <1>3, <1>4, ContextAssumption, ElementOfSeq
<1>6. \A i \in 1..Len(q) : addr'[q[i]] = addr[q[i]]
  BY <1>3, <1>5 DEF Kept
<1>7. Ids(q)' = Ids(q)
  BY <1>6 DEF Ids
<1>8. history[k.call] \subseteq history'[k.call]
  BY <1>2 DEF Kept
<1>9. out \in Allowed(q, k.call, k.opt)'
  BY <1>1, <1>8 DEF Allowed
<1> QED
  BY <1>1, <1>7, <1>9

LEMMA TracesKept ==
  ASSUME TypeOK, TracesFaithful, Kept, traces' = traces
  PROVE  TracesFaithful'
<1>1. ASSUME NEW k \in DOMAIN traces
      PROVE  \E q \in [1..Len(k.ids) -> Results] :
               k.ids = Ids(q)' /\ traces[k] \in Allowed(q, k.call, k.opt)'
  <2>1. k \in TraceKeys
    BY DEF TypeOK
  <2> QED
    BY <2>1, ScopeKept DEF TracesFaithful
<1> QED
  BY <1>1 DEF TracesFaithful

\* A lookup gives no id and forgets no entry.
LEMMA StoreKept ==
  ASSUME TypeOK, CacheKnown, NEW c \in Calls, NEW tuned \in TuningResults,
         addr' = addr, Store(c, tuned) \/ UNCHANGED <<cache, history>>
  PROVE  Kept /\ CacheKnown'
<1>1. CASE Store(c, tuned)
  <2>1. StoredAt(c) \in Calls
    BY ConstantsAssumption DEF StoredAt, Calls
  <2>2. /\ cache' = [cache EXCEPT ![StoredAt(c)] = tuned]
        /\ history' = [history EXCEPT ![StoredAt(c)] = @ \cup {tuned}]
    BY <1>1 DEF Store, Stored
  <2>3. ASSUME NEW d \in Calls
        PROVE  history[d] \subseteq history'[d] /\ cache'[d] \in history'[d]
    BY <2>1, <2>2, <2>3 DEF TypeOK, CacheKnown
  <2> QED
    BY <2>3 DEF Kept, CacheKnown
<1>2. CASE UNCHANGED <<cache, history>>
  BY <1>2 DEF Kept, CacheKnown
<1> QED
  BY <1>1, <1>2

-----------------------------------------------------------------------------
\* The invariant.

LEMMA InitCallInv == ASSUME Init PROVE CallInv
<1>1. IInv
  BY InitIInv
<1>2. CacheKnown /\ TracesFaithful /\ CallsFollowScope
  BY DEF Init, CacheKnown, TracesFaithful, CallsFollowScope
<1> QED
  BY <1>1, <1>2 DEF CallInv

\* A step that is no call, and changes neither the cache nor the traces.
LEMMA OtherStep ==
  ASSUME CallInv, IInv', Kept,
         reply' = NoReply \/ UNCHANGED <<reply, frames>>,
         UNCHANGED lookups
  PROVE  CallInv'
<1>1. CacheKnown'
  BY DEF CallInv, CacheKnown, lookups
<1>2. TracesFaithful'
  BY TracesKept DEF CallInv, IInv, lookups
<1>3. CallsFollowScope'
  BY DEF CallInv, CallsFollowScope, Allowed, lookups
<1> QED
  BY <1>1, <1>2, <1>3 DEF CallInv

LEMMA EagerCallInv ==
  ASSUME CallInv, IInv', NEW t \in Tasks, NEW c \in Calls,
         NEW opt \in OptionsUsed, EagerCall(t, c, opt)
  PROVE  CallInv'
<1>1. PICK tuned \in TuningResults :
        Lookup(t, c, opt, FALSE, CachedData(stack[t], cache[c], c, opt), tuned)
  BY DEF EagerCall
<1>2. Ready(t) /\ frames' = frames /\ addr' = addr /\ traces' = traces
  BY DEF EagerCall, managers
<1>3. Store(c, tuned) \/ UNCHANGED <<cache, history>>
  BY <1>1 DEF Lookup
<1>4. Kept /\ CacheKnown'
  BY <1>2, <1>3, StoreKept DEF CallInv, IInv
<1>5. TracesFaithful'
  BY <1>2, <1>4, TracesKept DEF CallInv, IInv
<1>6. CallsFollowScope'
  BY <1>1, <1>2, LookupFollows DEF CallInv
<1> QED
  BY <1>4, <1>5, <1>6 DEF CallInv

LEMMA JitHitInv ==
  ASSUME CallInv, IInv', NEW t \in Tasks, NEW c \in Calls,
         NEW opt \in OptionsUsed, JitHit(t, c, opt)
  PROVE  CallInv'
<1>1. /\ Ready(t) /\ frames' = frames /\ addr' = addr
      /\ UNCHANGED <<cache, history, traces>>
      /\ TraceKey(t, c, opt) \in DOMAIN traces
      /\ Answer(t, c, opt, TRUE, traces[TraceKey(t, c, opt)])
  BY DEF JitHit, managers, lookups
<1>2. Kept
  BY <1>1 DEF Kept
<1>3. TracesFaithful' /\ CacheKnown'
  BY <1>1, <1>2, TracesKept DEF CallInv, IInv, CacheKnown
<1>4. PICK stored \in history[c], tuned \in TuningResults :
        traces[TraceKey(t, c, opt)]
          = Resolve(CachedData(frames[t], stored, c, opt), opt, tuned)
  BY <1>1, HitAllowed DEF CallInv
<1>5. CallsFollowScope'
  BY <1>1, <1>4, AnswerFollows DEF CallInv
<1> QED
  BY <1>3, <1>5 DEF CallInv

LEMMA JitTraceInv ==
  ASSUME CallInv, IInv', NEW t \in Tasks, NEW c \in Calls,
         NEW opt \in OptionsUsed, JitTrace(t, c, opt)
  PROVE  CallInv'
<1> DEFINE k == TraceKey(t, c, opt)
           data == CachedData(stack[t], cache[c], c, opt)
<1>1. PICK tuned \in TuningResults :
        LET out == Resolve(data, opt, tuned) IN
        /\ Lookup(t, c, opt, TRUE, data, tuned)
        /\ traces' = IF out = Raised THEN traces
                     ELSE [x \in DOMAIN traces \cup {k} |->
                             IF x = k THEN out ELSE traces[x]]
  BY DEF JitTrace
<1> DEFINE out == Resolve(data, opt, tuned)
<1>2. Ready(t) /\ frames' = frames /\ addr' = addr
  BY DEF JitTrace, managers
<1>3. Store(c, tuned) \/ UNCHANGED <<cache, history>>
  BY <1>1 DEF Lookup
<1>4. Kept /\ CacheKnown'
  BY <1>2, <1>3, StoreKept DEF CallInv, IInv
<1>5. CallsFollowScope'
  BY <1>1, <1>2, LookupFollows DEF CallInv
<1>6. /\ stack[t] = frames[t] /\ frames[t] \in Seq(Results)
      /\ Created(frames[t]) /\ k.ids = Ids(frames[t])
      /\ k.call = c /\ k.opt = opt
  BY <1>2, ReadyAtRest DEF TraceKey, CallInv
<1>7. k \in TraceKeys
  BY ContextAssumption DEF CallInv, IInv, TypeOK, TraceKey, TraceKeys
<1>8. frames[t] \in [1..Len(k.ids) -> Results]
  BY <1>6, IdsType
<1>9. out \in Allowed(frames[t], k.call, k.opt)
  BY <1>6 DEF Allowed, CallInv, CacheKnown
<1> HIDE DEF k, data, out
<1>10. \A x \in DOMAIN traces' :
         /\ x \in TraceKeys
         /\ \/ x \in DOMAIN traces /\ traces'[x] = traces[x]
            \/ x = k /\ traces'[x] = out
  BY <1>1, <1>7 DEF CallInv, IInv, TypeOK, out
<1>11. TracesFaithful'
  <2>1. ASSUME NEW x \in DOMAIN traces'
        PROVE  \E q \in [1..Len(x.ids) -> Results] :
                 x.ids = Ids(q)' /\ traces'[x] \in Allowed(q, x.call, x.opt)'
    <3>1. /\ x \in TraceKeys
          /\ \/ x \in DOMAIN traces /\ traces'[x] = traces[x]
             \/ x = k /\ traces'[x] = out
      BY <1>10
    <3>2. PICK o : o = traces'[x]
      OBVIOUS
    <3>3. \E q \in [1..Len(x.ids) -> Results] :
            x.ids = Ids(q) /\ o \in Allowed(q, x.call, x.opt)
      BY <1>6, <1>8, <1>9, <3>1, <3>2 DEF CallInv, TracesFaithful
    <3>4. \E q \in [1..Len(x.ids) -> Results] :
            x.ids = Ids(q)' /\ o \in Allowed(q, x.call, x.opt)'
      BY <1>4, <3>1, <3>3, ScopeKept
    <3> QED
      BY <3>2, <3>4
  <2> QED
    BY <2>1 DEF TracesFaithful
<1> QED
  BY <1>4, <1>5, <1>11 DEF CallInv

LEMMA AutotuneInv ==
  ASSUME CallInv, IInv', NEW c \in Calls, Autotune(c)
  PROVE  CallInv'
<1>1. PICK tuned \in TuningResults : Store(c, tuned)
  BY DEF Autotune
<1>2. addr' = addr /\ traces' = traces /\ reply' = NoReply
  BY DEF Autotune, managers
<1>3. Kept /\ CacheKnown'
  BY <1>1, <1>2, StoreKept DEF CallInv, IInv
<1>4. TracesFaithful'
  BY <1>2, <1>3, TracesKept DEF CallInv, IInv
<1> QED
  BY <1>2, <1>3, <1>4 DEF CallInv, CallsFollowScope

LEMMA NextCallInv ==
  ASSUME Disciplined, CallInv, [Next]_vars
  PROVE  CallInv'
<1>1. IInv'
  BY NextIInv DEF CallInv
<1>2. ASSUME NEW r \in Results, Free(r) \/ \E a \in Addrs : Create(r, a)
      PROVE  CallInv'
  <2>1. Kept
    BY <1>2 DEF Free, Create, Kept, lookups, CallInv, IInv, TypeOK
  <2> QED
    BY <1>1, <1>2, <2>1, OtherStep DEF Free, Create
<1>3. ASSUME NEW t \in Tasks, Manage(t)
      PROVE  CallInv'
  <2>1. addr' = addr /\ UNCHANGED lookups /\ reply' = NoReply
    BY <1>3 DEF Manage, EnterStack, EnterJax, ExitJax, ExitStack
  <2>2. Kept
    BY <2>1 DEF Kept, lookups
  <2> QED
    BY <1>1, <2>1, <2>2, OtherStep
<1>4. ASSUME NEW t \in Tasks, NEW c \in Calls, NEW opt \in OptionsUsed,
             Call(t, c, opt)
      PROVE  CallInv'
  BY <1>1, <1>4, EagerCallInv, JitHitInv, JitTraceInv DEF Call
<1>5. ASSUME NEW c \in Calls, Autotune(c)
      PROVE  CallInv'
  BY <1>1, <1>5, AutotuneInv
<1>6. CASE UNCHANGED vars
  <2>1. Kept
    BY <1>6 DEF Kept, vars, managers, lookups
  <2> QED
    BY <1>1, <1>6, <2>1, OtherStep DEF vars, managers
<1> QED
  BY <1>2, <1>3, <1>4, <1>5, <1>6 DEF Next

\* The invariant of the calls: every trace is faithful and every answer follows
\* its scope (op.py:468-570).
THEOREM CallInvariance == ASSUME Disciplined PROVE Spec => []CallInv
<1>1. Init => CallInv
  BY InitCallInv
<1>2. CallInv /\ [Next]_vars => CallInv'
  BY NextCallInv
<1> QED
  BY <1>1, <1>2, PTL DEF Spec

\* In a disciplined program every trace is filed under the ids of a scope that
\* allows its config (api.py:180-182).
THEOREM TracesStayFaithful ==
  ASSUME Disciplined PROVE Spec => []TracesFaithful
<1>1. CallInv => TracesFaithful
  BY DEF CallInv
<1> QED
  BY <1>1, CallInvariance, PTL

\* In a disciplined program every call, eager or jitted, answers as its own
\* scope says (api.py:111-116).
THEOREM CallsAlwaysFollowScope ==
  ASSUME Disciplined PROVE Spec => []CallsFollowScope
<1>1. CallInv => CallsFollowScope
  BY DEF CallInv
<1> QED
  BY <1>1, CallInvariance, PTL

-----------------------------------------------------------------------------
\* The refinement of OverlayScope.

\* Both modules resolve a call in the same way.
LEMMA SameResolution ==
  /\ Scope!Calls = Calls /\ Scope!TuningResults = TuningResults
  /\ \A s, stored, c, opt :
       Scope!CachedData(s, stored, c, opt) = CachedData(s, stored, c, opt)
  /\ \A data, opt : Scope!Autotunes(data, opt) = Autotunes(data, opt)
  /\ \A data, opt, tuned :
       Scope!Resolve(data, opt, tuned) = Resolve(data, opt, tuned)
  BY DEF Scope!Calls, Calls, Scope!TuningResults, TuningResults,
     Scope!CachedData, CachedData, Scope!Holders, Holders,
     Scope!Innermost, Innermost, Scope!Autotunes, Autotunes,
     Scope!Missing, Missing, Scope!Resolve, Resolve,
     Scope!FastestConfig, FastestConfig

LEMMA SameStore ==
  ASSUME NEW c, NEW tuned, Store(c, tuned)
  PROVE  Scope!Store(c, tuned)
  BY DEF Store, Stored, StoredAt, Scope!Store, Scope!Stored, Scope!StoredAt

LEMMA InitImplements == ASSUME Init PROVE Scope!Init
  BY SameResolution DEF Init, Scope!Init

\* Entering and leaving a with-block: the scope changes at the end of the
\* handler.
LEMMA ManageImplements ==
  ASSUME IInv, NEW t \in Tasks, Manage(t)
  PROVE  Scope!Next
<1>1. CASE \E r \in Results : EnterStack(t, r)
  <2>1. Scope!Forget
    BY <1>1 DEF EnterStack, Scope!Forget, lookups
  <2> QED
    BY <2>1 DEF Scope!Next
<1>2. CASE EnterJax(t)
  <2>1. step[t].obj \in Results
    BY <1>2, HandlerObject DEF EnterJax, IInv
  <2>2. Scope!Open(t, step[t].obj)
    BY <1>2 DEF EnterJax, Scope!Open, lookups
  <2> QED
    BY <2>1, <2>2 DEF Scope!Next
<1>3. CASE ExitJax(t)
  <2>1. Scope!Forget \/ Scope!Close(t)
    BY <1>3 DEF ExitJax, Leave, Pop, Scope!Forget, Scope!Close, lookups
  <2> QED
    BY <2>1 DEF Scope!Next
<1>4. CASE ExitStack(t)
  <2>1. frames[t] # <<>>
    BY <1>4 DEF ExitStack, IInv, TaskInv, MidExit
  <2>2. Scope!Close(t)
    BY <1>4, <2>1 DEF ExitStack, Leave, Pop, Scope!Close, lookups
  <2> QED
    BY <2>2 DEF Scope!Next
<1> QED
  BY <1>1, <1>2, <1>3, <1>4 DEF Manage

\* A call answers from its scope: from the cache as it is now, or from what the
\* cache was when it was traced.
LEMMA CallImplements ==
  ASSUME CallInv, NEW t \in Tasks, NEW c \in Calls,
         NEW opt \in OptionsUsed, Call(t, c, opt)
  PROVE  Scope!Next
<1> DEFINE data == CachedData(frames[t], cache[c], c, opt)
<1>1. ASSUME NEW jit \in BOOLEAN, NEW tuned \in TuningResults, Ready(t),
             Lookup(t, c, opt, jit, CachedData(stack[t], cache[c], c, opt),
                    tuned)
      PROVE  /\ Scope!Answer(t, c, opt, jit, data, tuned)
             /\ IF Scope!Autotunes(data, opt) /\ ~opt.ignore
                  THEN Scope!Store(c, tuned)
                  ELSE UNCHANGED <<cache, history>>
  <2>1. Lookup(t, c, opt, jit, data, tuned)
    BY <1>1, ReadyAtRest DEF CallInv
  <2>2. Scope!Answer(t, c, opt, jit, data, tuned)
    BY <2>1, SameResolution DEF Lookup, Answer, Scope!Answer
  <2> QED
    BY <2>1, <2>2, SameResolution, SameStore DEF Lookup
<1>2. Scope!CachedData(frames[t], cache[c], c, opt) = data
  BY SameResolution
<1>3. CASE EagerCall(t, c, opt)
  <2>1. Ready(t) /\ frames' = frames
    BY <1>3 DEF EagerCall, managers
  <2>2. PICK tuned \in TuningResults :
          Lookup(t, c, opt, FALSE, CachedData(stack[t], cache[c], c, opt),
                 tuned)
    BY <1>3 DEF EagerCall
  <2>3. Scope!EagerCall(t, c, opt)
    BY <1>1, <1>2, <2>1, <2>2, SameResolution DEF Scope!EagerCall
  <2> QED
    BY <2>3, SameResolution DEF Scope!Next
<1>4. CASE JitHit(t, c, opt)
  <2>1. /\ Ready(t) /\ frames' = frames /\ UNCHANGED <<cache, history>>
        /\ TraceKey(t, c, opt) \in DOMAIN traces
        /\ Answer(t, c, opt, TRUE, traces[TraceKey(t, c, opt)])
    BY <1>4 DEF JitHit, managers, lookups
  <2>2. PICK stored \in history[c], tuned \in TuningResults :
          traces[TraceKey(t, c, opt)]
            = Resolve(CachedData(frames[t], stored, c, opt), opt, tuned)
    BY <2>1, HitAllowed DEF CallInv
  <2>3. Scope!Answer(t, c, opt, TRUE,
                     Scope!CachedData(frames[t], stored, c, opt), tuned)
    BY <2>1, <2>2, SameResolution DEF Answer, Scope!Answer
  <2>4. Scope!JitCall(t, c, opt)
    BY <2>1, <2>2, <2>3, SameResolution DEF Scope!JitCall
  <2> QED
    BY <2>4, SameResolution DEF Scope!Next
<1>5. CASE JitTrace(t, c, opt)
  <2>1. Ready(t) /\ frames' = frames
    BY <1>5 DEF JitTrace, managers
  <2>2. PICK tuned \in TuningResults :
          Lookup(t, c, opt, TRUE, CachedData(stack[t], cache[c], c, opt),
                 tuned)
    BY <1>5 DEF JitTrace
  <2>3. cache[c] \in history[c]
    BY DEF CallInv, CacheKnown
  <2>4. Scope!JitCall(t, c, opt)
    BY <1>1, <1>2, <2>1, <2>2, <2>3, SameResolution
    DEF Scope!JitCall, Scope!MayStore
  <2> QED
    BY <2>4, SameResolution DEF Scope!Next
<1> QED
  BY <1>3, <1>4, <1>5 DEF Call

LEMMA NextImplements ==
  ASSUME CallInv, [Next]_vars
  PROVE  [Scope!Next]_(Scope!vars)
<1>1. ASSUME NEW r \in Results, Free(r) \/ \E a \in Addrs : Create(r, a)
      PROVE  Scope!Next
  <2>1. Scope!Forget
    BY <1>1 DEF Free, Create, Scope!Forget, lookups
  <2> QED
    BY <2>1 DEF Scope!Next
<1>2. ASSUME NEW t \in Tasks, Manage(t)
      PROVE  Scope!Next
  BY <1>2, ManageImplements DEF CallInv
<1>3. ASSUME NEW t \in Tasks, NEW c \in Calls, NEW opt \in OptionsUsed,
             Call(t, c, opt)
      PROVE  Scope!Next
  BY <1>3, CallImplements
<1>4. ASSUME NEW c \in Calls, Autotune(c)
      PROVE  Scope!Next
  <2>1. Scope!Autotune(c)
    BY <1>4, SameResolution, SameStore DEF Autotune, Scope!Autotune, managers
  <2> QED
    BY <2>1, SameResolution DEF Scope!Next
<1>5. CASE UNCHANGED vars
  BY <1>5 DEF vars, Scope!vars, managers, lookups
<1> QED
  BY <1>1, <1>2, <1>3, <1>4, <1>5 DEF Next

\* In a disciplined program the context manager, the lookup and the jit cache
\* implement lexically scoped overlays (api.py:106-117).
THEOREM Implementation == ASSUME Disciplined PROVE Spec => ImplementsScope
<1>1. Init => Scope!Init
  BY InitImplements
<1>2. CallInv /\ [Next]_vars => [Scope!Next]_(Scope!vars)
  BY NextImplements
<1> QED
  BY <1>1, <1>2, CallInvariance, PTL DEF Spec, ImplementsScope, Scope!Spec
=============================================================================
