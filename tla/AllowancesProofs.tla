-------------------------- MODULE AllowancesProofs --------------------------
(***************************************************************************)
(* Theorems about Accounts and Allowances together, for any number of      *)
(* requests under way, accounts and addresses, and any limits.             *)
(***************************************************************************)
EXTENDS Allowances, SumProofs, FiniteSetTheorems, TLAPS

(***************************************************************************)
(* What a request carries, by where it stands: p is the place, a what it   *)
(* asks and n what it read, in a state where held are the accounts' roles  *)
(* and row is the setting.                                                 *)
(***************************************************************************)
Fits(p, a, n, held, row) ==
    /\ p = "idle" => a.keys = {}
    /\ a.keys \subseteq Keys /\ IsFiniteSet(a.keys)
    /\ p \in {"signup", "new", "taken", "login", "right", "wrong"} => a.who \in Emails
    /\ p = "login" => a.right \in BOOLEAN
    /\ p = "right" => held[a.who] # Nobody
    /\ p \in {"set_role", "giving"} => a.who \in Emails
    /\ p \in {"set_role", "giving", "granting"} => a.target \in Emails /\ a.to \in Roles
    /\ p = "giving" => MayGive(a.who, a.target, a.to)
    /\ p \in {"put_setting", "saving"} => a.who \in Emails /\ a.value \in SUBSET Switches
    /\ p = "saving" => n = Nobody \/ (n \in SettingRows /\ row # Nobody)
    /\ p \in {"allowance", "counted", "exempt"} =>
          a.who \in Emails /\ a.kind \in Kinds /\ a.admin \in BOOLEAN
    /\ p = "exempt" => a.admin

RequestsOK ==
    /\ ask = [s \in Slots |-> ask[s]]
    /\ seen = [s \in Slots |-> seen[s]]
    /\ \A s \in Slots : Fits(pc[s], ask[s], seen[s], role, setting)

(***************************************************************************)
(* The requests that may yet record a failure for a key, and the bound     *)
(* that stands when they are counted with the failures there are.          *)
(***************************************************************************)
Asking(key) == {s \in Slots : key \in ask[s].keys}

RoomForAll ==
    \A key \in Keys :
        Cardinality(FailuresOf({key})) + Cardinality(Asking(key))
            <= AttemptLimit - 1 + Cardinality(Slots)

(***************************************************************************)
(* The same for uses: those a request has counted and not yet recorded.    *)
(***************************************************************************)
Using(e, kind) ==
    {s \in Slots : pc[s] = "counted" /\ ask[s].who = e /\ ask[s].kind = kind}

UsesForAll ==
    \A e \in Emails, kind \in Kinds :
        Cardinality(Counted(e, kind)) + Cardinality(Using(e, kind))
            <= Ceiling[kind] - 1 + Cardinality(Slots)

IInv == TypeOK /\ RequestsOK /\ RoomForAll

UInv == IInv /\ UsesForAll

-----------------------------------------------------------------------------
(***************************************************************************)
(* There is always a number that no row has: there are more candidates     *)
(* than rows.                                                              *)
(***************************************************************************)
LEMMA FreshExists ==
    ASSUME NEW rows, IsFiniteSet(rows)
    PROVE  /\ Fresh(rows) \in Nat
           /\ \A row \in rows : row.n # Fresh(rows)
<1> DEFINE size == Cardinality(rows)
           all == 0..size
<1>1. size \in Nat
  BY FS_CardinalityType
<1>2. \E n \in all : \A row \in rows : row.n # n
  <2> SUFFICES ASSUME \A n \in all : \E row \in rows : row.n = n
               PROVE  FALSE
    OBVIOUS
  <2> DEFINE f == [n \in all |-> CHOOSE row \in rows : row.n = n]
  <2>1. \A n \in all : f[n] \in rows /\ f[n].n = n
    OBVIOUS
  <2>2. f \in [all -> rows]
    BY <2>1
  <2>3. IsFiniteSet(all) /\ Cardinality(all) = size + 1
    BY <1>1, FS_Interval
  <2>4. \E x, y \in all : x # y /\ f[x] = f[y]
    <3> HIDE DEF f, all
    <3> QED BY <1>1, <2>2, <2>3, FS_PigeonHole
  <2> QED BY <2>1, <2>4
<1> QED BY <1>1, <1>2 DEF Fresh

LEMMA OneMore ==
    ASSUME NEW S, NEW x, IsFiniteSet(S)
    PROVE  IsFiniteSet(S \cup {x}) /\ Cardinality(S \cup {x}) <= Cardinality(S) + 1
<1>1. Cardinality(S) \in Nat
  BY FS_CardinalityType
<1> QED BY <1>1, FS_AddElement

LEMMA KeysOfRequests ==
    ASSUME NEW e \in Emails, NEW a \in Addresses
    PROVE  /\ {<<"ip", a>>} \subseteq Keys /\ IsFiniteSet({<<"ip", a>>})
           /\ {<<"email", e>>, <<"ip", a>>} \subseteq Keys
           /\ IsFiniteSet({<<"email", e>>, <<"ip", a>>})
<1>1. IsFiniteSet({<<"ip", a>>})
  BY FS_Singleton
<1>2. IsFiniteSet({<<"ip", a>>} \cup {<<"email", e>>})
  BY <1>1, FS_AddElement
<1>3. {<<"email", e>>, <<"ip", a>>} = {<<"ip", a>>} \cup {<<"email", e>>}
  OBVIOUS
<1> QED BY <1>1, <1>2, <1>3 DEF Keys

(***************************************************************************)
(* Recording a failure adds rows of the request's keys, one for each.      *)
(***************************************************************************)
LEMMA FailuresRecorded ==
    ASSUME TypeOK, NEW keys, keys \subseteq Keys, IsFiniteSet(keys)
    PROVE  LET added == {Failure(key) : key \in keys}
           IN  /\ IsFiniteSet(failures \cup added)
               /\ added \subseteq [key : Keys, at : Time, n : Nat]
               /\ \A row \in added : row = Failure(row.key) /\ row.key \in keys
<1> DEFINE added == {Failure(key) : key \in keys}
           f == [key \in keys |-> Failure(key)]
<1>1. f \in Surjection(keys, added)
  BY DEF Surjection
<1>2. IsFiniteSet(added)
  <2> HIDE DEF f, added
  <2> QED BY <1>1, FS_Surjection
<1>3. IsFiniteSet(failures \cup added)
  <2> HIDE DEF added
  <2> QED BY <1>2, FS_Union DEF TypeOK
<1>4. \A key \in keys : Failure(key) \in [key : Keys, at : Time, n : Nat]
  <2> SUFFICES ASSUME NEW key \in keys
               PROVE  Failure(key) \in [key : Keys, at : Time, n : Nat]
    OBVIOUS
  <2> DEFINE same == {row \in failures : row.key = key /\ row.at = now}
  <2>1. IsFiniteSet(same)
    BY FS_Subset DEF TypeOK
  <2>2. Fresh(same) \in Nat
    BY <2>1, FreshExists
  <2> QED BY <2>2 DEF Failure, TypeOK
<1>5. \A key \in keys : Failure(key).key = key
  BY DEF Failure
<1> QED BY <1>3, <1>4, <1>5

-----------------------------------------------------------------------------
(***************************************************************************)
(* What the three ways for a request to go on leave to show: the others    *)
(* keep what they carry, as accounts and the setting are never removed.    *)
(***************************************************************************)
Kept ==
    /\ \A e \in Emails : role[e] # Nobody => role'[e] # Nobody
    /\ setting # Nobody => setting' # Nobody

LEMMA OthersFit ==
    ASSUME RequestsOK, Kept, NEW s \in Slots,
           \A x \in Slots \ {s} : pc'[x] = pc[x] /\ ask'[x] = ask[x] /\ seen'[x] = seen[x],
           ask' = [x \in Slots |-> ask'[x]],
           seen' = [x \in Slots |-> seen'[x]],
           Fits(pc'[s], ask'[s], seen'[s], role', setting')
    PROVE  RequestsOK'
<1> SUFFICES ASSUME NEW x \in Slots, x # s
             PROVE  Fits(pc'[x], ask'[x], seen'[x], role', setting')
  BY DEF RequestsOK
<1>1. Fits(pc[x], ask[x], seen[x], role, setting)
  BY DEF RequestsOK
<1> QED BY <1>1 DEF Fits, Kept

LEMMA ReceiveOK ==
    ASSUME TypeOK, RequestsOK, NEW s \in Slots, NEW where \in Phases, NEW what,
           Receive(s, where, what), UNCHANGED <<role, setting, seen>>,
           Fits(where, what, Nobody, role, setting), where # "saving"
    PROVE  /\ RequestsOK'
           /\ pc' \in [Slots -> Phases]
           /\ \A x \in Slots : ask'[x].keys \subseteq Keys
           /\ begun' \in Int /\ begun' <= MaxRequests
<1>1. /\ ask' = [x \in Slots |-> ask'[x]]
      /\ ask'[s] = what
      /\ \A x \in Slots \ {s} : ask'[x] = ask[x]
  BY DEF Receive, RequestsOK
<1>2. /\ pc' \in [Slots -> Phases]
      /\ pc'[s] = where
      /\ \A x \in Slots \ {s} : pc'[x] = pc[x]
  BY DEF Receive, TypeOK
<1>3. Fits(pc'[s], ask'[s], seen'[s], role', setting')
  BY <1>1, <1>2 DEF Fits
<1>4. RequestsOK'
  BY <1>1, <1>2, <1>3, OthersFit DEF Kept, RequestsOK
<1>5. begun' \in Int /\ begun' <= MaxRequests
  BY AccountsAssumption DEF Receive, TypeOK
<1> QED BY <1>2, <1>4, <1>5 DEF RequestsOK, Fits

LEMMA ProceedOK ==
    ASSUME TypeOK, RequestsOK, NEW s \in Slots, NEW here, NEW there \in Phases, NEW row,
           Proceed(s, here, there, row), Fits(there, ask[s], row, role, setting)
    PROVE  /\ RequestsOK'
           /\ pc' \in [Slots -> Phases]
           /\ UNCHANGED <<now, role, failures, sessions, audit, setting, ask, begun>>
<1>1. UNCHANGED <<now, role, failures, sessions, audit, setting, ask, begun>>
  BY DEF Proceed, accountTables
<1>2. /\ seen' = [x \in Slots |-> seen'[x]]
      /\ seen'[s] = row
      /\ \A x \in Slots \ {s} : seen'[x] = seen[x]
  BY DEF Proceed, RequestsOK
<1>3. /\ pc' \in [Slots -> Phases]
      /\ pc'[s] = there
      /\ \A x \in Slots \ {s} : pc'[x] = pc[x]
  BY DEF Proceed, TypeOK
<1>4. RequestsOK'
  BY <1>1, <1>2, <1>3, OthersFit DEF Kept, RequestsOK
<1> QED BY <1>1, <1>3, <1>4

LEMMA LeaveOK ==
    ASSUME TypeOK, RequestsOK, NEW s \in Slots, NEW here, Leave(s, here), Kept
    PROVE  /\ RequestsOK'
           /\ pc' \in [Slots -> Phases]
           /\ \A x \in Slots : ask'[x].keys \subseteq Keys
           /\ now' = now
<1>1. /\ ask' = [x \in Slots |-> ask'[x]]
      /\ ask'[s] = NoAsk
      /\ \A x \in Slots \ {s} : ask'[x] = ask[x]
  BY DEF Leave, RequestsOK
<1>2. /\ seen' = [x \in Slots |-> seen'[x]]
      /\ \A x \in Slots \ {s} : seen'[x] = seen[x]
  BY DEF Leave, RequestsOK
<1>3. /\ pc' \in [Slots -> Phases]
      /\ pc'[s] = "idle"
      /\ \A x \in Slots \ {s} : pc'[x] = pc[x]
  BY DEF Leave, TypeOK, Phases
<1>4. Fits(pc'[s], ask'[s], seen'[s], role', setting')
  BY <1>1, <1>3, FS_EmptySet DEF Fits, NoAsk
<1>5. RequestsOK'
  BY <1>1, <1>2, <1>3, <1>4, OthersFit
<1> QED BY <1>3, <1>5 DEF RequestsOK, Fits, Leave

-----------------------------------------------------------------------------
(***************************************************************************)
(* The room for the failures to come.  Between its check and its record a  *)
(* request holds one place for each of its keys.                           *)
(***************************************************************************)
LEMMA CountsOK ==
    ASSUME TypeOK, NEW keys, NEW key
    PROVE  /\ IsFiniteSet(FailuresOf(keys)) /\ Cardinality(FailuresOf(keys)) \in Nat
           /\ IsFiniteSet(Asking(key)) /\ Cardinality(Asking(key)) \in Nat
           /\ Cardinality(Asking(key)) <= Cardinality(Slots)
           /\ IsFiniteSet(Slots) /\ Cardinality(Slots) \in Nat
<1>1. IsFiniteSet(FailuresOf(keys))
  BY FS_Subset DEF FailuresOf, TypeOK
<1>2. /\ IsFiniteSet(Slots)
      /\ IsFiniteSet(Asking(key)) /\ Cardinality(Asking(key)) <= Cardinality(Slots)
  BY AccountsAssumption, FS_Subset DEF Asking
<1> QED BY <1>1, <1>2, FS_CardinalityType

\* Fewer failures and fewer requests that ask.
LEMMA RoomKept ==
    ASSUME TypeOK, RoomForAll, NEW key \in Keys,
           FailuresOf({key})' \subseteq FailuresOf({key}),
           Asking(key)' \subseteq Asking(key)
    PROVE  Cardinality(FailuresOf({key}))' + Cardinality(Asking(key))'
               <= AttemptLimit - 1 + Cardinality(Slots)
<1>1. /\ Cardinality(FailuresOf({key})') <= Cardinality(FailuresOf({key}))
      /\ Cardinality(FailuresOf({key})') \in Nat
  BY CountsOK, FS_Subset, FS_CardinalityType
<1>2. /\ Cardinality(Asking(key)') <= Cardinality(Asking(key))
      /\ Cardinality(Asking(key)') \in Nat
  BY CountsOK, FS_Subset, FS_CardinalityType
<1>3. /\ Cardinality(FailuresOf({key})) \in Nat /\ Cardinality(Asking(key)) \in Nat
      /\ Cardinality(Slots) \in Nat
  BY CountsOK
<1>4. Cardinality(FailuresOf({key})) + Cardinality(Asking(key))
          <= AttemptLimit - 1 + Cardinality(Slots)
  BY DEF RoomForAll
<1>5. AttemptLimit \in Nat
  BY AccountsAssumption
<1> HIDE DEF FailuresOf, Asking
<1> QED BY <1>1, <1>2, <1>3, <1>4, <1>5

LEMMA ReceiveRoom ==
    ASSUME TypeOK, RequestsOK, RoomForAll, NEW s \in Slots, NEW where, NEW what,
           Receive(s, where, what), UNCHANGED <<now, failures>>,
           ~Throttled(what.keys) \/ what.keys = {}
    PROVE  RoomForAll'
<1> SUFFICES ASSUME NEW key \in Keys
             PROVE  Cardinality(FailuresOf({key}))' + Cardinality(Asking(key))'
                        <= AttemptLimit - 1 + Cardinality(Slots)
  BY DEF RoomForAll
<1>1. ask'[s] = what /\ \A x \in Slots \ {s} : ask'[x] = ask[x]
  BY DEF Receive, RequestsOK
<1>2. FailuresOf({key})' = FailuresOf({key})
  BY DEF FailuresOf
<1>3. CASE key \in what.keys
  <2>1. Cardinality(FailuresOf({key})) <= Cardinality(FailuresOf(what.keys))
    <3>1. FailuresOf({key}) \subseteq FailuresOf(what.keys)
      BY <1>3 DEF FailuresOf
    <3> QED BY <3>1, CountsOK, FS_Subset
  <2>2. ~(Cardinality(FailuresOf(what.keys)) >= AttemptLimit)
    BY <1>3 DEF Throttled
  <2>3. Asking(key)' \subseteq Slots
    BY DEF Asking
  <2>4. Cardinality(Asking(key)') <= Cardinality(Slots) /\ Cardinality(Asking(key)') \in Nat
    BY <2>3, CountsOK, FS_Subset, FS_CardinalityType
  <2>5. /\ Cardinality(FailuresOf({key})) \in Nat
        /\ Cardinality(FailuresOf(what.keys)) \in Nat
        /\ Cardinality(Slots) \in Nat /\ AttemptLimit \in Nat
    BY CountsOK, AccountsAssumption
  <2> QED BY <1>2, <2>1, <2>2, <2>4, <2>5
<1>4. CASE key \notin what.keys
  <2>1. Asking(key)' \subseteq Asking(key)
    BY <1>1, <1>4 DEF Asking
  <2> QED BY <1>2, <2>1, RoomKept
<1> QED BY <1>3, <1>4

LEMMA LeaveRoom ==
    ASSUME TypeOK, RequestsOK, RoomForAll, NEW s \in Slots, NEW here, Leave(s, here),
           UNCHANGED failures
    PROVE  RoomForAll'
<1> SUFFICES ASSUME NEW key \in Keys
             PROVE  Cardinality(FailuresOf({key}))' + Cardinality(Asking(key))'
                        <= AttemptLimit - 1 + Cardinality(Slots)
  BY DEF RoomForAll
<1>1. ask'[s].keys = {} /\ \A x \in Slots \ {s} : ask'[x] = ask[x]
  BY DEF Leave, RequestsOK, NoAsk
<1>2. Asking(key)' \subseteq Asking(key)
  BY <1>1 DEF Asking
<1>3. FailuresOf({key})' \subseteq FailuresOf({key})
  BY DEF FailuresOf, Leave
<1> QED BY <1>2, <1>3, RoomKept

\* A failure takes the place its request held.
LEMMA RecordRoom ==
    ASSUME TypeOK, RequestsOK, RoomForAll, NEW s \in Slots, NEW here, Leave(s, here),
           RecordFailure(s)
    PROVE  RoomForAll'
<1> SUFFICES ASSUME NEW key \in Keys
             PROVE  Cardinality(FailuresOf({key}))' + Cardinality(Asking(key))'
                        <= AttemptLimit - 1 + Cardinality(Slots)
  BY DEF RoomForAll
<1>1. ask'[s].keys = {} /\ \A x \in Slots \ {s} : ask'[x] = ask[x]
  BY DEF Leave, RequestsOK, NoAsk
<1>2. now' = now /\ failures' = failures \cup {Failure(k) : k \in ask[s].keys}
  BY DEF Leave, RecordFailure
<1>3. \A k : Failure(k).key = k
  BY DEF Failure
<1>4. CASE key \in ask[s].keys
  <2>1. FailuresOf({key})' \subseteq FailuresOf({key}) \cup {Failure(key)}
    BY <1>2, <1>3 DEF FailuresOf
  <2>2. /\ IsFiniteSet(FailuresOf({key}) \cup {Failure(key)})
        /\ Cardinality(FailuresOf({key}) \cup {Failure(key)})
               <= Cardinality(FailuresOf({key})) + 1
    <3>1. IsFiniteSet(FailuresOf({key}))
      BY CountsOK
    <3> QED BY <3>1, OneMore
  <2>3. /\ Cardinality(FailuresOf({key})') <= Cardinality(FailuresOf({key})) + 1
        /\ Cardinality(FailuresOf({key})') \in Nat
    <3>1. /\ Cardinality(FailuresOf({key})')
                 <= Cardinality(FailuresOf({key}) \cup {Failure(key)})
          /\ IsFiniteSet(FailuresOf({key})')
      BY <2>1, <2>2, FS_Subset
    <3>2. /\ Cardinality(FailuresOf({key})) \in Nat
          /\ Cardinality(FailuresOf({key})') \in Nat
          /\ Cardinality(FailuresOf({key}) \cup {Failure(key)}) \in Nat
      BY <2>2, <3>1, CountsOK, FS_CardinalityType
    <3> QED BY <2>2, <3>1, <3>2
  <2>4. Asking(key)' = Asking(key) \ {s} /\ s \in Asking(key)
    BY <1>1, <1>4 DEF Asking
  <2>5. Cardinality(Asking(key)') = Cardinality(Asking(key)) - 1
    BY <2>4, CountsOK, FS_RemoveElement
  <2>6. Cardinality(FailuresOf({key})) + Cardinality(Asking(key))
            <= AttemptLimit - 1 + Cardinality(Slots)
    BY DEF RoomForAll
  <2>7. /\ Cardinality(FailuresOf({key})) \in Nat /\ Cardinality(Asking(key)) \in Nat
        /\ Cardinality(Slots) \in Nat /\ AttemptLimit \in Nat
    BY CountsOK, AccountsAssumption
  <2> QED BY <2>3, <2>5, <2>6, <2>7
<1>5. CASE key \notin ask[s].keys
  <2>1. FailuresOf({key})' \subseteq FailuresOf({key})
    BY <1>2, <1>3, <1>5 DEF FailuresOf
  <2>2. Asking(key)' \subseteq Asking(key)
    BY <1>1 DEF Asking
  <2> QED BY <2>1, <2>2, RoomKept
<1> QED BY <1>4, <1>5

LEMMA TickRoom ==
    ASSUME TypeOK, RoomForAll, Tick
    PROVE  RoomForAll'
<1> SUFFICES ASSUME NEW key \in Keys
             PROVE  Cardinality(FailuresOf({key}))' + Cardinality(Asking(key))'
                        <= AttemptLimit - 1 + Cardinality(Slots)
  BY DEF RoomForAll
<1>1. failures' = failures /\ ask' = ask /\ now' = now + 1
  BY DEF Tick, accountTables, requests
<1>2. \A row \in failures : row.at \in Int
  BY AccountsAssumption DEF TypeOK, Time
<1>3. now \in Int /\ AttemptWindow \in Int
  BY AccountsAssumption DEF TypeOK, Time
<1>4. FailuresOf({key})' \subseteq FailuresOf({key})
  BY <1>1, <1>2, <1>3 DEF FailuresOf
<1>5. Asking(key)' = Asking(key)
  BY <1>1 DEF Asking
<1> QED BY <1>4, <1>5, RoomKept

-----------------------------------------------------------------------------
(***************************************************************************)
(* Sign-up and sign-in.                                                    *)
(***************************************************************************)
LEMMA SessionStarted ==
    ASSUME TypeOK, NEW e \in Emails, StartSession(e)
    PROVE  /\ sessions' \subseteq [user : Emails, until : Nat, n : Nat]
           /\ IsFiniteSet(sessions')
           /\ \A row \in sessions' : row \in sessions \/ row.user = e
<1> DEFINE same == {row \in sessions : row.user = e}
           new  == [user |-> e, until |-> now + SessionLife, n |-> Fresh(same)]
<1>1. IsFiniteSet(same)
  BY FS_Subset DEF TypeOK
<1>2. Fresh(same) \in Nat
  BY <1>1, FreshExists
<1>3. now + SessionLife \in Nat
  BY AccountsAssumption DEF TypeOK, Time
<1>4. new \in [user : Emails, until : Nat, n : Nat] /\ new.user = e
  BY <1>2, <1>3
<1>5. sessions' = sessions \cup {new}
  BY DEF StartSession
<1>6. IsFiniteSet(sessions')
  <2> HIDE DEF new
  <2> QED BY <1>5, FS_AddElement DEF TypeOK
<1> HIDE DEF new
<1> QED BY <1>4, <1>5, <1>6 DEF TypeOK

\* A refused sign-up or sign-in is recorded.
LEMMA RecordStep ==
    ASSUME IInv, NEW s \in Slots, NEW here, End(s, here), RecordFailure(s),
           UNCHANGED <<usage, spending>>
    PROVE  IInv'
<1> USE DEF IInv
<1>1. Leave(s, here) /\ begun' = begun
  BY DEF End
<1>2. UNCHANGED <<role, sessions, audit, setting>>
  BY DEF RecordFailure
<1>3. Kept
  BY <1>2 DEF Kept
<1>4. /\ RequestsOK' /\ pc' \in [Slots -> Phases] /\ now' = now
      /\ \A x \in Slots : ask'[x].keys \subseteq Keys
  BY <1>1, <1>3, LeaveOK
<1>5. RoomForAll'
  BY <1>1, RecordRoom
<1>6. ask[s].keys \subseteq Keys /\ IsFiniteSet(ask[s].keys)
  BY DEF RequestsOK, Fits
<1>7. /\ failures' \subseteq [key : Keys, at : Time, n : Nat]
      /\ IsFiniteSet(failures')
  BY <1>6, FailuresRecorded DEF RecordFailure, TypeOK
<1> QED BY <1>1, <1>2, <1>4, <1>5, <1>7 DEF TypeOK

LEMMA SignupStep ==
    ASSUME IInv, NEW s \in Slots, UNCHANGED allowanceTables,
           Signup(s) \/ LookUpEmail(s) \/ RefuseSignup(s) \/ CreateAccount(s)
    PROVE  IInv'
<1> USE DEF IInv
<1>0. usage' = usage /\ spending' = spending
  BY DEF allowanceTables
<1>1. CASE Signup(s)
  <2>1. PICK e \in Emails, a \in Addresses :
            /\ ~Throttled({<<"ip", a>>})
            /\ Receive(s, "signup", [who |-> e, keys |-> {<<"ip", a>>}])
            /\ UNCHANGED <<now, role, failures, sessions, audit, setting, seen>>
    BY <1>1 DEF Signup, accountTables
  <2> DEFINE what == [who |-> e, keys |-> {<<"ip", a>>}]
  <2>2. Fits("signup", what, Nobody, role, setting)
    BY KeysOfRequests DEF Fits
  <2>3. what.keys = {<<"ip", a>>} /\ "signup" \in Phases
    BY DEF Phases
  <2> HIDE DEF what
  <2>4. Receive(s, "signup", what)
    BY <2>1 DEF what
  <2>5. RoomForAll'
    BY <2>1, <2>3, <2>4, ReceiveRoom
  <2>6. /\ RequestsOK' /\ pc' \in [Slots -> Phases]
        /\ \A x \in Slots : ask'[x].keys \subseteq Keys
        /\ begun' \in Int /\ begun' <= MaxRequests
    BY <2>1, <2>2, <2>3, <2>4, ReceiveOK
  <2> QED BY <1>0, <2>1, <2>5, <2>6 DEF TypeOK
<1>2. CASE LookUpEmail(s)
  <2> DEFINE there == IF role[ask[s].who] = Nobody THEN "new" ELSE "taken"
  <2>1. Proceed(s, "signup", there, Nobody) /\ pc[s] = "signup"
    BY <1>2 DEF LookUpEmail, Proceed
  <2>2. there \in Phases /\ there \in {"new", "taken"}
    BY DEF Phases
  <2>3. Fits(pc[s], ask[s], seen[s], role, setting)
    BY DEF RequestsOK
  <2> HIDE DEF there
  <2>4. Fits(there, ask[s], Nobody, role, setting)
    BY <2>1, <2>2, <2>3 DEF Fits
  <2>5. /\ RequestsOK' /\ pc' \in [Slots -> Phases]
        /\ UNCHANGED <<now, role, failures, sessions, audit, setting, ask, begun>>
    BY <2>1, <2>2, <2>4, ProceedOK
  <2>6. RoomForAll'
    BY <2>5 DEF RoomForAll, FailuresOf, Asking
  <2> QED BY <1>0, <2>5, <2>6 DEF TypeOK
<1>3. CASE RefuseSignup(s)
  BY <1>0, <1>3, RecordStep DEF RefuseSignup
<1>4. CASE CreateAccount(s)
  <2> DEFINE e == ask[s].who
             given == IF e \in Bootstrap THEN "admin" ELSE "user"
  <2>1. /\ End(s, "new") /\ role[e] = Nobody /\ role' = [role EXCEPT ![e] = given]
        /\ StartSession(e) /\ failures' = failures /\ setting' = setting
    BY <1>4 DEF CreateAccount
  <2>2. pc[s] = "new" /\ Leave(s, "new") /\ begun' = begun
    BY <2>1 DEF End, Leave
  <2>3. Fits(pc[s], ask[s], seen[s], role, setting)
    BY DEF RequestsOK
  <2>4. e \in Emails
    BY <2>2, <2>3 DEF Fits
  <2>5. given \in Roles /\ given # Nobody
    BY AccountsAssumption DEF Roles
  <2> HIDE DEF given, e
  <2>6. /\ role' \in [Emails -> Roles \cup {Nobody}]
        /\ role'[e] # Nobody
        /\ \A f \in Emails : role[f] # Nobody => role'[f] # Nobody
    BY <2>1, <2>4, <2>5 DEF TypeOK
  <2>7. Kept
    BY <2>1, <2>6 DEF Kept
  <2>8. /\ sessions' \subseteq [user : Emails, until : Nat, n : Nat]
        /\ IsFiniteSet(sessions')
        /\ \A row \in sessions' : row \in sessions \/ row.user = e
    BY <2>1, <2>4, SessionStarted
  <2>9. \A row \in sessions' : role'[row.user] # Nobody
    BY <2>6, <2>8 DEF TypeOK
  <2>10. /\ RequestsOK' /\ pc' \in [Slots -> Phases] /\ now' = now
         /\ \A x \in Slots : ask'[x].keys \subseteq Keys
    BY <2>2, <2>7, LeaveOK
  <2>11. RoomForAll'
    BY <2>1, <2>2, LeaveRoom
  <2> QED BY <1>0, <2>1, <2>2, <2>6, <2>8, <2>9, <2>10, <2>11 DEF TypeOK
<1> QED BY <1>1, <1>2, <1>3, <1>4

LEMMA LoginStep ==
    ASSUME IInv, NEW s \in Slots, UNCHANGED allowanceTables,
           Login(s) \/ VerifyPassword(s) \/ RefuseLogin(s) \/ SignIn(s)
    PROVE  IInv'
<1> USE DEF IInv
<1>0. usage' = usage /\ spending' = spending
  BY DEF allowanceTables
<1>f. Fits(pc[s], ask[s], seen[s], role, setting)
  BY DEF RequestsOK
<1>1. CASE Login(s)
  <2>1. PICK e \in Emails, a \in Addresses, right \in BOOLEAN :
            /\ ~Throttled({<<"email", e>>, <<"ip", a>>})
            /\ Receive(s, "login",
                       [who |-> e, keys |-> {<<"email", e>>, <<"ip", a>>}, right |-> right])
            /\ UNCHANGED <<now, role, failures, sessions, audit, setting, seen>>
    BY <1>1 DEF Login, accountTables
  <2> DEFINE what == [who |-> e, keys |-> {<<"email", e>>, <<"ip", a>>}, right |-> right]
  <2>2. Fits("login", what, Nobody, role, setting)
    BY KeysOfRequests DEF Fits
  <2>3. what.keys = {<<"email", e>>, <<"ip", a>>} /\ "login" \in Phases
    BY DEF Phases
  <2> HIDE DEF what
  <2>4. Receive(s, "login", what)
    BY <2>1 DEF what
  <2>5. RoomForAll'
    BY <2>1, <2>3, <2>4, ReceiveRoom
  <2>6. /\ RequestsOK' /\ pc' \in [Slots -> Phases]
        /\ \A x \in Slots : ask'[x].keys \subseteq Keys
        /\ begun' \in Int /\ begun' <= MaxRequests
    BY <2>1, <2>2, <2>3, <2>4, ReceiveOK
  <2> QED BY <1>0, <2>1, <2>5, <2>6 DEF TypeOK
<1>2. CASE VerifyPassword(s)
  <2> DEFINE there == IF Matches(ask[s].who, ask[s].right) THEN "right" ELSE "wrong"
  <2>1. Proceed(s, "login", there, role[ask[s].who]) /\ pc[s] = "login"
    BY <1>2 DEF VerifyPassword
  <2>2. there \in Phases /\ there \in {"right", "wrong"}
    BY DEF Phases
  <2>3. there = "right" => role[ask[s].who] # Nobody
    BY DEF Matches
  <2> HIDE DEF there
  <2>4. Fits(there, ask[s], role[ask[s].who], role, setting)
    BY <1>f, <2>1, <2>2, <2>3 DEF Fits
  <2>5. /\ RequestsOK' /\ pc' \in [Slots -> Phases]
        /\ UNCHANGED <<now, role, failures, sessions, audit, setting, ask, begun>>
    BY <2>1, <2>2, <2>4, ProceedOK
  <2>6. RoomForAll'
    BY <2>5 DEF RoomForAll, FailuresOf, Asking
  <2> QED BY <1>0, <2>5, <2>6 DEF TypeOK
<1>3. CASE RefuseLogin(s)
  BY <1>0, <1>3, RecordStep DEF RefuseLogin
<1>4. CASE SignIn(s)
  <2> DEFINE e == ask[s].who
  <2>1. /\ End(s, "right") /\ Promote(e, seen[s]) /\ StartSession(e)
        /\ failures' = failures /\ setting' = setting
    BY <1>4 DEF SignIn
  <2>2. pc[s] = "right" /\ Leave(s, "right") /\ begun' = begun
    BY <2>1 DEF End, Leave
  <2>3. e \in Emails /\ role[e] # Nobody
    BY <1>f, <2>2 DEF Fits
  <2> HIDE DEF e
  <2>4. /\ role' \in [Emails -> Roles \cup {Nobody}]
        /\ \A f \in Emails : role[f] # Nobody => role'[f] # Nobody
    <3>1. role' = role \/ role' = [role EXCEPT ![e] = "admin"]
      BY <2>1 DEF Promote
    <3>2. "admin" \in Roles /\ "admin" # Nobody
      BY AccountsAssumption DEF Roles
    <3> QED BY <2>3, <3>1, <3>2 DEF TypeOK
  <2>5. Kept
    BY <2>1, <2>4 DEF Kept
  <2>6. /\ sessions' \subseteq [user : Emails, until : Nat, n : Nat]
        /\ IsFiniteSet(sessions')
        /\ \A row \in sessions' : row \in sessions \/ row.user = e
    BY <2>1, <2>3, SessionStarted
  <2>7. \A row \in sessions' : role'[row.user] # Nobody
    BY <2>3, <2>4, <2>6 DEF TypeOK
  <2>8. /\ RequestsOK' /\ pc' \in [Slots -> Phases] /\ now' = now
        /\ \A x \in Slots : ask'[x].keys \subseteq Keys
    BY <2>2, <2>5, LeaveOK
  <2>9. RoomForAll'
    BY <2>1, <2>2, LeaveRoom
  <2> QED BY <1>0, <2>1, <2>2, <2>4, <2>6, <2>7, <2>8, <2>9 DEF TypeOK
<1> QED BY <1>1, <1>2, <1>3, <1>4

-----------------------------------------------------------------------------
(***************************************************************************)
(* Roles.                                                                  *)
(***************************************************************************)
\* A request without keys is received.
LEMMA ReceiveStep ==
    ASSUME IInv, NEW s \in Slots, NEW where \in Phases, NEW what,
           Receive(s, where, what), what.keys = {}, where # "saving",
           Fits(where, what, Nobody, role, setting),
           UNCHANGED <<now, role, failures, sessions, audit, setting, seen, usage, spending>>
    PROVE  IInv'
<1> USE DEF IInv
<1>1. RoomForAll'
  BY ReceiveRoom
<1>2. /\ RequestsOK' /\ pc' \in [Slots -> Phases]
      /\ \A x \in Slots : ask'[x].keys \subseteq Keys
      /\ begun' \in Int /\ begun' <= MaxRequests
  BY ReceiveOK
<1> QED BY <1>1, <1>2 DEF TypeOK

LEMMA ProceedStep ==
    ASSUME IInv, NEW s \in Slots, NEW here, NEW there \in Phases, NEW row,
           Proceed(s, here, there, row), Fits(there, ask[s], row, role, setting),
           UNCHANGED <<usage, spending>>
    PROVE  IInv'
<1> USE DEF IInv
<1>1. /\ RequestsOK' /\ pc' \in [Slots -> Phases]
      /\ UNCHANGED <<now, role, failures, sessions, audit, setting, ask, begun>>
  BY ProceedOK
<1>2. RoomForAll'
  BY <1>1 DEF RoomForAll, FailuresOf, Asking
<1> QED BY <1>1, <1>2 DEF TypeOK

LEMMA GiveStep ==
    ASSUME IInv, NEW s \in Slots, NEW here, NEW by,
           End(s, here), here \in {"giving", "granting"},
           Give(s, ask[s].target, ask[s].to, by), UNCHANGED <<usage, spending>>
    PROVE  IInv'
<1> USE DEF IInv
<1>1. Leave(s, here) /\ begun' = begun /\ pc[s] = here
  BY DEF End, Leave
<1>2. ask[s].target \in Emails /\ ask[s].to \in Roles
  BY <1>1 DEF RequestsOK, Fits
<1>3. /\ role' = role \/ role' = [role EXCEPT ![ask[s].target] = ask[s].to]
      /\ UNCHANGED <<failures, sessions, setting>>
  BY DEF Give
<1>4. ask[s].to # Nobody
  BY <1>2, AccountsAssumption
<1>5. /\ role' \in [Emails -> Roles \cup {Nobody}]
      /\ \A f \in Emails : role[f] # Nobody => role'[f] # Nobody
  BY <1>2, <1>3, <1>4 DEF TypeOK
<1>6. Kept
  BY <1>3, <1>5 DEF Kept
<1>7. \A row \in sessions' : role'[row.user] # Nobody
  BY <1>3, <1>5 DEF TypeOK
<1>8. /\ RequestsOK' /\ pc' \in [Slots -> Phases] /\ now' = now
      /\ \A x \in Slots : ask'[x].keys \subseteq Keys
  BY <1>1, <1>6, LeaveOK
<1>9. RoomForAll'
  BY <1>1, <1>3, LeaveRoom
<1> QED BY <1>1, <1>3, <1>5, <1>7, <1>8, <1>9 DEF TypeOK

LEMMA RoleStep ==
    ASSUME IInv, NEW s \in Slots, UNCHANGED allowanceTables,
           SetRole(s) \/ LoadTarget(s) \/ WriteRole(s) \/ GrantRole(s) \/ WriteGrant(s)
    PROVE  IInv'
<1> USE DEF IInv
<1>0. usage' = usage /\ spending' = spending
  BY DEF allowanceTables
<1>f. Fits(pc[s], ask[s], seen[s], role, setting)
  BY DEF RequestsOK
<1>1. CASE SetRole(s)
  <2>1. PICK admin \in Emails, target \in Emails, to \in SomeRoles :
            /\ Receive(s, "set_role",
                       [who |-> admin, keys |-> {}, target |-> target, to |-> to])
            /\ UNCHANGED <<now, role, failures, sessions, audit, setting, seen>>
    BY <1>1 DEF SetRole, accountTables
  <2> DEFINE what == [who |-> admin, keys |-> {}, target |-> target, to |-> to]
  <2>2. Fits("set_role", what, Nobody, role, setting)
    BY AccountsAssumption, FS_EmptySet DEF Fits
  <2>3. what.keys = {} /\ "set_role" \in Phases
    BY DEF Phases
  <2> HIDE DEF what
  <2>4. Receive(s, "set_role", what)
    BY <2>1 DEF what
  <2> QED BY <1>0, <2>1, <2>2, <2>3, <2>4, ReceiveStep
<1>2. CASE LoadTarget(s)
  <2> DEFINE row == IF ask[s].target = ask[s].who THEN "admin" ELSE role[ask[s].target]
  <2>1. /\ pc[s] = "set_role" /\ Proceed(s, "set_role", "giving", row)
        /\ MayGive(ask[s].who, ask[s].target, ask[s].to)
    BY <1>2 DEF LoadTarget
  <2>2. "giving" \in Phases
    BY DEF Phases
  <2> HIDE DEF row
  <2>3. Fits("giving", ask[s], row, role, setting)
    BY <1>f, <2>1 DEF Fits
  <2> QED BY <1>0, <2>1, <2>2, <2>3, ProceedStep
<1>3. CASE WriteRole(s)
  BY <1>0, <1>3, GiveStep DEF WriteRole
<1>4. CASE GrantRole(s)
  <2>1. PICK target \in Emails, to \in SomeRoles :
            /\ Receive(s, "granting",
                       [who |-> Nobody, keys |-> {}, target |-> target, to |-> to])
            /\ seen' = [seen EXCEPT ![s] = role[target]]
            /\ UNCHANGED <<now, role, failures, sessions, audit, setting>>
    BY <1>4 DEF GrantRole, accountTables
  <2> DEFINE what == [who |-> Nobody, keys |-> {}, target |-> target, to |-> to]
  <2>2. Fits("granting", what, role[target], role, setting)
    BY AccountsAssumption, FS_EmptySet DEF Fits
  <2>3. what.keys = {}
    OBVIOUS
  <2> HIDE DEF what
  <2>4. Receive(s, "granting", what)
    BY <2>1 DEF what
  <2>5. /\ ask' = [x \in Slots |-> ask'[x]] /\ ask'[s] = what
        /\ \A x \in Slots \ {s} : ask'[x] = ask[x]
    BY <2>4 DEF Receive, RequestsOK
  <2>6. /\ seen' = [x \in Slots |-> seen'[x]] /\ seen'[s] = role[target]
        /\ \A x \in Slots \ {s} : seen'[x] = seen[x]
    BY <2>1 DEF RequestsOK
  <2>7. /\ pc' \in [Slots -> Phases] /\ pc'[s] = "granting"
        /\ \A x \in Slots \ {s} : pc'[x] = pc[x]
    BY <2>4 DEF Receive, TypeOK, Phases
  <2>8. begun' \in Int /\ begun' <= MaxRequests
    BY <2>4, AccountsAssumption DEF Receive, TypeOK
  <2>9. RequestsOK'
    <3>1. Fits(pc'[s], ask'[s], seen'[s], role', setting')
      BY <2>1, <2>2, <2>5, <2>6, <2>7
    <3> QED BY <2>1, <2>5, <2>6, <2>7, <3>1, OthersFit DEF Kept
  <2>10. \A x \in Slots : ask'[x].keys \subseteq Keys
    BY <2>9 DEF RequestsOK, Fits
  <2>11. RoomForAll'
    BY <2>1, <2>3, <2>4, ReceiveRoom
  <2> QED BY <1>0, <2>1, <2>7, <2>8, <2>9, <2>10, <2>11 DEF TypeOK
<1>5. CASE WriteGrant(s)
  BY <1>0, <1>5, GiveStep DEF WriteGrant
<1> QED BY <1>1, <1>2, <1>3, <1>4, <1>5

-----------------------------------------------------------------------------
(***************************************************************************)
(* Settings, and the steps that concern no request.                        *)
(***************************************************************************)
LEMMA SettingStep ==
    ASSUME IInv, NEW s \in Slots, UNCHANGED allowanceTables,
           PutSetting(s) \/ LoadSetting(s) \/ SaveSetting(s)
    PROVE  IInv'
<1> USE DEF IInv
<1>0. usage' = usage /\ spending' = spending
  BY DEF allowanceTables
<1>f. Fits(pc[s], ask[s], seen[s], role, setting)
  BY DEF RequestsOK
<1>1. CASE PutSetting(s)
  <2>1. PICK admin \in Emails, value \in SomeSettings :
            /\ Receive(s, "put_setting", [who |-> admin, keys |-> {}, value |-> value])
            /\ UNCHANGED <<now, role, failures, sessions, audit, setting, seen>>
    BY <1>1 DEF PutSetting, accountTables
  <2> DEFINE what == [who |-> admin, keys |-> {}, value |-> value]
  <2>2. Fits("put_setting", what, Nobody, role, setting)
    BY AccountsAssumption, FS_EmptySet DEF Fits
  <2>3. what.keys = {} /\ "put_setting" \in Phases
    BY DEF Phases
  <2> HIDE DEF what
  <2>4. Receive(s, "put_setting", what)
    BY <2>1 DEF what
  <2> QED BY <1>0, <2>1, <2>2, <2>3, <2>4, ReceiveStep
<1>2. CASE LoadSetting(s)
  <2>1. Proceed(s, "put_setting", "saving", setting) /\ pc[s] = "put_setting"
    BY <1>2 DEF LoadSetting, Proceed
  <2>2. "saving" \in Phases
    BY DEF Phases
  <2>3. setting = Nobody \/ setting \in SettingRows
    BY DEF TypeOK
  <2>4. Fits("saving", ask[s], setting, role, setting)
    BY <1>f, <2>1, <2>3 DEF Fits
  <2> QED BY <1>0, <2>1, <2>2, <2>4, ProceedStep
<1>3. CASE SaveSetting(s)
  <2>1. /\ End(s, "saving") /\ UNCHANGED <<role, failures, sessions>>
        /\ \/ /\ seen[s] = Nobody /\ setting = Nobody
              /\ setting' = [value |-> ask[s].value, by |-> ask[s].who]
           \/ /\ seen[s] # Nobody
              /\ setting' = [value |-> Column(seen[s].value, ask[s].value, setting.value),
                             by |-> Column(seen[s].by, ask[s].who, setting.by)]
    BY <1>3 DEF SaveSetting
  <2>2. Leave(s, "saving") /\ begun' = begun /\ pc[s] = "saving"
    BY <2>1 DEF End, Leave
  <2>3. /\ ask[s].who \in Emails /\ ask[s].value \in SUBSET Switches
        /\ seen[s] # Nobody => setting # Nobody
    BY <1>f, <2>2 DEF Fits
  <2>4. seen[s] # Nobody => setting \in SettingRows
    BY <2>3 DEF TypeOK
  <2>5. setting' \in SettingRows
    BY <2>1, <2>3, <2>4 DEF Column, SettingRows
  <2>6. setting # Nobody => setting' # Nobody
    <3>1. CASE seen[s] = Nobody
      BY <2>1, <3>1
    <3>2. CASE seen[s] # Nobody
      BY <2>5, AccountsAssumption
    <3> QED BY <3>1, <3>2
  <2>7. Kept
    BY <2>1, <2>6 DEF Kept
  <2>8. /\ RequestsOK' /\ pc' \in [Slots -> Phases] /\ now' = now
        /\ \A x \in Slots : ask'[x].keys \subseteq Keys
    BY <2>2, <2>7, LeaveOK
  <2>9. RoomForAll'
    BY <2>1, <2>2, LeaveRoom
  <2> QED BY <1>0, <2>1, <2>2, <2>5, <2>8, <2>9 DEF TypeOK
<1> QED BY <1>1, <1>2, <1>3

LEMMA OtherStep ==
    ASSUME IInv, UNCHANGED allowanceTables,
           (\E s \in Slots : Abandon(s)) \/ Logout \/ Tick
    PROVE  IInv'
<1> USE DEF IInv
<1>0. usage' = usage /\ spending' = spending
  BY DEF allowanceTables
<1>1. CASE \E s \in Slots : Abandon(s)
  <2>1. PICK s \in Slots : Abandon(s)
    BY <1>1
  <2>2. /\ Leave(s, pc[s]) /\ begun' = begun - 1
        /\ UNCHANGED <<role, failures, sessions, audit, setting>>
    BY <2>1 DEF Abandon, accountTables
  <2>3. /\ RequestsOK' /\ pc' \in [Slots -> Phases] /\ now' = now
        /\ \A x \in Slots : ask'[x].keys \subseteq Keys
    BY <2>2, LeaveOK DEF Kept
  <2>4. RoomForAll'
    BY <2>2, LeaveRoom
  <2>5. begun' \in Int /\ begun' <= MaxRequests
    BY <2>2, AccountsAssumption DEF TypeOK
  <2> QED BY <1>0, <2>2, <2>3, <2>4, <2>5 DEF TypeOK
<1>2. CASE Logout
  <2>1. /\ sessions' \subseteq sessions
        /\ UNCHANGED <<now, role, failures, audit, setting, pc, ask, seen, begun>>
    BY <1>2 DEF Logout, requests
  <2>2. IsFiniteSet(sessions')
    BY <2>1, FS_Subset DEF TypeOK
  <2>3. RequestsOK'
    BY <2>1 DEF RequestsOK
  <2>4. RoomForAll'
    BY <2>1 DEF RoomForAll, FailuresOf, Asking
  <2> QED BY <1>0, <2>1, <2>2, <2>3, <2>4 DEF TypeOK
<1>3. CASE Tick
  <2>1. /\ now < MaxTime /\ now' = now + 1
        /\ UNCHANGED <<role, failures, sessions, audit, setting, pc, ask, seen, begun>>
    BY <1>3 DEF Tick, accountTables, requests
  <2>2. now' \in Time
    BY <2>1, AccountsAssumption DEF TypeOK, Time
  <2>3. RequestsOK'
    BY <2>1 DEF RequestsOK
  <2>4. RoomForAll'
    BY <1>3, TickRoom
  <2> QED BY <1>0, <2>1, <2>2, <2>3, <2>4 DEF TypeOK
<1> QED BY <1>1, <1>2, <1>3

-----------------------------------------------------------------------------
(***************************************************************************)
(* Allowances and explanations.                                            *)
(***************************************************************************)
LEMMA FreshRow ==
    ASSUME NEW rows, IsFiniteSet(rows), NEW same \in SUBSET rows
    PROVE  Fresh(same) \in Nat
<1>1. IsFiniteSet(same)
  BY FS_Subset
<1> QED BY <1>1, FreshExists

LEMMA RecordUseStep ==
    ASSUME IInv, NEW s \in Slots, NEW here \in {"counted", "exempt"},
           End(s, here), RecordUse(s)
    PROVE  IInv'
<1> USE DEF IInv
<1> DEFINE r == ask[s]
           same == {row \in usage : row.user = r.who /\ row.kind = r.kind /\ row.at = now}
           new == [user |-> r.who, kind |-> r.kind, at |-> now, counted |-> ~r.admin,
                   n |-> Fresh(same)]
<1>1. Leave(s, here) /\ begun' = begun /\ pc[s] = here
  BY DEF End, Leave
<1>2. /\ usage' = usage \/ usage' = usage \cup {new}
      /\ UNCHANGED <<role, failures, sessions, audit, setting, spending>>
  BY DEF RecordUse, accountTables
<1>3. r.who \in Emails /\ r.kind \in Kinds /\ r.admin \in BOOLEAN
  BY <1>1 DEF RequestsOK, Fits
<1>4. Fresh(same) \in Nat
  BY FreshRow DEF TypeOK
<1>5. new \in [user : Emails, kind : Kinds, at : Time, counted : BOOLEAN, n : Nat]
  BY <1>3, <1>4 DEF TypeOK
<1> HIDE DEF new
<1>6. /\ usage' \subseteq [user : Emails, kind : Kinds, at : Time, counted : BOOLEAN, n : Nat]
      /\ IsFiniteSet(usage')
  <2>1. IsFiniteSet(usage \cup {new})
    BY OneMore DEF TypeOK
  <2> QED BY <1>2, <1>5, <2>1 DEF TypeOK
<1>7. /\ RequestsOK' /\ pc' \in [Slots -> Phases] /\ now' = now
      /\ \A x \in Slots : ask'[x].keys \subseteq Keys
  BY <1>1, <1>2, LeaveOK DEF Kept
<1>8. RoomForAll'
  BY <1>1, <1>2, LeaveRoom
<1> QED BY <1>1, <1>2, <1>6, <1>7, <1>8 DEF TypeOK

LEMMA AllowanceStep ==
    ASSUME IInv, NEW s \in Slots,
           \/ Use(s) \/ AskAllowance(s) \/ RecordCounted(s) \/ RecordExempt(s)
           \/ Analyse(s) \/ CallModel(s) \/ RecordCost(s)
    PROVE  IInv'
<1> USE DEF IInv
<1>f. Fits(pc[s], ask[s], seen[s], role, setting)
  BY DEF RequestsOK
<1>1. CASE Use(s)
  <2>1. PICK e \in Emails, kind \in Kinds :
            /\ Receive(s, "allowance",
                       [who |-> e, keys |-> {}, kind |-> kind, admin |-> role[e] = "admin"])
            /\ UNCHANGED <<now, role, failures, sessions, audit, setting, seen, usage, spending>>
    BY <1>1 DEF Use, accountTables, allowanceTables
  <2> DEFINE what == [who |-> e, keys |-> {}, kind |-> kind, admin |-> role[e] = "admin"]
  <2>2. Fits("allowance", what, Nobody, role, setting)
    <3>1. what.keys = {} /\ what.who = e /\ what.kind = kind
      OBVIOUS
    <3>2. what.admin \in BOOLEAN
      OBVIOUS
    <3> HIDE DEF what
    <3> QED BY <3>1, <3>2, FS_EmptySet DEF Fits
  <2>3. what.keys = {} /\ "allowance" \in Phases
    BY DEF Phases
  <2> HIDE DEF what
  <2>4. Receive(s, "allowance", what)
    BY <2>1 DEF what
  <2> QED BY <2>1, <2>2, <2>3, <2>4, ReceiveStep
<1>2. CASE AskAllowance(s)
  <2> DEFINE there == IF ask[s].admin THEN "exempt" ELSE "counted"
  <2>1. /\ pc[s] = "allowance" /\ Proceed(s, "allowance", there, Nobody)
        /\ UNCHANGED <<usage, spending>>
    BY <1>2 DEF AskAllowance, allowanceTables
  <2>2. /\ there \in Phases /\ there \in {"exempt", "counted"}
        /\ there = "exempt" => ask[s].admin
    BY DEF Phases
  <2> HIDE DEF there
  <2>3. Fits(there, ask[s], Nobody, role, setting)
    BY <1>f, <2>1, <2>2 DEF Fits
  <2> QED BY <2>1, <2>2, <2>3, ProceedStep
<1>3. CASE RecordCounted(s)
  BY <1>3, RecordUseStep DEF RecordCounted
<1>4. CASE RecordExempt(s)
  BY <1>4, RecordUseStep DEF RecordExempt
<1>5. CASE Analyse(s)
  <2>1. PICK e \in Emails :
            /\ Receive(s, "explain", [who |-> e, keys |-> {}])
            /\ UNCHANGED <<now, role, failures, sessions, audit, setting, seen, usage, spending>>
    BY <1>5 DEF Analyse, accountTables, allowanceTables
  <2> DEFINE what == [who |-> e, keys |-> {}]
  <2>2. Fits("explain", what, Nobody, role, setting)
    BY FS_EmptySet DEF Fits
  <2>3. what.keys = {} /\ "explain" \in Phases
    BY DEF Phases
  <2> HIDE DEF what
  <2>4. Receive(s, "explain", what)
    BY <2>1 DEF what
  <2> QED BY <2>1, <2>2, <2>3, <2>4, ReceiveStep
<1>6. CASE CallModel(s)
  <2>1. /\ Proceed(s, "explain", "explaining", Nobody) /\ pc[s] = "explain"
        /\ UNCHANGED <<usage, spending>>
    BY <1>6 DEF CallModel, allowanceTables, Proceed
  <2>2. "explaining" \in Phases
    BY DEF Phases
  <2>3. Fits("explaining", ask[s], Nobody, role, setting)
    BY <1>f, <2>1 DEF Fits
  <2> QED BY <2>1, <2>2, <2>3, ProceedStep
<1>7. CASE RecordCost(s)
  <2> DEFINE same == {row \in spending : row.at = now}
  <2>1. PICK cost \in Costs :
            spending' = spending \cup {[cost |-> cost, at |-> now, n |-> Fresh(same)]}
    BY <1>7 DEF RecordCost
  <2>2. /\ Leave(s, "explaining") /\ begun' = begun
        /\ UNCHANGED <<role, failures, sessions, audit, setting, usage>>
    BY <1>7 DEF RecordCost, End, accountTables
  <2>3. Fresh(same) \in Nat
    BY FreshRow DEF TypeOK
  <2> DEFINE new == [cost |-> cost, at |-> now, n |-> Fresh(same)]
  <2>4. new \in [cost : Costs, at : Time, n : Nat]
    BY <2>3 DEF TypeOK
  <2> HIDE DEF new
  <2>5. spending' = spending \cup {new}
    BY <2>1 DEF new
  <2>6. spending' \subseteq [cost : Costs, at : Time, n : Nat] /\ IsFiniteSet(spending')
    BY <2>4, <2>5, OneMore DEF TypeOK
  <2>7. /\ RequestsOK' /\ pc' \in [Slots -> Phases] /\ now' = now
        /\ \A x \in Slots : ask'[x].keys \subseteq Keys
    BY <2>2, LeaveOK DEF Kept
  <2>8. RoomForAll'
    BY <2>2, LeaveRoom
  <2> QED BY <2>2, <2>6, <2>7, <2>8 DEF TypeOK
<1> QED BY <1>1, <1>2, <1>3, <1>4, <1>5, <1>6, <1>7

-----------------------------------------------------------------------------
LEMMA InitIInv ==
    ASSUME ApiInit
    PROVE  IInv
<1> USE DEF ApiInit, Init
<1>1. \A s \in Slots : ask[s] = NoAsk /\ pc[s] = "idle"
  OBVIOUS
<1>2. RequestsOK
  BY <1>1, FS_EmptySet DEF RequestsOK, Fits, NoAsk
<1>3. \A key : FailuresOf({key}) = {} /\ Asking(key) = {}
  BY <1>1 DEF FailuresOf, Asking, NoAsk
<1>4. RoomForAll
  <2>1. Cardinality(Slots) \in Nat /\ AttemptLimit \in Nat \ {0}
    BY AccountsAssumption, FS_CardinalityType
  <2>2. 0 + 0 <= AttemptLimit - 1 + Cardinality(Slots)
    BY <2>1
  <2>3. \A key : Cardinality(FailuresOf({key})) = 0 /\ Cardinality(Asking(key)) = 0
    BY <1>3, FS_EmptySet
  <2> QED BY <2>2, <2>3 DEF RoomForAll
<1>5. /\ role \in [Emails -> Roles \cup {Nobody}] /\ now \in Time
      /\ begun \in Int /\ begun <= MaxRequests /\ pc \in [Slots -> Phases]
  BY AccountsAssumption DEF Time, Phases
<1>6. /\ sessions \subseteq [user : Emails, until : Nat, n : Nat]
      /\ \A row \in sessions : role[row.user] # Nobody
  BY AccountsAssumption
<1>7. IsFiniteSet(sessions)
  <2> DEFINE members == {e \in Emails : role[e] # Nobody}
             f == [e \in members |-> [user |-> e, until |-> SessionLife, n |-> 0]]
  <2>1. f \in Surjection(members, sessions)
    BY DEF Surjection
  <2>2. IsFiniteSet(members)
    BY AccountsAssumption, FS_Subset
  <2> HIDE DEF f, members
  <2> QED BY <2>1, <2>2, FS_Surjection
<1>8. \A s \in Slots : ask[s].keys \subseteq Keys
  BY <1>1 DEF NoAsk
<1>9. TypeOK
  BY <1>5, <1>6, <1>7, <1>8, FS_EmptySet DEF TypeOK
<1> QED BY <1>2, <1>4, <1>9 DEF IInv

LEMMA StepIInv ==
    ASSUME IInv, [ApiNext]_vars
    PROVE  IInv'
<1>1. CASE UNCHANGED vars
  <2>1. UNCHANGED <<now, role, failures, sessions, audit, setting, pc, ask, seen, begun,
                    usage, spending>>
    BY <1>1 DEF vars, accountTables, requests, allowanceTables
  <2>2. TypeOK'
    BY <2>1 DEF IInv, TypeOK
  <2>3. RequestsOK'
    BY <2>1 DEF IInv, RequestsOK
  <2>4. RoomForAll'
    BY <2>1 DEF IInv, RoomForAll, FailuresOf, Asking
  <2> QED BY <2>2, <2>3, <2>4 DEF IInv
<1>2. CASE AccountStep /\ UNCHANGED allowanceTables
  BY <1>2, SignupStep, LoginStep, RoleStep, SettingStep, OtherStep DEF AccountStep
<1>3. CASE ApiNext /\ ~(AccountStep /\ UNCHANGED allowanceTables)
  BY <1>3, AllowanceStep DEF ApiNext
<1> QED BY <1>1, <1>2, <1>3

(***************************************************************************)
(* Every variable keeps its type, sessions are of accounts that exist, and *)
(* the room for the failures to come is never exceeded.                    *)
(***************************************************************************)
THEOREM AlwaysIInv == ApiSpec => []IInv
BY InitIInv, StepIInv, PTL DEF ApiSpec

(***************************************************************************)
(* Type correctness of Accounts and Allowances.                            *)
(***************************************************************************)
THEOREM ApiTypeCorrect == ApiSpec => []TypeOK
<1>1. IInv => TypeOK
  BY DEF IInv
<1> QED BY <1>1, AlwaysIInv, PTL

(***************************************************************************)
(* However many sign-ins overlap, a key collects at most as many failures  *)
(* beyond the limit as requests run at one time (auth.py, _throttle).      *)
(***************************************************************************)
THEOREM AttemptsAreBounded == ApiSpec => []AttemptsBounded
<1>1. ASSUME IInv PROVE AttemptsBounded
  <2> SUFFICES ASSUME NEW key \in Keys
               PROVE  Cardinality(FailuresOf({key})) <= AttemptLimit - 1 + Cardinality(Slots)
    BY DEF AttemptsBounded
  <2>1. /\ Cardinality(FailuresOf({key})) \in Nat /\ Cardinality(Asking(key)) \in Nat
        /\ Cardinality(Slots) \in Nat /\ AttemptLimit \in Nat
    BY <1>1, CountsOK, AccountsAssumption DEF IInv
  <2>2. Cardinality(FailuresOf({key})) + Cardinality(Asking(key))
            <= AttemptLimit - 1 + Cardinality(Slots)
    BY <1>1 DEF IInv, RoomForAll
  <2> QED BY <2>1, <2>2
<1> QED BY <1>1, AlwaysIInv, PTL

-----------------------------------------------------------------------------
(***************************************************************************)
(* The same argument for uses.                                             *)
(***************************************************************************)
LEMMA UseCountsOK ==
    ASSUME TypeOK, NEW e, NEW kind
    PROVE  /\ \A since : /\ IsFiniteSet(Used(e, kind, since))
                         /\ Cardinality(Used(e, kind, since)) \in Nat
           /\ IsFiniteSet(Counted(e, kind)) /\ Cardinality(Counted(e, kind)) \in Nat
           /\ IsFiniteSet(Using(e, kind)) /\ Cardinality(Using(e, kind)) \in Nat
           /\ IsFiniteSet(Slots) /\ Cardinality(Slots) \in Nat
<1>1. \A since : IsFiniteSet(Used(e, kind, since))
  BY FS_Subset DEF Used, TypeOK
<1>2. IsFiniteSet(Counted(e, kind))
  BY <1>1, FS_Subset DEF Counted
<1>3. IsFiniteSet(Slots) /\ IsFiniteSet(Using(e, kind))
  BY AccountsAssumption, FS_Subset DEF Using
<1> QED BY <1>1, <1>2, <1>3, FS_CardinalityType

LEMMA UsesKept ==
    ASSUME TypeOK, UsesForAll, NEW e \in Emails, NEW kind \in Kinds,
           Counted(e, kind)' \subseteq Counted(e, kind),
           Using(e, kind)' \subseteq Using(e, kind)
    PROVE  Cardinality(Counted(e, kind))' + Cardinality(Using(e, kind))'
               <= Ceiling[kind] - 1 + Cardinality(Slots)
<1>1. /\ Cardinality(Counted(e, kind)') <= Cardinality(Counted(e, kind))
      /\ Cardinality(Counted(e, kind)') \in Nat
  BY UseCountsOK, FS_Subset, FS_CardinalityType
<1>2. /\ Cardinality(Using(e, kind)') <= Cardinality(Using(e, kind))
      /\ Cardinality(Using(e, kind)') \in Nat
  BY UseCountsOK, FS_Subset, FS_CardinalityType
<1>3. /\ Cardinality(Counted(e, kind)) \in Nat /\ Cardinality(Using(e, kind)) \in Nat
      /\ Cardinality(Slots) \in Nat
  BY UseCountsOK
<1>4. Cardinality(Counted(e, kind)) + Cardinality(Using(e, kind))
          <= Ceiling[kind] - 1 + Cardinality(Slots)
  BY DEF UsesForAll
<1>5. Ceiling[kind] \in Nat
  BY AllowancesAssumption
<1> HIDE DEF Counted, Using
<1> QED BY <1>1, <1>2, <1>3, <1>4, <1>5

\* No request comes to have counted a use, and none is recorded.
LEMMA UsesCalm ==
    ASSUME TypeOK, UsesForAll, UNCHANGED <<now, usage>>,
           \A x \in Slots : pc'[x] = "counted" => pc[x] = "counted" /\ ask'[x] = ask[x]
    PROVE  UsesForAll'
<1> SUFFICES ASSUME NEW e \in Emails, NEW kind \in Kinds
             PROVE  Cardinality(Counted(e, kind))' + Cardinality(Using(e, kind))'
                        <= Ceiling[kind] - 1 + Cardinality(Slots)
  BY DEF UsesForAll
<1>1. Counted(e, kind)' \subseteq Counted(e, kind)
  BY DEF Counted, Used
<1>2. Using(e, kind)' \subseteq Using(e, kind)
  BY DEF Using
<1> QED BY <1>1, <1>2, UsesKept

LEMMA ReceiveCalm ==
    ASSUME UInv, NEW s \in Slots, NEW where, NEW what, Receive(s, where, what),
           where # "counted", UNCHANGED <<now, usage>>
    PROVE  UsesForAll'
<1>1. \A x \in Slots : pc'[x] = "counted" => pc[x] = "counted" /\ ask'[x] = ask[x]
  BY DEF Receive, UInv, IInv, TypeOK, RequestsOK
<1> QED BY <1>1, UsesCalm DEF UInv, IInv

LEMMA ProceedCalm ==
    ASSUME UInv, NEW s \in Slots, NEW here, NEW there, NEW row, Proceed(s, here, there, row),
           there # "counted", UNCHANGED usage
    PROVE  UsesForAll'
<1>1. \A x \in Slots : pc'[x] = "counted" => pc[x] = "counted" /\ ask'[x] = ask[x]
  BY DEF Proceed, UInv, IInv, TypeOK
<1> QED BY <1>1, UsesCalm DEF UInv, IInv, Proceed

LEMMA LeaveCalm ==
    ASSUME UInv, NEW s \in Slots, NEW here, Leave(s, here), UNCHANGED usage
    PROVE  UsesForAll'
<1>1. \A x \in Slots : pc'[x] = "counted" => pc[x] = "counted" /\ ask'[x] = ask[x]
  BY DEF Leave, UInv, IInv, TypeOK, RequestsOK
<1> QED BY <1>1, UsesCalm DEF UInv, IInv, Leave

LEMMA AskUses ==
    ASSUME UInv, NEW s \in Slots, AskAllowance(s)
    PROVE  UsesForAll'
<1> USE DEF UInv, IInv
<1>1. /\ pc[s] = "allowance"
      /\ ask[s].admin \/ MayUse(ask[s].who, ask[s].kind)
      /\ Proceed(s, "allowance", IF ask[s].admin THEN "exempt" ELSE "counted", Nobody)
      /\ usage' = usage
  BY DEF AskAllowance, allowanceTables
<1>2. CASE ask[s].admin
  BY <1>1, <1>2, ProceedCalm
<1>3. CASE ~ask[s].admin
  <2>1. /\ Cardinality(Used(ask[s].who, ask[s].kind, now - Window[ask[s].kind]))
               < Ceiling[ask[s].kind]
    BY <1>1, <1>3 DEF MayUse
  <2>2. /\ now' = now /\ ask' = ask
        /\ pc'[s] = "counted" /\ \A x \in Slots \ {s} : pc'[x] = pc[x]
    BY <1>1, <1>3 DEF Proceed, TypeOK
  <2> SUFFICES ASSUME NEW e \in Emails, NEW kind \in Kinds
               PROVE  Cardinality(Counted(e, kind))' + Cardinality(Using(e, kind))'
                          <= Ceiling[kind] - 1 + Cardinality(Slots)
    BY DEF UsesForAll
  <2>3. Counted(e, kind)' = Counted(e, kind)
    BY <1>1, <2>2 DEF Counted, Used
  <2>4. CASE ask[s].who = e /\ ask[s].kind = kind
    <3>1. Counted(e, kind) \subseteq Used(e, kind, now - Window[kind])
      BY DEF Counted
    <3>2. /\ Cardinality(Counted(e, kind)) <= Cardinality(Used(e, kind, now - Window[kind]))
          /\ Cardinality(Used(e, kind, now - Window[kind])) \in Nat
      BY <3>1, UseCountsOK, FS_Subset
    <3>3. Using(e, kind)' \subseteq Slots
      BY DEF Using
    <3>4. /\ Cardinality(Using(e, kind)') <= Cardinality(Slots)
          /\ Cardinality(Using(e, kind)') \in Nat
      BY <3>3, UseCountsOK, FS_Subset, FS_CardinalityType
    <3>5. /\ Cardinality(Counted(e, kind)) \in Nat /\ Cardinality(Slots) \in Nat
          /\ Ceiling[kind] \in Nat
      BY UseCountsOK, AllowancesAssumption
    <3>6. Cardinality(Used(e, kind, now - Window[kind])) < Ceiling[kind]
      BY <2>1, <2>4
    <3> QED BY <2>3, <3>2, <3>4, <3>5, <3>6
  <2>5. CASE ~(ask[s].who = e /\ ask[s].kind = kind)
    <3>1. Using(e, kind)' \subseteq Using(e, kind)
      BY <2>2, <2>5 DEF Using
    <3> QED BY <2>3, <3>1, UsesKept
  <2> QED BY <2>4, <2>5
<1> QED BY <1>2, <1>3

LEMMA RecordUses ==
    ASSUME UInv, NEW s \in Slots, RecordCounted(s) \/ RecordExempt(s)
    PROVE  UsesForAll'
<1> USE DEF UInv, IInv
<1> DEFINE r == ask[s]
           same == {row \in usage : row.user = r.who /\ row.kind = r.kind /\ row.at = now}
           new == [user |-> r.who, kind |-> r.kind, at |-> now, counted |-> ~r.admin,
                   n |-> Fresh(same)]
<1>1. usage' = usage \/ usage' = usage \cup {new}
  BY DEF RecordCounted, RecordExempt, RecordUse
<1>2. new.user = r.who /\ new.kind = r.kind /\ new.counted = ~r.admin
  OBVIOUS
<1>3. /\ pc[s] \in {"counted", "exempt"} /\ now' = now /\ ask'[s] = NoAsk /\ pc'[s] = "idle"
      /\ \A x \in Slots \ {s} : pc'[x] = pc[x] /\ ask'[x] = ask[x]
  BY DEF RecordCounted, RecordExempt, End, Leave, TypeOK, RequestsOK
<1>4. pc[s] = "exempt" => r.admin
  BY DEF RequestsOK, Fits
<1> HIDE DEF new
<1> SUFFICES ASSUME NEW e \in Emails, NEW kind \in Kinds
             PROVE  Cardinality(Counted(e, kind))' + Cardinality(Using(e, kind))'
                        <= Ceiling[kind] - 1 + Cardinality(Slots)
  BY DEF UsesForAll
<1>5. CASE pc[s] = "counted" /\ r.who = e /\ r.kind = kind
  <2>1. Counted(e, kind)' \subseteq Counted(e, kind) \cup {new}
    BY <1>1, <1>3 DEF Counted, Used
  <2>2. /\ IsFiniteSet(Counted(e, kind) \cup {new})
        /\ Cardinality(Counted(e, kind) \cup {new}) <= Cardinality(Counted(e, kind)) + 1
    <3>1. IsFiniteSet(Counted(e, kind))
      BY UseCountsOK
    <3> QED BY <3>1, OneMore
  <2>3. /\ Cardinality(Counted(e, kind)') <= Cardinality(Counted(e, kind) \cup {new})
        /\ IsFiniteSet(Counted(e, kind)')
    BY <2>1, <2>2, FS_Subset
  <2>4. /\ Cardinality(Counted(e, kind)) \in Nat
        /\ Cardinality(Counted(e, kind)') \in Nat
        /\ Cardinality(Counted(e, kind) \cup {new}) \in Nat
    BY <2>2, <2>3, UseCountsOK, FS_CardinalityType
  <2>5. Using(e, kind)' = Using(e, kind) \ {s} /\ s \in Using(e, kind)
    BY <1>3, <1>5 DEF Using
  <2>6. Cardinality(Using(e, kind)') = Cardinality(Using(e, kind)) - 1
    BY <2>5, UseCountsOK, FS_RemoveElement
  <2>7. Cardinality(Counted(e, kind)) + Cardinality(Using(e, kind))
            <= Ceiling[kind] - 1 + Cardinality(Slots)
    BY DEF UsesForAll
  <2>8. /\ Cardinality(Using(e, kind)) \in Nat /\ Cardinality(Slots) \in Nat
        /\ Ceiling[kind] \in Nat
    BY UseCountsOK, AllowancesAssumption
  <2> HIDE DEF Counted, Using
  <2> QED BY <2>2, <2>3, <2>4, <2>6, <2>7, <2>8
<1>6. CASE ~(pc[s] = "counted" /\ r.who = e /\ r.kind = kind)
  <2>1. ~(new.user = e /\ new.kind = kind /\ new.counted)
    BY <1>2, <1>3, <1>4, <1>6
  <2>2. Counted(e, kind)' \subseteq Counted(e, kind)
    BY <1>1, <1>3, <2>1 DEF Counted, Used
  <2>3. Using(e, kind)' \subseteq Using(e, kind)
    BY <1>3 DEF Using
  <2> QED BY <2>2, <2>3, UsesKept
<1> QED BY <1>5, <1>6

LEMMA TickUses ==
    ASSUME UInv, Tick, UNCHANGED usage
    PROVE  UsesForAll'
<1> USE DEF UInv, IInv
<1> SUFFICES ASSUME NEW e \in Emails, NEW kind \in Kinds
             PROVE  Cardinality(Counted(e, kind))' + Cardinality(Using(e, kind))'
                        <= Ceiling[kind] - 1 + Cardinality(Slots)
  BY DEF UsesForAll
<1>1. pc' = pc /\ ask' = ask /\ now' = now + 1
  BY DEF Tick, requests
<1>2. \A row \in usage : row.at \in Int
  BY AccountsAssumption DEF TypeOK, Time
<1>3. now \in Int /\ Window[kind] \in Int
  BY AccountsAssumption, AllowancesAssumption DEF TypeOK, Time
<1>4. Counted(e, kind)' \subseteq Counted(e, kind)
  BY <1>1, <1>2, <1>3 DEF Counted, Used
<1>5. Using(e, kind)' \subseteq Using(e, kind)
  BY <1>1 DEF Using
<1> QED BY <1>4, <1>5, UsesKept

LEMMA AccountUses ==
    ASSUME UInv, AccountStep, UNCHANGED allowanceTables
    PROVE  UsesForAll'
<1>0. usage' = usage
  BY DEF allowanceTables
<1>1. ASSUME NEW s \in Slots,
             \/ Signup(s) \/ Login(s) \/ SetRole(s) \/ GrantRole(s) \/ PutSetting(s)
      PROVE  UsesForAll'
  <2>1. \E where, what : Receive(s, where, what) /\ where # "counted" /\ now' = now
    BY <1>1 DEF Signup, Login, SetRole, GrantRole, PutSetting
  <2> QED BY <1>0, <2>1, ReceiveCalm
<1>2. ASSUME NEW s \in Slots,
             LookUpEmail(s) \/ VerifyPassword(s) \/ LoadTarget(s) \/ LoadSetting(s)
      PROVE  UsesForAll'
  <2>1. \E here, there, row : Proceed(s, here, there, row) /\ there # "counted"
    BY <1>2 DEF LookUpEmail, VerifyPassword, LoadTarget, LoadSetting
  <2> QED BY <1>0, <2>1, ProceedCalm
<1>3. ASSUME NEW s \in Slots,
             \/ RefuseSignup(s) \/ CreateAccount(s) \/ RefuseLogin(s) \/ SignIn(s)
             \/ WriteRole(s) \/ WriteGrant(s) \/ SaveSetting(s) \/ Abandon(s)
      PROVE  UsesForAll'
  <2>1. \E here : Leave(s, here)
    BY <1>3 DEF RefuseSignup, CreateAccount, RefuseLogin, SignIn, WriteRole, WriteGrant,
                SaveSetting, Abandon, End
  <2> QED BY <1>0, <2>1, LeaveCalm
<1>4. CASE Logout
  <2>1. UNCHANGED <<now, pc, ask>>
    BY <1>4 DEF Logout, requests
  <2> QED BY <1>0, <2>1, UsesCalm DEF UInv, IInv
<1>5. CASE Tick
  BY <1>0, <1>5, TickUses
<1> QED BY <1>1, <1>2, <1>3, <1>4, <1>5 DEF AccountStep

LEMMA StepUInv ==
    ASSUME UInv, [ApiNext]_vars
    PROVE  UInv'
<1>1. IInv'
  BY StepIInv DEF UInv
<1>2. CASE UNCHANGED vars
  <2>1. UNCHANGED <<now, pc, ask, usage>>
    BY <1>2 DEF vars, requests, allowanceTables
  <2>2. UsesForAll'
    BY <2>1, UsesCalm DEF UInv, IInv
  <2> QED BY <1>1, <2>2 DEF UInv
<1>3. CASE AccountStep /\ UNCHANGED allowanceTables
  BY <1>1, <1>3, AccountUses DEF UInv
<1>4. ASSUME NEW s \in Slots, Use(s) \/ Analyse(s)
      PROVE  UsesForAll'
  <2>1. \E where, what :
            Receive(s, where, what) /\ where # "counted" /\ now' = now /\ usage' = usage
    BY <1>4 DEF Use, Analyse, allowanceTables
  <2> QED BY <2>1, ReceiveCalm
<1>5. ASSUME NEW s \in Slots, CallModel(s)
      PROVE  UsesForAll'
  <2>1. Proceed(s, "explain", "explaining", Nobody) /\ usage' = usage
    BY <1>5 DEF CallModel, allowanceTables
  <2> QED BY <2>1, ProceedCalm
<1>6. ASSUME NEW s \in Slots, RecordCost(s)
      PROVE  UsesForAll'
  <2>1. Leave(s, "explaining") /\ usage' = usage
    BY <1>6 DEF RecordCost, End
  <2> QED BY <2>1, LeaveCalm
<1>7. CASE \E s \in Slots :
              \/ Use(s) \/ AskAllowance(s) \/ RecordCounted(s) \/ RecordExempt(s)
              \/ Analyse(s) \/ CallModel(s) \/ RecordCost(s)
  BY <1>1, <1>4, <1>5, <1>6, <1>7, AskUses, RecordUses DEF UInv
<1> QED BY <1>2, <1>3, <1>7 DEF ApiNext

(***************************************************************************)
(* However many offers, comparisons and listing reads overlap, a window    *)
(* holds at most as many counted ones beyond the ceiling as requests run   *)
(* at one time (_derived_allowance, _parse_allowance): the first half of   *)
(* CeilingsHold.                                                           *)
(***************************************************************************)
THEOREM UsesAreBounded == ApiSpec => []UsesWithinCeiling
<1>1. ASSUME ApiInit PROVE UInv
  <2>1. IInv
    BY <1>1, InitIInv
  <2>2. \A e, kind : Counted(e, kind) = {} /\ Using(e, kind) = {}
    BY <1>1 DEF ApiInit, Init, Counted, Used, Using
  <2>3. \A e, kind : Cardinality(Counted(e, kind)) = 0 /\ Cardinality(Using(e, kind)) = 0
    BY <2>2, FS_EmptySet
  <2>4. Cardinality(Slots) \in Nat
    BY AccountsAssumption, FS_CardinalityType
  <2>5. \A kind \in Kinds : 0 + 0 <= Ceiling[kind] - 1 + Cardinality(Slots)
    BY <2>4, AllowancesAssumption
  <2> QED BY <2>1, <2>3, <2>5 DEF UInv, UsesForAll
<1>2. ASSUME UInv PROVE UsesWithinCeiling
  <2> SUFFICES ASSUME NEW e \in Emails, NEW kind \in Kinds
               PROVE  Cardinality(Counted(e, kind)) <= Ceiling[kind] - 1 + Cardinality(Slots)
    BY DEF UsesWithinCeiling
  <2>1. /\ Cardinality(Counted(e, kind)) \in Nat /\ Cardinality(Using(e, kind)) \in Nat
        /\ Cardinality(Slots) \in Nat /\ Ceiling[kind] \in Nat
    BY <1>2, UseCountsOK, AllowancesAssumption DEF UInv, IInv
  <2>2. Cardinality(Counted(e, kind)) + Cardinality(Using(e, kind))
            <= Ceiling[kind] - 1 + Cardinality(Slots)
    BY <1>2 DEF UInv, UsesForAll
  <2> QED BY <2>1, <2>2
<1> QED BY <1>1, <1>2, StepUInv, PTL DEF ApiSpec

-----------------------------------------------------------------------------
(***************************************************************************)
(* Only the operator, or the request of someone demoted meanwhile, can     *)
(* take the last administrator away (admin.py, set_role).                  *)
(***************************************************************************)
LeavesByLeave ==
    Administrators # {} /\ Administrators' = {} =>
        \E s \in Slots :
            \/ pc[s] = "granting"
            \/ pc[s] = "giving" /\ ask[s].who \notin Administrators

LEMMA OnlyMore ==
    ASSUME \A e \in Emails : role[e] = "admin" => role'[e] = "admin"
    PROVE  LeavesByLeave
BY DEF LeavesByLeave, Administrators

LEMMA AdministratorStep ==
    ASSUME IInv, [ApiNext]_vars
    PROVE  LeavesByLeave
<1> USE DEF IInv
<1>0. role \in [Emails -> Roles \cup {Nobody}] /\ Nobody # "admin"
  BY AccountsAssumption DEF TypeOK, Roles
<1>1. CASE role' = role
  BY <1>1, OnlyMore
<1>2. ASSUME NEW s \in Slots, CreateAccount(s) PROVE LeavesByLeave
  <2>1. role[ask[s].who] = Nobody
    BY <1>2 DEF CreateAccount
  <2>2. \A e \in Emails : e # ask[s].who => role'[e] = role[e]
    BY <1>0, <1>2 DEF CreateAccount
  <2> QED BY <1>0, <2>1, <2>2, OnlyMore
<1>3. ASSUME NEW s \in Slots, SignIn(s) PROVE LeavesByLeave
  <2>1. role' = role \/ role' = [role EXCEPT ![ask[s].who] = "admin"]
    BY <1>3 DEF SignIn, Promote
  <2> QED BY <1>0, <2>1, OnlyMore
<1>4. ASSUME NEW s \in Slots, WriteRole(s) PROVE LeavesByLeave
  <2>1. pc[s] = "giving"
    BY <1>4 DEF WriteRole, End, Leave
  <2>2. /\ ask[s].who \in Emails
        /\ ask[s].target = ask[s].who => ask[s].to = "admin"
    BY <2>1 DEF RequestsOK, Fits, MayGive
  <2>3. role' = role \/ role' = [role EXCEPT ![ask[s].target] = ask[s].to]
    BY <1>4 DEF WriteRole, Give
  <2>4. CASE ask[s].who \in Administrators
    <3>1. ask[s].who \in Administrators'
      BY <1>0, <2>2, <2>3, <2>4 DEF Administrators
    <3> QED BY <3>1 DEF LeavesByLeave
  <2> QED BY <2>1, <2>4 DEF LeavesByLeave
<1>5. ASSUME NEW s \in Slots, WriteGrant(s) PROVE LeavesByLeave
  <2>1. pc[s] = "granting"
    BY <1>5 DEF WriteGrant, End, Leave
  <2> QED BY <2>1 DEF LeavesByLeave
<1>6. ASSUME NEW s \in Slots,
             \/ Signup(s) \/ LookUpEmail(s) \/ RefuseSignup(s)
             \/ Login(s) \/ VerifyPassword(s) \/ RefuseLogin(s)
             \/ SetRole(s) \/ LoadTarget(s) \/ GrantRole(s)
             \/ PutSetting(s) \/ LoadSetting(s) \/ SaveSetting(s) \/ Abandon(s)
      PROVE  role' = role
  BY <1>6 DEF Signup, LookUpEmail, RefuseSignup, Login, VerifyPassword, RefuseLogin, SetRole,
              LoadTarget, GrantRole, PutSetting, LoadSetting, SaveSetting, Abandon, Proceed,
              RecordFailure, accountTables
<1>7. ASSUME Logout \/ Tick PROVE role' = role
  BY <1>7 DEF Logout, Tick, accountTables
<1>8. ASSUME NEW s \in Slots,
             \/ Use(s) \/ AskAllowance(s) \/ RecordCounted(s) \/ RecordExempt(s)
             \/ Analyse(s) \/ CallModel(s) \/ RecordCost(s)
      PROVE  role' = role
  BY <1>8 DEF Use, AskAllowance, RecordCounted, RecordExempt, RecordUse, Analyse, CallModel,
              RecordCost, Proceed, accountTables
<1>9. CASE UNCHANGED vars
  BY <1>1, <1>9 DEF vars, accountTables
<1>10. CASE AccountStep
  BY <1>1, <1>2, <1>3, <1>4, <1>5, <1>6, <1>7, <1>10 DEF AccountStep
<1>11. CASE \E s \in Slots :
               \/ Use(s) \/ AskAllowance(s) \/ RecordCounted(s) \/ RecordExempt(s)
               \/ Analyse(s) \/ CallModel(s) \/ RecordCost(s)
  BY <1>1, <1>8, <1>11
<1> QED BY <1>9, <1>10, <1>11 DEF ApiNext

(***************************************************************************)
(* No administrator can leave the service without one (admin.py,           *)
(* set_role), except by the operator's command or after being demoted.     *)
(***************************************************************************)
THEOREM AdministratorStays == ApiSpec => LastAdministratorStays
<1>1. IInv /\ [ApiNext]_vars => [LeavesByLeave]_<<role, pc, ask>>
  BY AdministratorStep
<1> QED BY <1>1, AlwaysIInv, PTL DEF ApiSpec, LastAdministratorStays, LeavesByLeave

-----------------------------------------------------------------------------
(***************************************************************************)
(* The day's spending: the calls under way may each still cost as much as  *)
(* the dearest one.                                                        *)
(***************************************************************************)
Calling == {s \in Slots : pc[s] = "explaining"}

SpendingForAll ==
    Budget # 0 =>
        Spent + Cardinality(Calling) * DearestCost
            <= Budget - 1 + Cardinality(Slots) * DearestCost

BInv == IInv /\ SpendingForAll

LEMMA CostsBounded == \A cost \in Costs : cost \in Nat /\ cost <= DearestCost
<1>1. DearestCost \in Nat
  BY AllowancesAssumption
<1>2. \A cost \in Costs : cost \in 0..DearestCost
  BY AllowancesAssumption
<1> QED BY <1>1, <1>2

LEMMA SpentIs ==
    ASSUME TypeOK
    PROVE  /\ Spent = CostOf(Today) /\ Priced(Today) /\ Spent \in Nat
           /\ IsFiniteSet(Calling) /\ Cardinality(Calling) \in Nat
           /\ Cardinality(Slots) \in Nat /\ Cardinality(Calling) <= Cardinality(Slots)
<1>1. Today \in SUBSET spending /\ IsFiniteSet(spending)
  BY DEF Today, TypeOK
<1>2. \A row \in spending : row.cost \in Nat
  <2>1. \A cost \in Costs : cost \in Nat /\ cost <= DearestCost
    BY CostsBounded
  <2>2. spending \subseteq [cost : Costs, at : Time, n : Nat]
    BY DEF TypeOK
  <2> QED BY <2>1, <2>2
<1>3. Priced(Today)
  BY <1>1, <1>2, FS_Subset DEF Priced
<1>4. Spent = CostOf(Today)
  BY DEF Spent, CostOf
<1>5. Calling \in SUBSET Slots /\ IsFiniteSet(Slots)
  BY AccountsAssumption DEF Calling
<1>6. IsFiniteSet(Calling) /\ Cardinality(Calling) <= Cardinality(Slots)
  BY <1>5, FS_Subset
<1> QED BY <1>3, <1>4, <1>5, <1>6, CostType, FS_CardinalityType

(***************************************************************************)
(* Nothing more is spent or called for than before.                        *)
(***************************************************************************)
LEMMA SpendingKept ==
    ASSUME BInv, IInv', Today' \subseteq Today, Calling' \subseteq Calling
    PROVE  SpendingForAll'
<1>1. /\ Spent = CostOf(Today) /\ Priced(Today) /\ Spent \in Nat
      /\ IsFiniteSet(Calling) /\ Cardinality(Calling) \in Nat
  BY SpentIs DEF BInv, IInv
<1>2. Spent' = CostOf(Today')
  BY DEF Spent, CostOf, MapThenSumSet, MapThenFoldSet
<1>3. Priced(Today') /\ CostOf(Today') <= CostOf(Today)
  BY <1>1, FewerCostLess
<1>4. CostOf(Today') \in Nat
  BY <1>3, CostType
<1>5. IsFiniteSet(Calling') /\ Cardinality(Calling') <= Cardinality(Calling)
  BY <1>1, FS_Subset
<1>6. Cardinality(Calling') \in Nat
  BY <1>5, FS_CardinalityType
<1>7. DearestCost \in Nat /\ Budget \in Nat /\ Cardinality(Slots) \in Nat
  BY AllowancesAssumption, AccountsAssumption, FS_CardinalityType
<1>8. /\ Cardinality(Calling') * DearestCost <= Cardinality(Calling) * DearestCost
      /\ Cardinality(Calling') * DearestCost \in Nat /\ Cardinality(Calling) * DearestCost \in Nat
  BY <1>1, <1>5, <1>6, <1>7, ProductMonotone
<1>9. Cardinality(Slots) * DearestCost \in Nat
  BY <1>7, ProductMonotone
<1>10. PICK spent, spent1, kept, kept1, all :
          /\ spent = Spent /\ spent1 = Spent'
          /\ kept = Cardinality(Calling) * DearestCost
          /\ kept1 = Cardinality(Calling') * DearestCost
          /\ all = Cardinality(Slots) * DearestCost
  OBVIOUS
<1>11. Budget # 0 => spent + kept <= Budget - 1 + all
  BY <1>10 DEF BInv, SpendingForAll
<1>12. /\ {spent, spent1, kept, kept1, all} \subseteq Nat
       /\ spent1 <= spent /\ kept1 <= kept
  BY <1>1, <1>2, <1>3, <1>4, <1>8, <1>9, <1>10
<1>13. Budget # 0 => spent1 + kept1 <= Budget - 1 + all
  BY <1>7, <1>11, <1>12
<1> QED BY <1>10, <1>13 DEF SpendingForAll

LEMMA SpendingCalm ==
    ASSUME BInv, IInv', UNCHANGED <<now, spending>>,
           \A x \in Slots : pc'[x] = "explaining" => pc[x] = "explaining"
    PROVE  SpendingForAll'
<1>1. Today' \subseteq Today /\ Calling' \subseteq Calling
  BY DEF Today, Calling
<1> QED BY <1>1, SpendingKept

(***************************************************************************)
(* A new day forgets rows, and no other moment does more.                  *)
(***************************************************************************)
LEMMA TickSpending ==
    ASSUME BInv, IInv', Tick, UNCHANGED spending
    PROVE  SpendingForAll'
<1>1. now' = now + 1 /\ pc' = pc
  BY DEF Tick, requests
<1>2. now \in Nat /\ DayLength \in Nat \ {0} /\ \A row \in spending : row.at \in Nat
  BY AllowancesAssumption DEF BInv, IInv, TypeOK, Time
<1>3. ((now + 1) % DayLength) <= (now % DayLength) + 1
  BY <1>2, RemainderStep
<1>4. (now % DayLength) \in Nat /\ ((now + 1) % DayLength) \in Nat
  BY <1>2, RemainderIs
<1>5. now - (now % DayLength) <= (now + 1) - ((now + 1) % DayLength)
  BY <1>2, <1>3, <1>4
<1>6. Today' \subseteq Today
  <2>1. PICK d, d1 : d = now - (now % DayLength) /\ d1 = (now + 1) - ((now + 1) % DayLength)
    OBVIOUS
  <2>2. d \in Int /\ d1 \in Int /\ d <= d1
    BY <1>2, <1>4, <1>5, <2>1
  <2>3. Today = {row \in spending : row.at >= d} /\ Today' = {row \in spending : row.at >= d1}
    BY <1>1, <2>1 DEF Today
  <2> QED BY <1>2, <2>2, <2>3
<1>7. Calling' \subseteq Calling
  BY <1>1 DEF Calling
<1> QED BY <1>6, <1>7, SpendingKept

(***************************************************************************)
(* The model is called only while the day is below its budget.             *)
(***************************************************************************)
LEMMA CallSpending ==
    ASSUME BInv, IInv', NEW s \in Slots, CallModel(s)
    PROVE  SpendingForAll'
<1>1. Budget = 0 \/ Spent < Budget
  BY DEF CallModel, WithinBudget
<1>2. Spent' = Spent
  <2>1. Today' = Today
    BY DEF CallModel, Proceed, allowanceTables, Today
  <2>2. Spent = CostOf(Today) /\ Spent' = CostOf(Today')
    BY DEF Spent, CostOf, MapThenSumSet, MapThenFoldSet
  <2> QED BY <2>1, <2>2
<1>3. /\ Spent \in Nat /\ Cardinality(Slots) \in Nat
      /\ Cardinality(Calling') \in Nat /\ Cardinality(Calling') <= Cardinality(Slots)
  <2>1. Spent \in Nat /\ Cardinality(Slots) \in Nat
    BY SpentIs DEF BInv, IInv
  <2>2. Calling' \in SUBSET Slots /\ IsFiniteSet(Slots)
    BY AccountsAssumption DEF Calling
  <2>3. IsFiniteSet(Calling') /\ Cardinality(Calling') <= Cardinality(Slots)
    BY <2>2, FS_Subset
  <2> QED BY <2>1, <2>3, FS_CardinalityType
<1>4. DearestCost \in Nat /\ Budget \in Nat
  BY AllowancesAssumption
<1>5. /\ Cardinality(Calling') * DearestCost <= Cardinality(Slots) * DearestCost
      /\ Cardinality(Calling') * DearestCost \in Nat /\ Cardinality(Slots) * DearestCost \in Nat
  BY <1>3, <1>4, ProductMonotone
<1>6. PICK kept1, all : /\ kept1 = Cardinality(Calling') * DearestCost
                        /\ all = Cardinality(Slots) * DearestCost
  OBVIOUS
<1>7. Budget # 0 => Spent + kept1 <= Budget - 1 + all
  BY <1>1, <1>3, <1>4, <1>5, <1>6
<1> QED BY <1>2, <1>6, <1>7 DEF SpendingForAll

LEMMA RecordSpending ==
    ASSUME BInv, IInv', NEW s \in Slots, RecordCost(s)
    PROVE  SpendingForAll'
<1> USE DEF BInv, IInv
<1>1. /\ pc[s] = "explaining" /\ pc' = [pc EXCEPT ![s] = "idle"] /\ now' = now
  BY DEF RecordCost, End, Leave
<1>2. PICK row : row.cost \in Costs /\ row.at = now /\ spending' = spending \cup {row}
  BY DEF RecordCost
<1>3. row.cost \in Nat /\ row.cost <= DearestCost /\ DearestCost \in Nat /\ Budget \in Nat
  <2>1. DearestCost \in Nat /\ Budget \in Nat /\ \A cost \in Costs : cost \in Nat /\ cost <= DearestCost
    BY AllowancesAssumption, CostsBounded
  <2> QED BY <1>2, <2>1
<1>4. now - (now % DayLength) <= now
  <2>1. now \in Nat /\ DayLength \in Nat \ {0}
    BY AllowancesAssumption DEF TypeOK, Time
  <2>2. (now % DayLength) \in Nat
    BY <2>1, RemainderIs
  <2> QED BY <2>1, <2>2
<1>5. Today' = Today \cup {row}
  BY <1>1, <1>2, <1>4 DEF Today
<1>6. /\ Spent = CostOf(Today) /\ Priced(Today) /\ Spent \in Nat
      /\ IsFiniteSet(Calling) /\ Cardinality(Calling) \in Nat /\ Cardinality(Slots) \in Nat
  BY SpentIs
<1>7. Spent' = CostOf(Today \cup {row})
  <2>1. Spent' = CostOf(Today')
    BY DEF Spent, CostOf, MapThenSumSet, MapThenFoldSet
  <2> QED BY <1>5, <2>1
<1>8. Priced(Today \cup {row}) /\ CostOf(Today \cup {row}) <= CostOf(Today) + row.cost
  BY <1>3, <1>6, OneMoreCost
<1>9. Spent' \in Nat /\ Spent' <= Spent + DearestCost
  BY <1>3, <1>6, <1>7, <1>8, CostType
<1>10. Calling' = Calling \ {s} /\ s \in Calling
  BY <1>1 DEF Calling, TypeOK
<1>11. /\ Cardinality(Calling') = Cardinality(Calling) - 1
       /\ Cardinality(Calling') \in Nat
  BY <1>6, <1>10, FS_RemoveElement, FS_CardinalityType
<1>12. PICK n, n1 : n = Cardinality(Calling) /\ n1 = Cardinality(Calling')
  OBVIOUS
<1>13. n1 \in Nat /\ n = n1 + 1
  BY <1>6, <1>11, <1>12
<1>14. n * DearestCost = n1 * DearestCost + DearestCost
  BY <1>3, <1>13, ProductStep
<1>15. n1 * DearestCost \in Nat /\ Cardinality(Slots) * DearestCost \in Nat
  BY <1>3, <1>6, <1>13, ProductMonotone
<1>16. PICK kept1, all : kept1 = n1 * DearestCost /\ all = Cardinality(Slots) * DearestCost
  OBVIOUS
<1>17. Budget # 0 => Spent + (kept1 + DearestCost) <= Budget - 1 + all
  BY <1>12, <1>14, <1>16 DEF SpendingForAll
<1>18. Budget # 0 => Spent' + kept1 <= Budget - 1 + all
  BY <1>3, <1>6, <1>9, <1>15, <1>16, <1>17
<1> QED BY <1>12, <1>16, <1>18 DEF SpendingForAll

LEMMA StepBInv ==
    ASSUME BInv, [ApiNext]_vars
    PROVE  BInv'
<1>1. IInv'
  BY StepIInv DEF BInv
<1>p. pc \in [Slots -> Phases]
  BY DEF BInv, IInv, TypeOK
<1>2. ASSUME NEW s \in Slots,
             \/ \E where, what : Receive(s, where, what) /\ where # "explaining"
             \/ \E here, there, row : Proceed(s, here, there, row) /\ there # "explaining"
             \/ \E here : Leave(s, here),
             UNCHANGED <<now, spending>>
      PROVE  SpendingForAll'
  <2>1. PICK there : pc' = [pc EXCEPT ![s] = there] /\ there # "explaining"
    BY <1>2 DEF Receive, Proceed, Leave
  <2>2. \A x \in Slots : pc'[x] = "explaining" => pc[x] = "explaining"
    BY <1>p, <2>1
  <2> QED BY <1>1, <1>2, <2>2, SpendingCalm
<1>3. CASE UNCHANGED vars \/ (Logout /\ UNCHANGED allowanceTables)
  <2>1. UNCHANGED <<now, pc, spending>>
    BY <1>3 DEF vars, Logout, requests, allowanceTables
  <2> QED BY <1>1, <2>1, SpendingCalm DEF BInv
<1>4. CASE Tick /\ UNCHANGED allowanceTables
  BY <1>1, <1>4, TickSpending DEF BInv, allowanceTables
<1>5. ASSUME NEW s \in Slots, UNCHANGED allowanceTables,
             \/ Signup(s) \/ LookUpEmail(s) \/ RefuseSignup(s) \/ CreateAccount(s)
             \/ Login(s) \/ VerifyPassword(s) \/ RefuseLogin(s) \/ SignIn(s)
             \/ SetRole(s) \/ LoadTarget(s) \/ WriteRole(s)
             \/ GrantRole(s) \/ WriteGrant(s)
             \/ PutSetting(s) \/ LoadSetting(s) \/ SaveSetting(s)
             \/ Abandon(s)
      PROVE  SpendingForAll'
  <2>1. CASE Signup(s) \/ Login(s) \/ SetRole(s) \/ GrantRole(s) \/ PutSetting(s)
    <3>1. \E where, what : Receive(s, where, what) /\ where # "explaining" /\ now' = now
      BY <2>1 DEF Signup, Login, SetRole, GrantRole, PutSetting
    <3> QED BY <1>2, <1>5, <3>1 DEF allowanceTables
  <2>2. CASE LookUpEmail(s) \/ VerifyPassword(s) \/ LoadTarget(s) \/ LoadSetting(s)
    <3>1. \E here, there, row :
              Proceed(s, here, there, row) /\ there # "explaining" /\ now' = now
      BY <2>2 DEF LookUpEmail, VerifyPassword, LoadTarget, LoadSetting, Proceed
    <3> QED BY <1>2, <1>5, <3>1 DEF allowanceTables
  <2>3. CASE \/ RefuseSignup(s) \/ CreateAccount(s) \/ RefuseLogin(s) \/ SignIn(s)
             \/ WriteRole(s) \/ WriteGrant(s) \/ SaveSetting(s) \/ Abandon(s)
    <3>1. \E here : Leave(s, here) /\ now' = now
      BY <2>3 DEF RefuseSignup, CreateAccount, RefuseLogin, SignIn, WriteRole, WriteGrant,
                  SaveSetting, Abandon, End, Leave
    <3> QED BY <1>2, <1>5, <3>1 DEF allowanceTables
  <2> QED BY <1>5, <2>1, <2>2, <2>3
<1>6. ASSUME NEW s \in Slots,
             \/ Use(s) \/ AskAllowance(s) \/ RecordCounted(s) \/ RecordExempt(s) \/ Analyse(s)
      PROVE  SpendingForAll'
  <2>1. CASE Use(s) \/ Analyse(s)
    <3>1. \E where, what : /\ Receive(s, where, what) /\ where # "explaining"
                           /\ now' = now /\ spending' = spending
      BY <2>1 DEF Use, Analyse, allowanceTables
    <3> QED BY <1>2, <3>1
  <2>2. CASE AskAllowance(s)
    <3> DEFINE there == IF ask[s].admin THEN "exempt" ELSE "counted"
    <3>1. Proceed(s, "allowance", there, Nobody) /\ spending' = spending
      BY <2>2 DEF AskAllowance, allowanceTables
    <3>2. there # "explaining"
      OBVIOUS
    <3> HIDE DEF there
    <3>3. now' = now
      BY <3>1 DEF Proceed
    <3> QED BY <1>2, <3>1, <3>2, <3>3
  <2>3. CASE RecordCounted(s) \/ RecordExempt(s)
    <3>1. (\E here : Leave(s, here)) /\ UNCHANGED <<now, spending>>
      BY <2>3 DEF RecordCounted, RecordExempt, RecordUse, End, Leave
    <3> QED BY <1>2, <3>1
  <2> QED BY <1>6, <2>1, <2>2, <2>3
<1>7. ASSUME NEW s \in Slots, CallModel(s) \/ RecordCost(s)
      PROVE  SpendingForAll'
  BY <1>1, <1>7, CallSpending, RecordSpending
<1>8. CASE AccountStep /\ UNCHANGED allowanceTables
  BY <1>1, <1>3, <1>4, <1>5, <1>8 DEF AccountStep, BInv
<1>9. CASE \E s \in Slots :
              \/ Use(s) \/ AskAllowance(s) \/ RecordCounted(s) \/ RecordExempt(s)
              \/ Analyse(s) \/ CallModel(s) \/ RecordCost(s)
  BY <1>1, <1>6, <1>7, <1>9 DEF BInv
<1> QED BY <1>3, <1>8, <1>9 DEF ApiNext

(***************************************************************************)
(* The ceilings hold: what an hour or a day holds of a kind, and a day's   *)
(* spending on explanations, exceed their limit by less than one more use, *)
(* or the dearest call, for each request under way (_derived_allowance,    *)
(* _parse_allowance and _explain_metered count first and record last).     *)
(***************************************************************************)
THEOREM CeilingsAreHeld == ApiSpec => []CeilingsHold
<1>1. ASSUME ApiInit PROVE BInv
  <2>1. IInv
    BY <1>1, InitIInv
  <2>2. Today = {} /\ Calling = {}
    BY <1>1 DEF ApiInit, Init, Today, Calling
  <2>3. Spent = 0 /\ Cardinality(Calling) = 0 /\ Cardinality(Slots) \in Nat
    BY <2>2, CostOfNone, FS_EmptySet, AccountsAssumption, FS_CardinalityType DEF Spent, CostOf
  <2>4. DearestCost \in Nat /\ Budget \in Nat
    BY AllowancesAssumption
  <2>5. Cardinality(Slots) * DearestCost \in Nat /\ 0 * DearestCost = 0
    BY <2>3, <2>4, ProductMonotone
  <2> QED BY <2>1, <2>3, <2>4, <2>5 DEF BInv, SpendingForAll
<1>2. ASSUME BInv PROVE SpendingWithinBudget
  <2>1. Spent \in Nat /\ Cardinality(Calling) \in Nat /\ Cardinality(Slots) \in Nat
    BY <1>2, SpentIs DEF BInv, IInv
  <2>2. DearestCost \in Nat /\ Budget \in Nat
    BY AllowancesAssumption
  <2>3. PICK kept, all : /\ kept = Cardinality(Calling) * DearestCost
                         /\ all = Cardinality(Slots) * DearestCost
    OBVIOUS
  <2>4. kept \in Nat /\ all \in Nat
    BY <2>1, <2>2, <2>3, ProductMonotone
  <2>5. Budget # 0 => Spent + kept <= Budget - 1 + all
    BY <1>2, <2>3 DEF BInv, SpendingForAll
  <2>6. Budget # 0 => Spent <= Budget - 1 + all
    BY <2>1, <2>2, <2>4, <2>5
  <2> QED BY <2>3, <2>6 DEF SpendingWithinBudget
<1>3. ApiSpec => []SpendingWithinBudget
  BY <1>1, <1>2, StepBInv, PTL DEF ApiSpec
<1> QED BY <1>3, UsesAreBounded, PTL DEF CeilingsHold
=============================================================================
