-------------------------- MODULE ConnectorProofs ---------------------------
(***************************************************************************)
(* The ASoC connector: a call sends a bounded number of requests and gives *)
(* up only when it has tried everything, for any number of calls, tokens   *)
(* and retries; and a list has all that was there all the time, for any    *)
(* collection, order, page size and page limit.                            *)
(***************************************************************************)
EXTENDS AsocClient, Listing, Counting

Round == MaxRetries + 1

\* The requests of the rounds before the present one.
Before(c) == IF stage[c] = "first" THEN 0
             ELSE IF stage[c] = "again" THEN Round
             ELSE 2 * Round

\* While a call goes on, the requests it has sent are those of the rounds that
\* ended and the retries of the present one; a login belongs to its stage.
CountsOf(c) ==
    /\ pc[c] # "done" => sent[c] <= Before(c) + retries[c]
    /\ sent[c] <= 3 * Round
    /\ pc[c] = "login" => logins[c] <= (IF stage[c] = "first" THEN 0 ELSE 1)
    /\ stage[c] = "first" => logins[c] <= 1
    /\ logins[c] <= 2
    /\ pc[c] = "login" => stage[c] # "switched" /\ retries[c] = 0
    /\ stage[c] = "switched" => header[c] = Key

GivenUp(c) ==
    pc[c] = "done" =>
        /\ resp[c].status = "denied" => header[c] = Key
        /\ resp[c].status = "ok" /\ ~resp[c].readable => header[c] = Key
        /\ resp[c].status = "limited" => retries[c] = MaxRetries

ClientInv ==
    /\ TypeOK
    /\ \A c \in Calls : CountsOf(c) /\ GivenUp(c)

\* What another call's step leaves alone.
Same(d) ==
    /\ pc'[d] = pc[d] /\ header'[d] = header[d] /\ stage'[d] = stage[d]
    /\ retries'[d] = retries[d] /\ resp'[d] = resp[d]
    /\ logins'[d] = logins[d] /\ sent'[d] = sent[d]

LEMMA SameKeeps ==
    ASSUME ClientInv, NEW d \in Calls, Same(d)
    PROVE  CountsOf(d)' /\ GivenUp(d)'
BY DEF ClientInv, Same, CountsOf, GivenUp, Before, Round

LEMMA BeginKeepsInv ==
    ASSUME ClientInv, NEW c \in Calls, Begin(c)
    PROVE  ClientInv'
<1> MaxRetries \in Nat
  BY ClientAssumption
<1>1. TypeOK'
  BY DEF ClientInv, TypeOK, Begin, Reusable, client
<1>2. ASSUME NEW d \in Calls, d # c PROVE Same(d)
  BY <1>2 DEF ClientInv, TypeOK, Begin, Same
<1>3. CountsOf(c)' /\ GivenUp(c)'
  BY DEF ClientInv, TypeOK, Begin, CountsOf, GivenUp, Before, Round
<1> QED
  BY <1>1, <1>2, <1>3, SameKeeps DEF ClientInv

LEMMA LoginKeepsInv ==
    ASSUME ClientInv, NEW c \in Calls, LoginSucceeds(c) \/ LoginFails(c)
    PROVE  ClientInv'
<1> MaxRetries \in Nat /\ Key # None /\ None \notin Tokens
  BY ClientAssumption
<1>1. PICK h \in Tokens \cup {Key} : header' = [header EXCEPT ![c] = h]
  BY DEF LoginSucceeds, LoginFails
<1>2. /\ pc[c] = "login"
      /\ pc' = [pc EXCEPT ![c] = "request"]
      /\ logins' = [logins EXCEPT ![c] = @ + 1]
      /\ UNCHANGED <<stage, retries, resp, sent>>
      /\ token' \in Tokens \cup {None} /\ expired' \in BOOLEAN /\ loggedIn' \in BOOLEAN
  BY DEF LoginSucceeds, LoginFails, ClientInv, TypeOK
<1>3. TypeOK'
  BY <1>1, <1>2 DEF ClientInv, TypeOK
<1>4. ASSUME NEW d \in Calls, d # c PROVE Same(d)
  BY <1>1, <1>2, <1>4 DEF ClientInv, TypeOK, Same
<1>5. logins'[c] = logins[c] + 1 /\ logins[c] \in Nat /\ pc'[c] = "request"
  BY <1>2 DEF ClientInv, TypeOK
<1>6. CountsOf(c)' /\ GivenUp(c)'
  BY <1>2, <1>5 DEF ClientInv, CountsOf, GivenUp, Before
<1> QED
  BY <1>3, <1>4, <1>6, SameKeeps DEF ClientInv

LEMMA RespondKeepsInv ==
    ASSUME ClientInv, NEW c \in Calls, NEW r \in Response, Respond(c, r)
    PROVE  ClientInv'
<1> MaxRetries \in Nat /\ Key # None /\ None \notin Tokens
  BY ClientAssumption
<1> DEFINE Status == {"ok", "denied", "limited", "failed"}
<1>1. /\ pc[c] = "request" /\ header[c] # None
      /\ sent[c] \in Nat /\ retries[c] \in 0 .. MaxRetries /\ logins[c] \in Nat
      /\ stage[c] \in {"first", "again", "switched"}
      /\ header[c] \in Tokens \cup {Key}
  BY DEF Respond, ClientInv, TypeOK
<1>2. /\ sent'[c] = sent[c] + 1 /\ sent' \in [Calls -> Nat]
      /\ resp'[c] = r /\ resp' \in [Calls -> Response \cup {Exception, NoResponse}]
      /\ logins' = logins /\ loggedIn' = loggedIn
  BY <1>1 DEF Respond, ClientInv, TypeOK
<1>3. CASE r.status = "limited" /\ RetriesLeft(c)
  <2>1. /\ pc' = [pc EXCEPT ![c] = "pause"]
        /\ retries' = [retries EXCEPT ![c] = @ + 1]
        /\ UNCHANGED <<token, expired, header, stage>>
    BY <1>3 DEF Respond
  <2>2. retries'[c] = retries[c] + 1 /\ retries'[c] \in 0 .. MaxRetries
    BY <1>1, <1>3, <2>1 DEF RetriesLeft, ClientInv, TypeOK
  <2>3. TypeOK'
    BY <1>1, <1>2, <2>1, <2>2 DEF ClientInv, TypeOK
  <2>4. ASSUME NEW d \in Calls, d # c PROVE Same(d)
    BY <2>1, <2>4 DEF Respond, ClientInv, TypeOK, Same
  <2>5. pc'[c] = "pause"
    BY <2>1 DEF ClientInv, TypeOK
  <2>6. CountsOf(c)' /\ GivenUp(c)'
    BY <1>1, <1>2, <2>1, <2>2, <2>5 DEF ClientInv, CountsOf, GivenUp, Before, Round
  <2> QED
    BY <2>3, <2>4, <2>6, SameKeeps DEF ClientInv
<1>4. CASE ~(r.status = "limited" /\ RetriesLeft(c)) /\ LogsInAgain(c, r)
  <2>1. /\ token' = None /\ expired' = TRUE
        /\ stage' = [stage EXCEPT ![c] = "again"]
        /\ retries' = [retries EXCEPT ![c] = 0]
        /\ pc' = [pc EXCEPT ![c] = "login"]
        /\ UNCHANGED header
    BY <1>4 DEF Respond
  <2>2. TypeOK'
    BY <1>1, <1>2, <2>1 DEF ClientInv, TypeOK
  <2>3. ASSUME NEW d \in Calls, d # c PROVE Same(d)
    BY <2>1, <2>3 DEF Respond, ClientInv, TypeOK, Same
  <2>4. pc'[c] = "login" /\ stage'[c] = "again" /\ retries'[c] = 0 /\ stage[c] = "first"
    BY <1>4, <2>1 DEF ClientInv, TypeOK, LogsInAgain
  <2>5. CountsOf(c)' /\ GivenUp(c)'
    BY <1>1, <1>2, <2>4 DEF ClientInv, CountsOf, GivenUp, Before, Round
  <2> QED
    BY <2>2, <2>3, <2>5, SameKeeps DEF ClientInv
<1>5. CASE /\ ~(r.status = "limited" /\ RetriesLeft(c))
           /\ ~LogsInAgain(c, r) /\ Switches(c, r)
  <2>1. /\ header' = [header EXCEPT ![c] = Key]
        /\ stage' = [stage EXCEPT ![c] = "switched"]
        /\ retries' = [retries EXCEPT ![c] = 0]
        /\ UNCHANGED <<token, expired, pc>>
    BY <1>5 DEF Respond
  <2>2. TypeOK'
    BY <1>1, <1>2, <2>1 DEF ClientInv, TypeOK
  <2>3. ASSUME NEW d \in Calls, d # c PROVE Same(d)
    BY <2>1, <2>3 DEF Respond, ClientInv, TypeOK, Same
  <2>4. pc'[c] = "request" /\ stage'[c] = "switched" /\ retries'[c] = 0
    BY <1>1, <2>1 DEF ClientInv, TypeOK
  <2>5. stage[c] # "switched" /\ header'[c] = Key
    BY <1>5, <2>1 DEF Switches, ClientInv, CountsOf, TypeOK
  <2>6. CountsOf(c)' /\ GivenUp(c)'
    BY <1>1, <1>2, <2>4, <2>5 DEF ClientInv, CountsOf, GivenUp, Before, Round
  <2> QED
    BY <2>2, <2>3, <2>6, SameKeeps DEF ClientInv
<1>6. CASE /\ ~(r.status = "limited" /\ RetriesLeft(c))
           /\ ~LogsInAgain(c, r) /\ ~Switches(c, r)
  <2>1. /\ pc' = [pc EXCEPT ![c] = "done"]
        /\ UNCHANGED <<token, expired, header, stage, retries>>
    BY <1>6 DEF Respond
  <2>2. TypeOK'
    BY <1>1, <1>2, <2>1 DEF ClientInv, TypeOK
  <2>3. ASSUME NEW d \in Calls, d # c PROVE Same(d)
    BY <2>1, <2>3 DEF Respond, ClientInv, TypeOK, Same
  <2>4. pc'[c] = "done"
    BY <2>1 DEF ClientInv, TypeOK
  <2>5. CountsOf(c)'
    BY <1>1, <1>2, <2>1, <2>4 DEF ClientInv, CountsOf, Before, Round
  <2>6. GivenUp(c)'
    BY <1>1, <1>2, <1>6, <2>1 DEF GivenUp, Switches, RetriesLeft
  <2> QED
    BY <2>2, <2>3, <2>5, <2>6, SameKeeps DEF ClientInv
<1> QED
  BY <1>3, <1>4, <1>5, <1>6

LEMMA FailKeepsInv ==
    ASSUME ClientInv, NEW c \in Calls, Fail(c)
    PROVE  ClientInv'
<1> MaxRetries \in Nat
  BY ClientAssumption
<1>1. TypeOK'
  BY DEF ClientInv, TypeOK, Fail, client
<1>2. ASSUME NEW d \in Calls, d # c PROVE Same(d)
  BY <1>2 DEF ClientInv, TypeOK, Fail, Same
<1>3. /\ pc[c] = "request" /\ pc'[c] = "done"
      /\ sent[c] \in Nat /\ sent'[c] = sent[c] + 1
      /\ retries[c] \in 0 .. MaxRetries /\ resp'[c] = Exception
      /\ UNCHANGED <<stage, header, retries, logins>>
  BY DEF ClientInv, TypeOK, Fail
<1>4. CountsOf(c)' /\ GivenUp(c)'
  BY <1>3 DEF ClientInv, CountsOf, GivenUp, Before, Round, Exception
<1> QED
  BY <1>1, <1>2, <1>4, SameKeeps DEF ClientInv

LEMMA ResumeKeepsInv ==
    ASSUME ClientInv, NEW c \in Calls, Resume(c)
    PROVE  ClientInv'
<1>1. TypeOK'
  BY DEF ClientInv, TypeOK, Resume, client
<1>2. ASSUME NEW d \in Calls, d # c PROVE Same(d)
  BY <1>2 DEF ClientInv, TypeOK, Resume, Same
<1>3. pc[c] = "pause" /\ pc'[c] = "request"
      /\ UNCHANGED <<stage, header, retries, logins, sent>>
  BY DEF ClientInv, TypeOK, Resume
<1>4. CountsOf(c)' /\ GivenUp(c)'
  BY <1>3 DEF ClientInv, CountsOf, GivenUp, Before
<1> QED
  BY <1>1, <1>2, <1>4, SameKeeps DEF ClientInv

LEMMA InitGivesInv == Init => ClientInv
<1> SUFFICES ASSUME Init PROVE ClientInv
  OBVIOUS
<1> MaxRetries \in Nat
  BY ClientAssumption
<1>1. TypeOK
  BY DEF Init, TypeOK
<1>2. \A c \in Calls : CountsOf(c) /\ GivenUp(c)
  BY DEF Init, CountsOf, GivenUp, Before, Round, NoResponse
<1> QED
  BY <1>1, <1>2 DEF ClientInv

LEMMA NextKeepsInv == ClientInv /\ [Next]_vars => ClientInv'
<1> SUFFICES ASSUME ClientInv, [Next]_vars PROVE ClientInv'
  OBVIOUS
<1>1. CASE UNCHANGED vars
  BY <1>1 DEF vars, client, ClientInv, TypeOK, CountsOf, GivenUp, Before
<1>2. ASSUME NEW c \in Calls, Begin(c) PROVE ClientInv'
  BY <1>2, BeginKeepsInv
<1>3. ASSUME NEW c \in Calls, LoginSucceeds(c) \/ LoginFails(c) PROVE ClientInv'
  BY <1>3, LoginKeepsInv
<1>4. ASSUME NEW c \in Calls, NEW r \in Response, Respond(c, r) PROVE ClientInv'
  BY <1>4, RespondKeepsInv
<1>5. ASSUME NEW c \in Calls, Fail(c) PROVE ClientInv'
  BY <1>5, FailKeepsInv
<1>6. ASSUME NEW c \in Calls, Resume(c) PROVE ClientInv'
  BY <1>6, ResumeKeepsInv
<1>7. CASE Expire
  BY <1>7 DEF Expire, ClientInv, TypeOK, CountsOf, GivenUp, Before
<1> QED
  BY <1>1, <1>2, <1>3, <1>4, <1>5, <1>6, <1>7 DEF Next

LEMMA ClientInvariant == Spec => []ClientInv
  BY InitGivesInv, NextKeepsInv, PTL DEF Spec

\* The variables of the client and of its calls have their types.
THEOREM TypeSafety == Spec => []TypeOK
<1>1. ClientInv => TypeOK
  BY DEF ClientInv
<1> QED
  BY <1>1, ClientInvariant, PTL

\* get and get_count send at most three rounds of requests and log in twice.
THEOREM AttemptsAreBounded == Spec => []AttemptsBounded
<1>1. ClientInv => AttemptsBounded
  BY DEF ClientInv, CountsOf, AttemptsBounded, Round
<1> QED
  BY <1>1, ClientInvariant, PTL

\* get and get_count give up only under the API key and after all retries.
THEOREM GivingUpIsLate == Spec => []GivesUpLate
<1>1. ClientInv => GivesUpLate
  BY DEF ClientInv, GivenUp, GivesUpLate
<1> QED
  BY <1>1, ClientInvariant, PTL

----------------------------------------------------------------------------
(* The lists: _fetch_all_pages pages by $skip through a collection that may change.  *)
(* The invariant says of each list what its next page starts from: as long as nothing *)
(* was removed, an item that is missing has its place there or later; as long as      *)
(* nothing was created, an item it has is before that place.                          *)

\* A finite set has an element that comes first.
LEMMA LeastIsFirst ==
    ASSUME NEW S, IsFiniteSet(S), S # {}, NEW f \in [S -> Int]
    PROVE  \E s \in S : \A t \in S : f[s] <= f[t]
<1> DEFINE g == [s \in S |-> -f[s]]
           N == {g[s] : s \in S}
<1>1. DOMAIN g = S
  OBVIOUS
<1>2. \A s \in S : g[s] \in Int
  OBVIOUS
<1>3. N # {} /\ N \subseteq Int
  BY <1>2
<1>4. \A s, t \in S : g[t] <= g[s] => f[s] <= f[t]
  OBVIOUS
<1> HIDE DEF g
<1>5. IsFiniteSet(N)
  BY <1>1, ImageSize
<1>6. PICK n \in N : \A m \in N : m <= n
  <2> HIDE DEF N
  <2> QED
    BY <1>3, <1>5, GreatestNumber
<1> QED
  BY <1>4, <1>6

Place(S, f, s) == Cardinality({t \in S : f[t] < f[s]})

\* Items Top places after each other are Top items, unless the list ends before.
LEMMA PageFill ==
    ASSUME NEW S, IsFiniteSet(S), NEW f \in [S -> Int],
           \A s, t \in S : f[s] = f[t] => s = t,
           NEW rank, \A s \in S : rank[s] = Place(S, f, s),
           NEW a \in Nat, NEW n \in Nat \ {0},
           NEW P, \A s : s \in P <=> s \in S /\ rank[s] \in a .. a + n - 1
    PROVE  /\ IsFiniteSet(P) /\ Cardinality(P) \in 0 .. n
           /\ Cardinality(P) < n => \A s \in S : rank[s] < a + n
           /\ Cardinality(P) = n => a + n <= Cardinality(S)
           /\ \A s \in S : rank[s] \in Nat
<1> DEFINE before == {s \in S : rank[s] < a}
           through == {s \in S : rank[s] < a + n}
           size == Cardinality(S)
           page == Cardinality(P)
<1>1. size \in Nat
  BY FS_CardinalityType
<1>2. \A s \in S : rank[s] \in 0 .. size - 1
  <2> DEFINE Rank(s) == Cardinality({t \in S : f[t] < f[s]})
  <2>1. \A s \in S : Rank(s) \in 0 .. size - 1
    BY RanksAreIndexes
  <2>2. \A s \in S : rank[s] = Rank(s)
    BY DEF Place
  <2> HIDE DEF Rank, size
  <2> QED
    BY <2>1, <2>2
<1>3. \A k \in Nat : k <= size => Cardinality({s \in S : rank[s] < k}) = k
  <2> SUFFICES ASSUME NEW k \in Nat, k <= size
               PROVE  Cardinality({s \in S : rank[s] < k}) = k
    OBVIOUS
  <2>1. {s \in S : rank[s] < k} = {s \in S : Cardinality({t \in S : f[t] < f[s]}) < k}
    BY DEF Place
  <2>2. Cardinality({s \in S : Cardinality({t \in S : f[t] < f[s]}) < k}) = k
    BY RanksFill
  <2> QED
    BY <2>1, <2>2
<1>4. a \in Nat /\ n \in Nat \ {0} /\ a + n \in Nat
  OBVIOUS
<1>5. /\ a <= size => Cardinality(before) = a
      /\ a + n <= size => Cardinality(through) = a + n
  <2> HIDE DEF size
  <2>1. a <= size => Cardinality(before) = a
    BY <1>3, <1>4
  <2>2. a + n <= size => Cardinality(through) = a + n
    BY <1>3, <1>4
  <2> QED
    BY <2>1, <2>2
<1>6. /\ P \in SUBSET S /\ before \in SUBSET S /\ through \in SUBSET S
      /\ before \in SUBSET through
  BY <1>2
<1>7. P = through \ before
  BY <1>2
<1>8. a + n > size => through = S
  BY <1>1, <1>2
<1>9. a > size => before = S
  BY <1>1, <1>2
<1> HIDE DEF before, through
<1>10. IsFiniteSet(P) /\ IsFiniteSet(through) /\ page \in Nat
  BY <1>6, PartSize
<1>11. Cardinality(before) + page = Cardinality(through)
  BY <1>6, <1>7, <1>10, PartSize
<1>12. a + n <= size => page = n
  <2> HIDE DEF page, size
  <2> QED
    BY <1>1, <1>4, <1>5, <1>10, <1>11
<1>13. a + n > size => page < n
  <2> SUFFICES ASSUME a + n > size PROVE page < n
    OBVIOUS
  <2>1. Cardinality(through) = size
    BY <1>8
  <2>2. a > size => Cardinality(before) = size
    BY <1>9
  <2> HIDE DEF page, size
  <2> QED
    BY <1>1, <1>4, <1>5, <1>10, <1>11, <2>1, <2>2
<1>14. a + n > size => \A s \in S : rank[s] < a + n
  BY <1>1, <1>2
<1>15. \A s \in S : rank[s] \in Nat
  BY <1>1, <1>2
<1>16. page \in 0 .. n /\ (page < n => a + n > size) /\ (page = n => a + n <= size)
  <2> HIDE DEF page, size
  <2> QED
    BY <1>1, <1>4, <1>10, <1>12, <1>13
<1> QED
  BY <1>10, <1>14, <1>15, <1>16

----------------------------------------------------------------------------
Of(list) == IF list = "org" THEN Items ELSE {i \in Items : AppOf[i] = list}

\* The items that were there all the time and that a list is to have
Due(list) == stayed \cap Content(list)

Whole(list) == Due(list) \subseteq paging[list].items

\* What a list has is what is before the next page, if nothing was created or removed.
PageInv(list) ==
    LET p == paging[list]
    IN  /\ p \in Paging
        /\ p.items \subseteq Of(list)
        /\ created = {} => p.twice = {}
        /\ p.pc = "paging" =>
              /\ p.pages < p.limit /\ p.skip = p.pages * Top /\ p.length = p.skip
              /\ removed = {} => \A i \in Due(list) \ p.items : Position(list, i) >= p.skip
              /\ created = {} => \A i \in p.items \cap Content(list) : Position(list, i) < p.skip
        /\ p.pc = "done" /\ removed = {} =>
              \/ Whole(list)
              \/ p.length = p.limit * Top /\ p.length <= Cardinality(Items)

Begun(list) == paging[list].pc \in {"paging", "done"}

PhaseInv ==
    /\ phase \in {"catalog", "probe", "apps", "org", "done", "raised"}
    /\ paging["catalog"] \in Paging /\ paging["catalog"].items \subseteq Apps
    /\ paging["catalog"].pc = "paging" => phase = "catalog"
    /\ \A a \in Apps :
          /\ paging[a].pc = "paging" => phase = "apps" \/ (phase = "probe" /\ a = First)
          /\ Begun(a) => paging[a].limit = IF kind = "scans" /\ a = First THEN 1 ELSE NoLimit
    /\ paging["org"].pc = "paging" => phase = "org"
    /\ Begun("org") => paging["org"].limit = MaxPages
    /\ phase \in {"catalog", "probe", "apps"} => paging["org"].pc = "idle"
    /\ phase = "org" => paging["org"].pc # "idle"
    /\ phase = "probe" => kind = "scans"

ResultInv ==
    phase = "done" =>
       IF FromOrganisation
       THEN result = Listed("org")
       ELSE /\ result.items = AppLists.items
            /\ result.twice = IF kind = "scans" THEN {} ELSE AppLists.twice

ListInv ==
    /\ DOMAIN paging = Lists
    /\ order \in Orders
    /\ stayed \subseteq remote /\ remote \subseteq Items
    /\ \A list \in Apps \cup {"org"} : PageInv(list)
    /\ PhaseInv
    /\ ResultInv

\* The application that list_scans asks alone is one of the data source's.
LEMMA FirstIs ==
    ASSUME order \in Orders, Apps # {}
    PROVE  First \in Apps
<1> DEFINE f == [a \in Apps |-> order[a]]
<1>1. f \in [Apps -> Int] /\ \A s, t \in Apps : f[s] = f[t] => s = t
  BY ListingAssumption
<1>2. DOMAIN f = Apps /\ \A a \in Apps : f[a] = order[a]
  OBVIOUS
<1> HIDE DEF f
<1>3. PICK a \in Apps : \A b \in Apps : f[a] <= f[b]
  BY <1>1, LeastIsFirst, ListingAssumption
<1> QED
  BY <1>2, <1>3 DEF First

\* The places of a list's items, counted from none
LEMMA PlacesFill ==
    ASSUME order \in Orders, remote \subseteq Items, NEW list \in Apps \cup {"org"},
           paging[list].skip \in Nat
    PROVE  LET page == PageAt(list)
               next == paging[list].skip + Top
           IN  /\ Content(list) \subseteq Of(list) /\ page \subseteq Content(list)
               /\ Cardinality(page) \in 0 .. Top
               /\ Cardinality(page) < Top => \A i \in Content(list) : Position(list, i) < next
               /\ Cardinality(page) = Top => next <= Cardinality(Items)
               /\ \A i \in Content(list) : Position(list, i) \in Nat
<1> DEFINE S == Content(list)
           f == [s \in S |-> order[s]]
           rank == [s \in S |-> Position(list, s)]
           skip == paging[list].skip
<1>1. S \subseteq Of(list) /\ S \in SUBSET Items
  BY ListingAssumption DEF Content, Of
<1>2. IsFiniteSet(S) /\ IsFiniteSet(Items) /\ Cardinality(S) <= Cardinality(Items)
      /\ Cardinality(S) \in Nat /\ Cardinality(Items) \in Nat
  BY <1>1, PartSize, ListingAssumption, FS_CardinalityType
<1>3. f \in [S -> Int] /\ \A s, t \in S : f[s] = f[t] => s = t
  BY <1>1, ListingAssumption
<1>4. \A s \in S : rank[s] = Position(list, s)
  OBVIOUS
<1>5. \A s \in S : rank[s] = Place(S, f, s)
  <2> SUFFICES ASSUME NEW s \in S PROVE Position(list, s) = Place(S, f, s)
    OBVIOUS
  <2>1. {t \in S : f[t] < f[s]} = {t \in S : order[t] < order[s]}
    OBVIOUS
  <2> HIDE DEF f
  <2> QED
    BY <2>1 DEF Position, Place
<1>6. \A s : s \in PageAt(list) <=> s \in S /\ rank[s] \in skip .. skip + Top - 1
  BY DEF PageAt
<1>7. skip \in Nat /\ Top \in Nat \ {0}
  BY ListingAssumption
<1> HIDE DEF S, f, rank, skip
<1>8. /\ IsFiniteSet(PageAt(list)) /\ Cardinality(PageAt(list)) \in 0 .. Top
      /\ Cardinality(PageAt(list)) < Top => \A s \in S : rank[s] < skip + Top
      /\ Cardinality(PageAt(list)) = Top => skip + Top <= Cardinality(S)
      /\ \A s \in S : rank[s] \in Nat
  BY <1>2, <1>3, <1>5, <1>6, <1>7, PageFill
<1>9. PageAt(list) \subseteq S
  BY <1>6
<1>10. Cardinality(PageAt(list)) = Top => skip + Top <= Cardinality(Items)
  BY <1>2, <1>7, <1>8
<1> QED
  BY <1>1, <1>4, <1>8, <1>9, <1>10 DEF S, skip

\* Places depend on the order and the collection alone.
LEMMA SamePlaces ==
    ASSUME order' = order, remote' = remote
    PROVE  \A list : /\ Content(list)' = Content(list)
                     /\ \A x : Position(list, x)' = Position(list, x)
<1>1. \A list : Content(list)' = Content(list)
  BY DEF Content
<1> QED
  BY <1>1 DEF Position

\* A list that no step touches, in a collection that stays, keeps its invariant.
LEMMA SamePage ==
    ASSUME NEW list \in Apps \cup {"org"}, PageInv(list), paging'[list] = paging[list],
           order' = order, remote' = remote, stayed' = stayed,
           created' = created, removed' = removed
    PROVE  PageInv(list)'
<1>1. Content(list)' = Content(list) /\ \A x : Position(list, x)' = Position(list, x)
  BY SamePlaces
<1>2. Of(list)' = Of(list) /\ Due(list)' = Due(list)
  BY <1>1 DEF Of, Due
<1>3. Whole(list)' <=> Whole(list)
  BY <1>2 DEF Whole
<1> QED
  BY <1>1, <1>2, <1>3 DEF PageInv

LEMMA AskedIsPaging ==
    ASSUME NEW limit \in Nat
    PROVE  [NotAsked EXCEPT !.pc = "paging", !.limit = limit] \in Paging
<1>1. NotAsked \in Paging
  BY DEF NotAsked, Paging
<1> QED
  BY <1>1 DEF Paging

\* A list that is asked anew starts before its first item.
LEMMA NewPage ==
    ASSUME ListInv, NEW list \in Apps \cup {"org"}, NEW limit \in Nat \ {0},
           paging'[list] = [NotAsked EXCEPT !.pc = "paging", !.limit = limit],
           order' = order, remote' = remote
    PROVE  PageInv(list)'
<1>1. /\ paging'[list].pc = "paging" /\ paging'[list].limit = limit
      /\ paging'[list].pages = 0 /\ paging'[list].skip = 0 /\ paging'[list].length = 0
      /\ paging'[list].items = {} /\ paging'[list].twice = {}
  BY DEF NotAsked
<1>2. Content(list)' = Content(list) /\ \A x : Position(list, x)' = Position(list, x)
  BY SamePlaces
<1>3. \A x \in Content(list) : Position(list, x) >= 0
  <2>1. paging[list].skip \in Nat
    BY DEF ListInv, PageInv, Paging
  <2>2. \A x \in Content(list) : Position(list, x) \in Nat
    BY <2>1, PlacesFill DEF ListInv
  <2> QED
    BY <2>2
<1>4. Due(list)' \subseteq Content(list)
  BY <1>2 DEF Due
<1>5. Top \in Nat
  BY ListingAssumption
<1>6. paging'[list] \in Paging
  BY AskedIsPaging
<1> QED
  BY <1>1, <1>2, <1>3, <1>4, <1>5, <1>6 DEF PageInv

\* A page joins what is before it to what is after it.
LEMMA FetchKeepsPage ==
    ASSUME ListInv, NEW list \in Apps \cup {"org"}, FetchPage(list)
    PROVE  PageInv(list)'
<1> DEFINE p == paging[list]
           q == paging'[list]
           page == PageAt(list)
           full == Cardinality(page)
           next == p.skip + Top
<1>1. /\ order' = order /\ remote' = remote /\ stayed' = stayed
      /\ created' = created /\ removed' = removed
  BY DEF FetchPage
<1>2. list \in DOMAIN paging
  BY DEF ListInv, Lists
<1>3. p.pc = "paging" /\ PageInv(list) /\ p \in Paging
  BY DEF FetchPage, ListInv, PageInv
<1>4. /\ q.pc = (IF LastPage(list) THEN "done" ELSE "paging")
      /\ q.limit = p.limit /\ q.pages = p.pages + 1 /\ q.skip = next
      /\ q.length = p.length + full
      /\ q.items = p.items \cup page /\ q.twice = p.twice \cup (p.items \cap page)
      /\ q = [pc |-> q.pc, limit |-> q.limit, pages |-> q.pages, skip |-> q.skip,
              length |-> q.length, items |-> q.items, twice |-> q.twice]
  BY <1>2, <1>3 DEF FetchPage, Paging
<1>5. /\ p.limit \in Nat /\ p.pages \in Nat /\ p.skip \in Nat /\ p.length \in Nat
      /\ p.items \subseteq Of(list) /\ p.twice \subseteq Items \cup Apps
      /\ created = {} => p.twice = {}
      /\ p.pages < p.limit /\ p.skip = p.pages * Top /\ p.length = p.skip
      /\ removed = {} => \A i \in Due(list) \ p.items : Position(list, i) >= p.skip
      /\ created = {} => \A i \in p.items \cap Content(list) : Position(list, i) < p.skip
  BY <1>3 DEF PageInv, Paging
<1>6. /\ Content(list) \subseteq Of(list) /\ page \subseteq Content(list)
      /\ full \in 0 .. Top
      /\ full < Top => \A i \in Content(list) : Position(list, i) < next
      /\ full = Top => next <= Cardinality(Items)
      /\ \A i \in Content(list) : Position(list, i) \in Nat
  BY <1>5, PlacesFill DEF ListInv
<1>7. Top \in Nat \ {0} /\ Of(list) \subseteq Items
  BY ListingAssumption DEF Of
<1>8. \A x : x \in page <=> x \in Content(list) /\ Position(list, x) \in p.skip .. next - 1
  <2>1. page = {x \in Content(list) : Position(list, x) \in p.skip .. p.skip + Top - 1}
    BY DEF PageAt
  <2>2. next - 1 = p.skip + Top - 1
    BY <1>5, <1>7
  <2> HIDE DEF page, p, next
  <2> QED
    BY <2>1, <2>2
<1>9. LastPage(list) <=> full < Top \/ p.pages + 1 = p.limit
  BY DEF LastPage
<1>10. Due(list) \subseteq Content(list)
  BY DEF Due
<1> HIDE DEF page, full
<1>11. q \in Paging
  <2>1. /\ q.pc \in {"idle", "paging", "done", "failed"}
        /\ q.limit \in Nat /\ q.pages \in Nat /\ q.skip \in Nat /\ q.length \in Nat
    BY <1>4, <1>5, <1>6, <1>7
  <2>2. q.items \in SUBSET (Items \cup Apps) /\ q.twice \in SUBSET (Items \cup Apps)
    BY <1>4, <1>5, <1>6, <1>7
  <2> QED
    BY <1>4, <2>1, <2>2 DEF Paging
<1>12. q.items \subseteq Of(list)
  BY <1>4, <1>5, <1>6
<1>13. created = {} => q.twice = {}
  <2> SUFFICES ASSUME created = {} PROVE p.items \cap page = {}
    BY <1>4, <1>5
  <2>1. \A i \in p.items \cap page : Position(list, i) < p.skip
    BY <1>5, <1>6
  <2>2. \A i \in page : Position(list, i) \in Nat /\ Position(list, i) >= p.skip
    BY <1>5, <1>6, <1>7, <1>8
  <2> QED
    BY <1>5, <2>1, <2>2
<1>14. removed = {} => \A i \in Due(list) \ q.items : Position(list, i) >= next
  <2> SUFFICES ASSUME removed = {}, NEW i \in Due(list) \ q.items
               PROVE  Position(list, i) >= next
    OBVIOUS
  <2>1. i \in Content(list) /\ Position(list, i) >= p.skip /\ i \notin page
    BY <1>4, <1>5, <1>10
  <2>2. Position(list, i) \in Nat /\ Position(list, i) \notin p.skip .. next - 1
    BY <1>6, <1>8, <2>1
  <2> QED
    BY <1>5, <1>7, <2>1, <2>2
<1>15. next = (p.pages + 1) * Top
  <2>1. (p.pages + 1) * Top = p.pages * Top + Top
    BY <1>5, <1>7
  <2> QED
    BY <1>5, <2>1
<1>16. ASSUME q.pc = "paging"
       PROVE  /\ q.pages < q.limit /\ q.skip = q.pages * Top /\ q.length = q.skip
              /\ removed = {} => \A i \in Due(list) \ q.items : Position(list, i) >= q.skip
              /\ created = {} => \A i \in q.items \cap Content(list) : Position(list, i) < q.skip
  <2>1. full = Top /\ p.pages + 1 # p.limit
    BY <1>4, <1>6, <1>7, <1>9, <1>16
  <2>2. q.pages < q.limit
    BY <1>4, <1>5, <2>1
  <2>3. q.skip = q.pages * Top /\ q.length = q.skip
    BY <1>4, <1>5, <1>15, <2>1
  <2>4. ASSUME created = {}, NEW i \in q.items \cap Content(list)
        PROVE  Position(list, i) < q.skip
    <3>1. Position(list, i) \in Nat
      BY <1>6
    <3>2. CASE i \in p.items
      BY <1>4, <1>5, <1>7, <2>4, <3>1, <3>2
    <3>3. CASE i \in page
      BY <1>4, <1>5, <1>7, <1>8, <3>1, <3>3
    <3> QED
      BY <1>4, <3>2, <3>3
  <2> QED
    BY <1>4, <1>14, <2>2, <2>3, <2>4
<1>17. ASSUME q.pc = "done", removed = {}
       PROVE  \/ Due(list) \subseteq q.items
              \/ q.length = q.limit * Top /\ q.length <= Cardinality(Items)
  <2>1. LastPage(list)
    BY <1>4, <1>17
  <2>2. CASE full < Top
    <3>1. \A i \in Content(list) : Position(list, i) < next /\ Position(list, i) \in Nat
      BY <1>6, <2>2
    <3>2. \A i \in Due(list) \ q.items : Position(list, i) >= next
      BY <1>14, <1>17
    <3>3. next \in Nat
      BY <1>5, <1>7
    <3> QED
      BY <1>10, <3>1, <3>2, <3>3
  <2>3. CASE full = Top
    <3>1. p.pages + 1 = p.limit
      BY <1>7, <1>9, <2>1, <2>3
    <3>2. q.length = q.limit * Top
      BY <1>4, <1>5, <1>15, <2>3, <3>1
    <3>3. q.length <= Cardinality(Items)
      BY <1>4, <1>5, <1>6, <2>3
    <3> QED
      BY <3>2, <3>3
  <2> QED
    BY <1>6, <1>7, <2>2, <2>3
<1>18. Content(list)' = Content(list) /\ \A x : Position(list, x)' = Position(list, x)
  BY <1>1, SamePlaces
<1>19. Of(list)' = Of(list) /\ Due(list)' = Due(list)
  BY <1>1, <1>18 DEF Of, Due
<1> HIDE DEF p, next
<1>20. q \in Paging /\ q.items \subseteq Of(list)' /\ (created' = {} => q.twice = {})
  BY <1>1, <1>11, <1>12, <1>13, <1>19
<1>21. q.pc = "paging" =>
          /\ q.pages < q.limit /\ q.skip = q.pages * Top /\ q.length = q.skip
          /\ removed' = {} => \A i \in Due(list)' \ q.items : Position(list, i)' >= q.skip
          /\ created' = {} => \A i \in q.items \cap Content(list)' : Position(list, i)' < q.skip
  BY <1>1, <1>16, <1>18, <1>19
<1>22. q.pc = "done" /\ removed' = {} =>
          \/ Due(list)' \subseteq q.items
          \/ q.length = q.limit * Top /\ q.length <= Cardinality(Items)
  BY <1>1, <1>17, <1>19
<1> QED
  BY <1>20, <1>21, <1>22 DEF PageInv, Whole

LEMMA FewerBefore ==
    ASSUME NEW before, NEW most, IsFiniteSet(most), before \in SUBSET most
    PROVE  /\ Cardinality(before) \in Nat /\ Cardinality(most) \in Nat
           /\ Cardinality(before) <= Cardinality(most)
  BY PartSize, FS_CardinalityType

\* An item that is created can only move others back: a gap, never.
LEMMA CreatedKeepsPage ==
    ASSUME ListInv, NEW list \in Apps \cup {"org"}, NEW item \in Items, RemoteCreates(item)
    PROVE  PageInv(list)'
<1>1. /\ paging' = paging /\ order' = order /\ stayed' = stayed /\ removed' = removed
      /\ created' # {} /\ remote' = remote \cup {item} /\ item \notin remote
  BY DEF RemoteCreates
<1>2. remote \subseteq Items /\ stayed \subseteq remote /\ PageInv(list)
  BY DEF ListInv
<1>3. Content(list) \in SUBSET Content(list)' /\ Content(list)' \in SUBSET Items
  BY <1>1, <1>2, ListingAssumption DEF Content
<1>4. \A x : /\ Position(list, x) \in Nat /\ Position(list, x)' \in Nat
             /\ Position(list, x) <= Position(list, x)'
  <2>1. IsFiniteSet(Content(list)')
    BY <1>3, ListingAssumption, PartSize
  <2> SUFFICES ASSUME NEW x
               PROVE  /\ Position(list, x) \in Nat /\ Position(list, x)' \in Nat
                      /\ Position(list, x) <= Position(list, x)'
    OBVIOUS
  <2> DEFINE most == {y \in Content(list)' : order[y] < order[x]}
             some == {y \in Content(list) : order[y] < order[x]}
  <2>2. some \in SUBSET most /\ most \in SUBSET Content(list)'
    BY <1>3
  <2>3. Position(list, x)' = Cardinality(most) /\ Position(list, x) = Cardinality(some)
    BY <1>1 DEF Position
  <2> HIDE DEF most, some
  <2>4. IsFiniteSet(most)
    BY <2>1, <2>2, PartSize
  <2> QED
    BY <2>2, <2>3, <2>4, FewerBefore
<1>5. Of(list)' = Of(list) /\ Due(list)' = Due(list)
  BY <1>1, <1>2, ListingAssumption DEF Of, Due, Content
<1>6. Whole(list)' <=> Whole(list)
  BY <1>1, <1>5 DEF Whole
<1>7. paging[list].pc = "paging" /\ removed = {} =>
         \A i \in Due(list) \ paging[list].items : Position(list, i)' >= paging[list].skip
  <2>1. paging[list].skip \in Nat
    BY <1>2 DEF PageInv, Paging
  <2> QED
    BY <1>2, <1>4, <2>1 DEF PageInv
<1> QED
  BY <1>1, <1>2, <1>5, <1>6, <1>7 DEF PageInv

\* An item that is removed can only move others to the front: no item comes again.
LEMMA RemovedKeepsPage ==
    ASSUME ListInv, NEW list \in Apps \cup {"org"}, NEW item \in Items, RemoteRemoves(item)
    PROVE  PageInv(list)'
<1>1. /\ paging' = paging /\ order' = order /\ created' = created
      /\ removed' # {} /\ remote' = remote \ {item}
  BY DEF RemoteRemoves
<1>2. remote \subseteq Items /\ PageInv(list)
  BY DEF ListInv
<1>3. Content(list)' \in SUBSET Content(list) /\ Content(list) \in SUBSET Items
  BY <1>1, <1>2, ListingAssumption DEF Content
<1>4. \A x : /\ Position(list, x) \in Nat /\ Position(list, x)' \in Nat
             /\ Position(list, x)' <= Position(list, x)
  <2>1. IsFiniteSet(Content(list))
    BY <1>3, ListingAssumption, PartSize
  <2> SUFFICES ASSUME NEW x
               PROVE  /\ Position(list, x) \in Nat /\ Position(list, x)' \in Nat
                      /\ Position(list, x)' <= Position(list, x)
    OBVIOUS
  <2> DEFINE most == {y \in Content(list) : order[y] < order[x]}
             some == {y \in Content(list)' : order[y] < order[x]}
  <2>2. some \in SUBSET most /\ most \in SUBSET Content(list)
    BY <1>3
  <2>3. Position(list, x) = Cardinality(most) /\ Position(list, x)' = Cardinality(some)
    BY <1>1 DEF Position
  <2> HIDE DEF most, some
  <2>4. IsFiniteSet(most)
    BY <2>1, <2>2, PartSize
  <2> QED
    BY <2>2, <2>3, <2>4, FewerBefore
<1>5. Of(list)' = Of(list)
  BY DEF Of
<1>6. paging[list].pc = "paging" /\ created = {} =>
         \A i \in paging[list].items \cap Content(list)' : Position(list, i)' < paging[list].skip
  <2>1. paging[list].skip \in Nat
    BY <1>2 DEF PageInv, Paging
  <2> QED
    BY <1>2, <1>3, <1>4, <2>1 DEF PageInv
<1> QED
  BY <1>1, <1>2, <1>5, <1>6 DEF PageInv

\* A list that is not asked, or that raised
LEMMA NoPage ==
    ASSUME NEW list, paging'[list] \in {NotAsked, [NotAsked EXCEPT !.pc = "failed"]}
    PROVE  PageInv(list)'
<1>1. NotAsked \in Paging
  BY DEF NotAsked, Paging
<1>2. [NotAsked EXCEPT !.pc = "failed"] \in Paging
  BY <1>1 DEF Paging
<1>3. paging'[list] \in Paging
  BY <1>1, <1>2
<1>4. /\ paging'[list].pc \notin {"paging", "done"}
      /\ paging'[list].items = {} /\ paging'[list].twice = {}
  BY DEF NotAsked
<1> QED
  BY <1>3, <1>4 DEF PageInv

\* What a handler that asks for lists finds when it goes on
LEMMA GoesOn ==
    ASSUME ListInv, NEW next, NEW lists \in SUBSET (Apps \cup {"org"}),
           NEW most \in Nat \ {0}, Goes(next, lists, most)
    PROVE  /\ phase' = next /\ kind' = kind /\ result' = result /\ order' = order
           /\ DOMAIN paging' = Lists
           /\ order' \in Orders /\ stayed' \subseteq remote' /\ remote' \subseteq Items
           /\ \A list \in Lists \ lists : paging'[list] = paging[list]
           /\ \A list \in Apps \cup {"org"} : PageInv(list)'
<1>1. /\ phase' = next /\ paging' = Asked(lists, most)
      /\ kind' = kind /\ result' = result /\ order' = order /\ remote' = remote
      /\ stayed' = stayed /\ created' = created /\ removed' = removed
  BY DEF Goes
<1>2. lists \subseteq Lists
  BY DEF Lists
<1>3. /\ DOMAIN paging' = Lists
      /\ \A list \in lists : paging'[list] = [NotAsked EXCEPT !.pc = "paging", !.limit = most]
      /\ \A list \in Lists \ lists : paging'[list] = paging[list]
  BY <1>1, <1>2 DEF Asked
<1>4. ASSUME NEW list \in Apps \cup {"org"}
      PROVE  PageInv(list)'
  <2>1. CASE list \in lists
    BY <1>1, <1>3, <2>1, NewPage
  <2>2. CASE list \notin lists
    <3>1. paging'[list] = paging[list] /\ PageInv(list)
      BY <1>3, <1>4, <2>2 DEF ListInv, Lists
    <3> QED
      BY <1>1, <3>1, SamePage
  <2> QED
    BY <2>1, <2>2
<1> QED
  BY <1>1, <1>3, <1>4 DEF ListInv

LEMMA AskedNow ==
    ASSUME NEW next, NEW lists \in SUBSET (Apps \cup {"org"}), NEW most, Goes(next, lists, most),
           NEW list \in lists
    PROVE  paging'[list].pc = "paging" /\ paging'[list].limit = most
<1>1. list \in Lists
  BY DEF Lists
<1>2. paging'[list] = [NotAsked EXCEPT !.pc = "paging", !.limit = most]
  BY <1>1 DEF Goes, Asked
<1> QED
  BY <1>2 DEF NotAsked

LEMMA NamesDiffer == "catalog" \notin Apps /\ "org" \notin Apps /\ "catalog" # "org"
  BY ListingAssumption

\* The handlers begin with lists that have nothing yet.
LEMMA InitBegins == ListInit => ListInv
<1> SUFFICES ASSUME ListInit PROVE ListInv
  OBVIOUS
<1>1. PICK selected \in SUBSET Apps :
         /\ kind # "scoped" => selected = {}
         /\ phase = IF kind = "scoped" THEN "apps" ELSE "catalog"
         /\ paging = [list \in Lists |->
               IF list \in selected THEN [NotAsked EXCEPT !.pc = "paging", !.limit = NoLimit]
               ELSE IF list = "catalog" /\ kind # "scoped"
                    THEN [NotAsked EXCEPT !.pc = "paging", !.limit = MaxPages]
                    ELSE NotAsked]
  BY DEF ListInit
<1>2. /\ kind \in {"issues", "scans", "scoped"} /\ order \in Orders
      /\ remote \subseteq Items /\ stayed = remote
      /\ result = Nothing /\ created = {} /\ removed = {}
  BY DEF ListInit
<1>3. NoLimit \in Nat \ {0} /\ MaxPages \in Nat \ {0}
  BY ListingAssumption
<1>4. \A list \in selected : paging[list] = [NotAsked EXCEPT !.pc = "paging", !.limit = NoLimit]
  BY <1>1 DEF Lists
<1>5. \A list \in (Apps \cup {"org"}) \ selected : paging[list] = NotAsked
  BY <1>1, NamesDiffer DEF Lists
<1>6. paging["catalog"] = IF kind # "scoped"
                          THEN [NotAsked EXCEPT !.pc = "paging", !.limit = MaxPages]
                          ELSE NotAsked
  BY <1>1, NamesDiffer DEF Lists
<1>7. NotAsked \in Paging
  BY DEF NotAsked, Paging
<1>8. /\ NotAsked.pc = "idle" /\ NotAsked.limit = 0 /\ NotAsked.pages = 0
      /\ NotAsked.skip = 0 /\ NotAsked.length = 0
      /\ NotAsked.items = {} /\ NotAsked.twice = {}
  BY DEF NotAsked
<1>9. ASSUME NEW list \in Apps \cup {"org"}
      PROVE  PageInv(list)
  <2>1. CASE list \in selected
    <3> DEFINE p == paging[list]
    <3>1. /\ p \in Paging /\ p.pc = "paging" /\ p.limit = NoLimit /\ p.pages = 0
          /\ p.skip = 0 /\ p.length = 0 /\ p.items = {} /\ p.twice = {}
      <4>1. p \in Paging
        BY <1>3, <1>4, <2>1, AskedIsPaging
      <4> QED
        BY <1>4, <2>1, <4>1 DEF NotAsked
    <3>2. \A i \in Content(list) : Position(list, i) \in Nat
      BY <1>2, <3>1, PlacesFill
    <3>3. Due(list) \subseteq Content(list)
      BY DEF Due
    <3>4. 0 = 0 * Top
      BY ListingAssumption
    <3> QED
      BY <1>3, <3>1, <3>2, <3>3, <3>4 DEF PageInv
  <2>2. CASE list \notin selected
    <3>1. paging[list] = NotAsked
      BY <1>5, <1>9, <2>2
    <3> QED
      BY <1>7, <1>8, <3>1 DEF PageInv
  <2> QED
    BY <2>1, <2>2
<1>10. PhaseInv
  <2>1. paging["catalog"] \in Paging /\ paging["catalog"].items = {}
    <3>1. paging["catalog"] \in Paging
      BY <1>3, <1>6, <1>7, AskedIsPaging
    <3> QED
      BY <1>6, <1>8, <3>1 DEF NotAsked
  <2>2. paging["catalog"].pc = "paging" => phase = "catalog"
    BY <1>1, <1>6, <1>8
  <2>3. \A a \in Apps :
           /\ paging[a].pc = "paging" => phase = "apps"
           /\ Begun(a) => kind # "scans" /\ paging[a].limit = NoLimit
    <3> SUFFICES ASSUME NEW a \in Apps
                 PROVE  /\ paging[a].pc = "paging" => phase = "apps"
                        /\ Begun(a) => kind # "scans" /\ paging[a].limit = NoLimit
      OBVIOUS
    <3>1. CASE a \in selected
      <4>1. paging[a].limit = NoLimit
        BY <1>4, <3>1 DEF NotAsked
      <4>2. kind = "scoped"
        BY <1>1, <3>1
      <4>3. phase = "apps" /\ kind # "scans"
        BY <1>1, <4>2
      <4> QED
        BY <4>1, <4>3
    <3>2. CASE a \notin selected
      <4>1. paging[a].pc = "idle"
        BY <1>5, <1>8, <3>2
      <4> QED
        BY <4>1 DEF Begun
    <3> QED
      BY <3>1, <3>2
  <2>4. paging["org"].pc = "idle"
    BY <1>5, <1>8, NamesDiffer
  <2>5. phase \in {"catalog", "apps"}
    BY <1>1
  <2> QED
    BY <2>1, <2>2, <2>3, <2>4, <2>5 DEF PhaseInv, Begun
<1>11. ResultInv
  BY <1>1 DEF ResultInv
<1> QED
  BY <1>1, <1>2, <1>9, <1>10, <1>11 DEF ListInv

\* Where nothing is paged any more
LEMMA DonePagesNothing ==
    ASSUME ListInv, NEW list \in Lists, paging[list].pc = "paging"
    PROVE  phase \notin {"done", "raised"}
<1>1. PhaseInv
  BY DEF ListInv
<1>2. CASE list \in Apps
  BY <1>1, <1>2 DEF PhaseInv
<1>3. CASE list = "catalog"
  BY <1>1, <1>3 DEF PhaseInv
<1>4. CASE list = "org"
  BY <1>1, <1>4 DEF PhaseInv
<1> QED
  BY <1>2, <1>3, <1>4 DEF Lists

LEMMA SameFirst == order' = order => First' = First
  BY DEF First

\* A list that was paging ends, or pages on; nothing else changes.
LEMMA PagingKeepsPhase ==
    ASSUME ListInv, NEW list \in Lists, paging[list].pc = "paging",
           \A l \in Lists \ {list} : paging'[l] = paging[l],
           paging'[list].limit = paging[list].limit \/ paging'[list].pc = "failed",
           paging'[list].pc # "idle",
           list = "catalog" => /\ paging'[list] \in Paging
                               /\ paging'[list].items \subseteq Apps,
           phase' = phase, kind' = kind, order' = order
    PROVE  PhaseInv' /\ ResultInv'
<1>1. PhaseInv /\ phase \notin {"done", "raised"}
  BY DonePagesNothing DEF ListInv
<1>2. First' = First
  BY SameFirst
<1>3. ResultInv'
  BY <1>1 DEF ResultInv
<1>4. paging["org"] = paging'["org"] \/ list = "org"
  BY DEF Lists
<1>5. paging["catalog"] = paging'["catalog"] \/ list = "catalog"
  BY DEF Lists
<1>6. ASSUME NEW a \in Apps
      PROVE  /\ paging'[a].pc = "paging" => paging[a].pc = "paging"
             /\ Begun(a)' => Begun(a) /\ paging'[a].limit = paging[a].limit
  <2>1. CASE a = list
    BY <2>1 DEF Begun
  <2>2. CASE a # list
    BY <2>2 DEF Begun, Lists
  <2> QED
    BY <2>1, <2>2
<1>7. /\ paging'["catalog"] \in Paging /\ paging'["catalog"].items \subseteq Apps
      /\ paging'["catalog"].pc = "paging" => phase' = "catalog"
  BY <1>1, <1>5 DEF PhaseInv
<1>8. \A a \in Apps :
          /\ paging'[a].pc = "paging" => phase' = "apps" \/ (phase' = "probe" /\ a = First')
          /\ Begun(a)' => paging'[a].limit = IF kind' = "scans" /\ a = First' THEN 1 ELSE NoLimit
  BY <1>1, <1>2, <1>6 DEF PhaseInv
<1>9. /\ paging'["org"].pc = "paging" => phase' = "org"
      /\ Begun("org")' => paging'["org"].limit = MaxPages
      /\ phase' \in {"catalog", "probe", "apps"} => paging'["org"].pc = "idle"
      /\ phase' = "org" => paging'["org"].pc # "idle"
  <2>1. CASE list = "org"
    BY <1>1, <2>1 DEF PhaseInv, Begun
  <2>2. CASE list # "org"
    BY <1>1, <1>4, <2>2 DEF PhaseInv, Begun
  <2> QED
    BY <2>1, <2>2
<1> QED
  BY <1>1, <1>3, <1>7, <1>8, <1>9 DEF PhaseInv

\* One lemma for each kind of step: pages, exceptions, handlers, the collection
LEMMA FetchKeepsList ==
    ASSUME ListInv, NEW list \in Lists, FetchPage(list)
    PROVE  ListInv'
<1>1. /\ phase' = phase /\ kind' = kind /\ result' = result /\ order' = order
      /\ remote' = remote /\ stayed' = stayed /\ created' = created /\ removed' = removed
  BY DEF FetchPage
<1>2. DOMAIN paging = Lists /\ paging[list].pc = "paging"
  BY DEF ListInv, FetchPage
<1>3. \A l \in Lists \ {list} : paging'[l] = paging[l]
  BY <1>2 DEF FetchPage
<1>4. DOMAIN paging' = Lists
  BY <1>2 DEF FetchPage
<1>5. paging[list] \in Paging
  BY DEF ListInv, PageInv, PhaseInv, Lists
<1>6. /\ paging'[list].limit = paging[list].limit /\ paging'[list].pc # "idle"
      /\ paging'[list].items = paging[list].items \cup PageAt(list)
  BY <1>2, <1>5 DEF FetchPage, Paging
<1>7. ASSUME list = "catalog"
      PROVE  paging'[list] \in Paging /\ paging'[list].items \subseteq Apps
  <2>1. PageAt(list) \subseteq Apps
    BY <1>7 DEF PageAt, Content
  <2>2. paging[list].items \subseteq Apps
    BY <1>7 DEF ListInv, PhaseInv
  <2>3. Cardinality(PageAt(list)) \in Nat
    BY <2>1, ListingAssumption, PartSize
  <2>4. Top \in Nat /\ paging[list].pages + 1 \in Nat
    BY <1>5, ListingAssumption DEF Paging
  <2>5. paging'[list] \in Paging
    <3> DEFINE p == paging[list]
               q == paging'[list]
    <3>1. /\ q.pc \in {"idle", "paging", "done", "failed"} /\ q.limit = p.limit
          /\ q.pages = p.pages + 1 /\ q.skip = p.skip + Top
          /\ q.length = p.length + Cardinality(PageAt(list))
          /\ q.items = p.items \cup PageAt(list)
          /\ q.twice = p.twice \cup (p.items \cap PageAt(list))
          /\ q = [pc |-> q.pc, limit |-> q.limit, pages |-> q.pages, skip |-> q.skip,
                  length |-> q.length, items |-> q.items, twice |-> q.twice]
      BY <1>2, <1>5 DEF FetchPage, Paging
    <3>2. /\ p.limit \in Nat /\ p.pages \in Nat /\ p.skip \in Nat /\ p.length \in Nat
          /\ p.items \subseteq Items \cup Apps /\ p.twice \subseteq Items \cup Apps
      BY <1>5 DEF Paging
    <3>3. q.limit \in Nat /\ q.pages \in Nat /\ q.skip \in Nat /\ q.length \in Nat
      BY <2>3, <2>4, <3>1, <3>2
    <3>4. q.items \in SUBSET (Items \cup Apps) /\ q.twice \in SUBSET (Items \cup Apps)
      BY <2>1, <3>1, <3>2
    <3> QED
      BY <3>1, <3>3, <3>4 DEF Paging
  <2> QED
    BY <1>6, <2>1, <2>2, <2>5
<1>8. PhaseInv' /\ ResultInv'
  BY <1>1, <1>2, <1>3, <1>6, <1>7, PagingKeepsPhase
<1>9. \A l \in Apps \cup {"org"} : PageInv(l)'
  <2> SUFFICES ASSUME NEW l \in Apps \cup {"org"} PROVE PageInv(l)'
    OBVIOUS
  <2>1. CASE l = list
    BY <2>1, FetchKeepsPage
  <2>2. CASE l # list
    <3>1. paging'[l] = paging[l] /\ PageInv(l)
      BY <1>3, <2>2 DEF ListInv, Lists
    <3> QED
      BY <1>1, <3>1, SamePage
  <2> QED
    BY <2>1, <2>2
<1> QED
  BY <1>1, <1>4, <1>8, <1>9 DEF ListInv

LEMMA RaisingKeepsList ==
    ASSUME ListInv, NEW list \in Lists, FetchRaises(list)
    PROVE  ListInv'
<1>1. /\ phase' = phase /\ kind' = kind /\ result' = result /\ order' = order
      /\ remote' = remote /\ stayed' = stayed /\ created' = created /\ removed' = removed
  BY DEF FetchRaises
<1>2. DOMAIN paging = Lists /\ paging[list].pc = "paging"
  BY DEF ListInv, FetchRaises
<1>3. /\ \A l \in Lists \ {list} : paging'[l] = paging[l]
      /\ paging'[list] = [NotAsked EXCEPT !.pc = "failed"] /\ DOMAIN paging' = Lists
  BY <1>2 DEF FetchRaises
<1>4. paging'[list].pc = "failed" /\ paging'[list].items = {}
  BY <1>3 DEF NotAsked
<1>5. paging'[list] \in Paging
  <2>1. NotAsked \in Paging
    BY DEF NotAsked, Paging
  <2> QED
    BY <1>3, <2>1 DEF Paging
<1>6. PhaseInv' /\ ResultInv'
  BY <1>1, <1>2, <1>3, <1>4, <1>5, PagingKeepsPhase
<1>7. \A l \in Apps \cup {"org"} : PageInv(l)'
  <2> SUFFICES ASSUME NEW l \in Apps \cup {"org"} PROVE PageInv(l)'
    OBVIOUS
  <2>1. CASE l = list
    BY <1>3, <2>1, NoPage
  <2>2. CASE l # list
    <3>1. paging'[l] = paging[l] /\ PageInv(l)
      BY <1>3, <2>2 DEF ListInv, Lists
    <3> QED
      BY <1>1, <3>1, SamePage
  <2> QED
    BY <2>1, <2>2
<1> QED
  BY <1>1, <1>3, <1>6, <1>7 DEF ListInv

NonePaging == \A list \in Lists : paging[list].pc # "paging"

LEMMA AsksOrganisation ==
    ASSUME ListInv, NonePaging, Goes("org", {"org"}, MaxPages)
    PROVE  ListInv'
<1>1. {"org"} \in SUBSET (Apps \cup {"org"}) /\ MaxPages \in Nat \ {0}
  BY ListingAssumption
<1>2. /\ phase' = "org" /\ kind' = kind /\ order' = order /\ DOMAIN paging' = Lists
      /\ order' \in Orders /\ stayed' \subseteq remote' /\ remote' \subseteq Items
      /\ \A list \in Lists \ {"org"} : paging'[list] = paging[list]
      /\ \A list \in Apps \cup {"org"} : PageInv(list)'
  BY <1>1, GoesOn
<1>0. \A list \in {"org"} : paging'[list].pc = "paging" /\ paging'[list].limit = MaxPages
  BY <1>1, AskedNow
<1>3. PhaseInv
  BY DEF ListInv
<1>4. paging'["catalog"] = paging["catalog"] /\ paging["catalog"].pc # "paging"
  BY <1>2, NamesDiffer DEF Lists, NonePaging
<1>5. \A a \in Apps : paging'[a] = paging[a] /\ paging[a].pc # "paging"
  BY <1>2, NamesDiffer DEF Lists, NonePaging
<1>6. PhaseInv'
  BY <1>0, <1>2, <1>3, <1>4, <1>5, SameFirst DEF PhaseInv, Begun
<1>7. ResultInv'
  BY <1>2 DEF ResultInv
<1> QED
  BY <1>2, <1>6, <1>7 DEF ListInv

LEMMA AsksTheirLists ==
    ASSUME ListInv, NonePaging, phase \in {"catalog", "probe"},
           NEW lists \in SUBSET Apps, kind = "scans" => First \notin lists,
           Goes("apps", lists, NoLimit)
    PROVE  ListInv'
<1>1. lists \in SUBSET (Apps \cup {"org"}) /\ NoLimit \in Nat \ {0}
  BY ListingAssumption
<1>2. /\ phase' = "apps" /\ kind' = kind /\ order' = order /\ DOMAIN paging' = Lists
      /\ order' \in Orders /\ stayed' \subseteq remote' /\ remote' \subseteq Items
      /\ \A list \in Lists \ lists : paging'[list] = paging[list]
      /\ \A list \in Apps \cup {"org"} : PageInv(list)'
  BY <1>1, GoesOn
<1>0. \A list \in lists : paging'[list].pc = "paging" /\ paging'[list].limit = NoLimit
  BY <1>1, AskedNow
<1>3. PhaseInv
  BY DEF ListInv
<1>4. paging'["catalog"] = paging["catalog"] /\ paging["catalog"].pc # "paging"
  BY <1>2, NamesDiffer DEF Lists, NonePaging
<1>5. paging'["org"] = paging["org"] /\ paging["org"].pc = "idle"
  BY <1>2, <1>3, NamesDiffer DEF Lists, PhaseInv
<1>6. \A a \in Apps : Begun(a)' => paging'[a].limit
                                      = IF kind' = "scans" /\ a = First' THEN 1 ELSE NoLimit
  <2> SUFFICES ASSUME NEW a \in Apps, Begun(a)'
               PROVE  paging'[a].limit = IF kind = "scans" /\ a = First THEN 1 ELSE NoLimit
    BY <1>2, SameFirst
  <2>1. CASE a \in lists
    BY <1>0, <2>1
  <2>2. CASE a \notin lists
    BY <1>2, <1>3, <2>2 DEF Lists, PhaseInv, Begun
  <2> QED
    BY <2>1, <2>2
<1>7. PhaseInv'
  BY <1>0, <1>2, <1>3, <1>4, <1>5, <1>6 DEF PhaseInv, Begun
<1>8. ResultInv'
  BY <1>2 DEF ResultInv
<1> QED
  BY <1>2, <1>7, <1>8 DEF ListInv

LEMMA AsksTheFirst ==
    ASSUME ListInv, NonePaging, phase = "catalog", kind = "scans", First \in Apps,
           Goes("probe", {First}, 1)
    PROVE  ListInv'
<1>1. {First} \in SUBSET (Apps \cup {"org"}) /\ 1 \in Nat \ {0}
  OBVIOUS
<1>2. /\ phase' = "probe" /\ kind' = kind /\ order' = order /\ DOMAIN paging' = Lists
      /\ order' \in Orders /\ stayed' \subseteq remote' /\ remote' \subseteq Items
      /\ \A list \in Lists \ {First} : paging'[list] = paging[list]
      /\ \A list \in Apps \cup {"org"} : PageInv(list)'
  BY <1>1, GoesOn
<1>0. \A list \in {First} : paging'[list].pc = "paging" /\ paging'[list].limit = 1
  BY <1>1, AskedNow
<1>3. PhaseInv /\ First' = First
  BY <1>2, SameFirst DEF ListInv
<1>4. paging'["catalog"] = paging["catalog"] /\ paging["catalog"].pc # "paging"
  BY <1>2, NamesDiffer DEF Lists, NonePaging
<1>5. paging'["org"] = paging["org"] /\ paging["org"].pc = "idle"
  BY <1>2, <1>3, NamesDiffer DEF Lists, PhaseInv
<1>6. \A a \in Apps \ {First} : paging'[a] = paging[a] /\ paging[a].pc # "paging"
  BY <1>2 DEF Lists, NonePaging
<1>7. PhaseInv'
  BY <1>0, <1>2, <1>3, <1>4, <1>5, <1>6 DEF PhaseInv, Begun
<1>8. ResultInv'
  BY <1>2 DEF ResultInv
<1> QED
  BY <1>2, <1>7, <1>8 DEF ListInv

LEMMA AskingKeepsList ==
    ASSUME ListInv, AskApplications \/ AskOthers
    PROVE  ListInv'
<1>1. PhaseInv /\ order \in Orders
  BY DEF ListInv
<1>2. paging["catalog"].items \in SUBSET Apps
  BY <1>1 DEF PhaseInv
<1>3. CASE AskApplications
  <2>1. phase = "catalog" /\ paging["catalog"].pc # "paging"
    BY <1>3 DEF AskApplications, Ended
  <2>2. NonePaging
    BY <1>1, <2>1, NamesDiffer DEF NonePaging, PhaseInv, Lists
  <2>3. CASE paging["catalog"].items = {}
    BY <1>3, <2>2, <2>3, AsksOrganisation DEF AskApplications
  <2>4. CASE paging["catalog"].items # {} /\ kind = "scans"
    <3>1. First \in Apps
      BY <1>1, <1>2, <2>4, FirstIs
    <3> QED
      BY <1>3, <2>1, <2>2, <2>4, <3>1, AsksTheFirst DEF AskApplications
  <2>5. CASE paging["catalog"].items # {} /\ kind # "scans"
    <3>1. Goes("apps", paging["catalog"].items, NoLimit)
      BY <1>3, <2>5 DEF AskApplications
    <3> QED
      BY <1>2, <2>1, <2>2, <2>5, <3>1, AsksTheirLists
  <2> QED
    BY <2>3, <2>4, <2>5
<1>4. CASE AskOthers
  <2>1. phase = "probe" /\ paging[First].pc # "paging"
    BY <1>4 DEF AskOthers, Ended
  <2>2. NonePaging
    BY <1>1, <2>1, NamesDiffer DEF NonePaging, PhaseInv, Lists
  <2>3. CASE paging[First].pc = "failed"
    BY <1>4, <2>2, <2>3, AsksOrganisation DEF AskOthers
  <2>4. CASE paging[First].pc # "failed"
    <3>1. Goes("apps", paging["catalog"].items \ {First}, NoLimit)
      BY <1>4, <2>4 DEF AskOthers
    <3>2. paging["catalog"].items \ {First} \in SUBSET Apps
      BY <1>2
    <3> QED
      BY <2>1, <2>2, <3>1, <3>2, AsksTheirLists
  <2> QED
    BY <2>3, <2>4
<1> QED
  BY <1>3, <1>4

LEMMA ReturningKeepsList ==
    ASSUME ListInv, NonePaging, phase' \in {"done", "raised"},
           UNCHANGED <<kind, paging, order, remote, stayed, created, removed>>,
           paging["org"].pc = "idle" \/ phase = "org",
           ResultInv'
    PROVE  ListInv'
<1>1. PhaseInv /\ First' = First
  BY SameFirst DEF ListInv
<1>2. PhaseInv'
  BY <1>1 DEF PhaseInv, NonePaging, Lists, Begun
<1>3. \A list \in Apps \cup {"org"} : PageInv(list)'
  BY SamePage DEF ListInv
<1> QED
  BY <1>2, <1>3 DEF ListInv

LEMMA CollectingKeepsList ==
    ASSUME ListInv, CollectApplications \/ CollectOrganisation
    PROVE  ListInv'
<1>1. PhaseInv
  BY DEF ListInv
<1>2. CASE CollectApplications
  <2>1. phase = "apps" /\ \A a \in Apps : paging[a].pc # "paging"
    BY <1>2 DEF CollectApplications, Ended
  <2>2. NonePaging /\ paging["org"].pc = "idle"
    BY <1>1, <2>1, NamesDiffer DEF NonePaging, PhaseInv, Lists
  <2>3. CASE AppLists.items = {} /\ kind # "scoped"
    BY <1>2, <2>2, <2>3, AsksOrganisation DEF CollectApplications
  <2>4. CASE ~(AppLists.items = {} /\ kind # "scoped")
    <3> DEFINE lists == IF kind = "scans" THEN Distinct(AppLists) ELSE AppLists
    <3>1. Returns(lists)
      BY <1>2, <2>4 DEF CollectApplications
    <3>2. /\ phase' = "done" /\ result' = lists
          /\ UNCHANGED <<kind, paging, order, remote, stayed, created, removed>>
      BY <3>1 DEF Returns
    <3>3. AppLists' = AppLists /\ ~FromOrganisation'
      BY <2>2, <3>2 DEF AppLists, FromOrganisation
    <3>4. /\ lists.items = AppLists.items
          /\ lists.twice = IF kind = "scans" THEN {} ELSE AppLists.twice
      BY DEF Distinct, AppLists
    <3> HIDE DEF lists
    <3>5. ResultInv'
      BY <3>2, <3>3, <3>4 DEF ResultInv
    <3> QED
      BY <2>2, <3>2, <3>5, ReturningKeepsList
  <2> QED
    BY <2>3, <2>4
<1>3. CASE CollectOrganisation
  <2>1. phase = "org" /\ paging["org"].pc \in {"idle", "done", "failed"}
    BY <1>3 DEF CollectOrganisation, Ended
  <2>2. NonePaging /\ paging["org"].pc # "idle"
    BY <1>1, <2>1, NamesDiffer DEF NonePaging, PhaseInv, Lists
  <2>3. CASE Raises
    <3>1. /\ phase' = "raised"
          /\ UNCHANGED <<kind, paging, order, remote, stayed, created, removed>>
      BY <2>3 DEF Raises
    <3>2. ResultInv'
      BY <3>1 DEF ResultInv
    <3> QED
      BY <2>1, <2>2, <3>1, <3>2, ReturningKeepsList
  <2>4. CASE paging["org"].pc # "failed" /\ Returns(Listed("org"))
    <3>1. /\ phase' = "done" /\ result' = Listed("org")
          /\ UNCHANGED <<kind, paging, order, remote, stayed, created, removed>>
      BY <2>4 DEF Returns
    <3>2. FromOrganisation' /\ Listed("org")' = Listed("org")
      BY <2>1, <2>2, <2>4, <3>1 DEF FromOrganisation, Listed
    <3>3. ResultInv'
      BY <3>1, <3>2 DEF ResultInv
    <3> QED
      BY <2>1, <2>2, <3>1, <3>3, ReturningKeepsList
  <2> QED
    BY <1>3, <2>3, <2>4 DEF CollectOrganisation
<1> QED
  BY <1>2, <1>3

LEMMA RemoteKeepsList ==
    ASSUME ListInv, NEW item \in Items, RemoteCreates(item) \/ RemoteRemoves(item)
    PROVE  ListInv'
<1>1. /\ phase' = phase /\ kind' = kind /\ paging' = paging /\ result' = result
      /\ order' = order /\ phase \notin {"done", "raised"}
  BY DEF RemoteCreates, RemoteRemoves, Ongoing
<1>2. stayed' \subseteq remote' /\ remote' \subseteq Items
  BY DEF ListInv, RemoteCreates, RemoteRemoves
<1>3. PhaseInv'
  BY <1>1, SameFirst DEF ListInv, PhaseInv, Begun
<1>4. ResultInv'
  BY <1>1 DEF ResultInv
<1>5. \A list \in Apps \cup {"org"} : PageInv(list)'
  BY CreatedKeepsPage, RemovedKeepsPage
<1> QED
  BY <1>1, <1>2, <1>3, <1>4, <1>5 DEF ListInv

LEMMA StutterKeepsList ==
    ASSUME ListInv, UNCHANGED listVars
    PROVE  ListInv'
<1>1. /\ phase' = phase /\ kind' = kind /\ paging' = paging /\ result' = result
      /\ order' = order /\ remote' = remote /\ stayed' = stayed
      /\ created' = created /\ removed' = removed
  BY DEF listVars
<1>2. PhaseInv'
  BY <1>1, SameFirst DEF ListInv, PhaseInv, Begun
<1>3. ResultInv'
  BY <1>1 DEF ListInv, ResultInv, FromOrganisation, Listed, AppLists
<1>4. \A list \in Apps \cup {"org"} : PageInv(list)'
  BY <1>1, SamePage DEF ListInv
<1> QED
  BY <1>1, <1>2, <1>3, <1>4 DEF ListInv

\* At the end a list has all of its items, or stopped at a limit MayMiss names: the
\* limit of one application's list is beyond all items, so only the others can.
LEMMA WholeListsLoseNothing == ListInv => ListingLosesNothing
<1> SUFFICES ASSUME ListInv, phase = "done"
             PROVE  /\ removed = {} => \A item \in stayed : item \in result.items \/ MayMiss(item)
                    /\ created = {} \/ (kind = "scans" /\ ~FromOrganisation) => result.twice = {}
  BY DEF ListingLosesNothing
<1>1. /\ PhaseInv /\ ResultInv /\ stayed \subseteq remote /\ remote \subseteq Items
      /\ \A list \in Apps \cup {"org"} : PageInv(list)
  BY DEF ListInv
<1>2. AppLists.items = UNION {paging[a].items : a \in Apps}
  BY DEF AppLists
<1>3. ASSUME removed = {}, NEW item \in stayed
      PROVE  item \in result.items \/ MayMiss(item)
  <2>1. item \in remote /\ item \in Items /\ AppOf[item] \in Apps
    BY <1>1, ListingAssumption
  <2>2. CASE FromOrganisation
    <3>1. PageInv("org") /\ paging["org"].pc = "done"
      BY <1>1, <2>2 DEF FromOrganisation
    <3>2. \/ Whole("org")
          \/ paging["org"].length = paging["org"].limit * Top
      BY <1>3, <3>1 DEF PageInv
    <3>3. CASE Whole("org")
      <4>1. item \in Due("org")
        BY <1>3, <2>1, NamesDiffer DEF Due, Content
      <4>2. item \in paging["org"].items
        BY <3>3, <4>1 DEF Whole
      <4>3. result.items = paging["org"].items
        BY <1>1, <2>2 DEF ResultInv, Listed
      <4> QED
        BY <4>2, <4>3
    <3>4. CASE paging["org"].length = paging["org"].limit * Top
      <4>1. paging["org"].limit = MaxPages
        BY <1>1, <3>1 DEF PhaseInv, Begun
      <4>2. paging["org"].length >= MaxPages * Top
        BY <3>4, <4>1, ListingAssumption
      <4> QED
        BY <2>2, <4>2 DEF MayMiss
    <3> QED
      BY <3>2, <3>3, <3>4
  <2>3. CASE ~FromOrganisation
    <3> DEFINE a == AppOf[item]
               p == paging[a]
    <3>1. CASE p.pc # "done"
      BY <2>3, <3>1 DEF MayMiss
    <3>2. CASE p.pc = "done" /\ Whole(a)
      <4>1. item \in Due(a)
        BY <1>3, <2>1, NamesDiffer DEF Due, Content
      <4>2. item \in p.items
        BY <3>2, <4>1 DEF Whole
      <4>3. item \in AppLists.items
        BY <1>2, <2>1, <4>2
      <4> QED
        BY <1>1, <2>3, <4>3 DEF ResultInv
    <3>3. CASE p.pc = "done" /\ p.length = p.limit * Top /\ p.length <= Cardinality(Items)
      <4>1. p.limit = IF kind = "scans" /\ a = First THEN 1 ELSE NoLimit
        BY <1>1, <2>1, <3>3 DEF PhaseInv, Begun
      <4>2. CASE kind = "scans" /\ a = First
        <5>1. p.length = Top
          BY <3>3, <4>1, <4>2, ListingAssumption
        <5> QED
          BY <2>3, <4>2, <5>1 DEF MayMiss
      <4>3. CASE ~(kind = "scans" /\ a = First)
        <5>1. NoLimit * Top <= Cardinality(Items)
          BY <3>3, <4>1, <4>3
        <5>2. Cardinality(Items) \in Nat /\ NoLimit * Top \in Nat
          BY FS_CardinalityType, ListingAssumption
        <5>3. NoLimit * Top > Cardinality(Items)
          BY ListingAssumption
        <5> HIDE DEF a, p
        <5> QED
          BY <5>1, <5>2, <5>3
      <4> QED
        BY <4>2, <4>3
    <3>4. PageInv(a)
      BY <1>1, <2>1
    <3> QED
      BY <1>3, <3>1, <3>2, <3>3, <3>4 DEF PageInv
  <2> QED
    BY <2>2, <2>3
<1>4. ASSUME created = {} \/ (kind = "scans" /\ ~FromOrganisation)
      PROVE  result.twice = {}
  <2>1. CASE FromOrganisation
    <3>1. created = {} /\ PageInv("org")
      BY <1>1, <1>4, <2>1
    <3>2. paging["org"].twice = {}
      BY <3>1 DEF PageInv
    <3> QED
      BY <1>1, <2>1, <3>2 DEF ResultInv, Listed
  <2>2. CASE ~FromOrganisation /\ kind = "scans"
    BY <1>1, <2>2 DEF ResultInv
  <2>3. CASE ~FromOrganisation /\ kind # "scans"
    <3>1. created = {}
      BY <1>4, <2>3
    <3>2. \A a \in Apps : paging[a].twice = {} /\ paging[a].items \subseteq Of(a)
      BY <1>1, <3>1 DEF PageInv
    <3>3. \A a, b \in Apps : a # b => paging[a].items \cap paging[b].items = {}
      BY <3>2, NamesDiffer DEF Of
    <3>4. UNION {paging[a].twice : a \in Apps} = {}
      BY <3>2
    <3>5. AppLists.twice = {}
      BY <3>3, <3>4 DEF AppLists
    <3> QED
      BY <1>1, <2>3, <3>5 DEF ResultInv
  <2> QED
    BY <2>1, <2>2, <2>3
<1> QED
  BY <1>3, <1>4

\* list_issues, list_scans and list_issues_for_applications lose no item that was there
\* all the time, and count none twice, but for the cases MayMiss and the exceptions name.
THEOREM ListingIsWhole == ListSpec => []ListingLosesNothing
<1>1. ListInv /\ [ListNext]_listVars => ListInv'
  <2> SUFFICES ASSUME ListInv, [ListNext]_listVars
               PROVE  ListInv'
    OBVIOUS
  <2>1. CASE \E list \in Lists : Fetching(list)
    BY <2>1, FetchKeepsList, RaisingKeepsList DEF Fetching
  <2>2. CASE AskApplications \/ AskOthers
    BY <2>2, AskingKeepsList
  <2>3. CASE CollectApplications \/ CollectOrganisation
    BY <2>3, CollectingKeepsList
  <2>4. CASE RemoteChanges
    BY <2>4, RemoteKeepsList DEF RemoteChanges
  <2>5. CASE UNCHANGED listVars
    BY <2>5, StutterKeepsList
  <2> QED
    BY <2>1, <2>2, <2>3, <2>4, <2>5 DEF ListNext
<1> QED
  BY <1>1, InitBegins, WholeListsLoseNothing, PTL DEF ListSpec
=============================================================================
