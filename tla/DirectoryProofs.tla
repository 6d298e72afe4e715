-------------------------- MODULE DirectoryProofs --------------------------
(***************************************************************************)
(* What module Directory promises for all tables, connections and widths   *)
(* of int and long long, whatever statement fails and whoever crashes.     *)
(***************************************************************************)
EXTENDS Directory, TLAPS

-----------------------------------------------------------------------------
(* getInt *)

\* A number that a type can hold passes through the cast unchanged.
LEMMA CastOfInt ==
    ASSUME NEW x \in Int, FitsInt(x)
    PROVE  ((x - IntMin) % (2 * (IntMax + 1))) + IntMin = x
<1>. DEFINE size == 2 * (IntMax + 1)
            y == x - IntMin
<1>1. size \in Nat /\ size > 0 /\ y \in 0..(size - 1) /\ IntMin \in Int
  BY RequestAssumption DEF FitsInt, IntMin
<1>. HIDE DEF size, y
<1>2. y % size = y
  BY <1>1
<1>. QED
  BY <1>1, <1>2 DEF size, y

\* What getInt accepts it hands over as the long long that it has read.
LEMMA GetIntValue ==
    ASSUME NEW f \in Fields, GetsInt(f)
    PROVE  /\ IntOf(f) = LongLongOf(f)
           /\ IntOf(f) \in IntMin..IntMax /\ IntOf(f) \in Int
<1>1. f.num \in Int
  BY RequestAssumption DEF Fields, LongMin, Modulus
<1>2. LongLongOf(f) \in Int /\ FitsInt(LongLongOf(f))
  BY <1>1, RequestAssumption DEF GetsInt, LongLongOf, AsLongLong, Modulus
<1>3. IntMin \in Int
  BY RequestAssumption DEF IntMin
<1>. QED
  BY <1>2, <1>3, CastOfInt, RequestAssumption DEF IntOf, FitsInt

\* A field that getInt accepts as a number that is not negative is just this
\* number: what wraps around is refused or becomes negative.
THEOREM GetIntFaithful ==
    ASSUME NEW f \in Fields, GetsInt(f), IntOf(f) >= 0
    PROVE  IntOf(f) = f.num
<1>1. IntOf(f) = LongLongOf(f) /\ f.num \in Int
  BY GetIntValue, RequestAssumption DEF Fields, LongMin, Modulus
<1>2. CASE f.kind = "number"
  <2>1. f.num \in LongMin..(Modulus - 1)
    BY <1>2 DEF Fields
  <2>. QED
    BY <1>1, <1>2, <2>1, RequestAssumption
       DEF LongLongOf, AsLongLong, LongMin, Modulus
<1>3. CASE f.kind # "number"
  BY <1>1, <1>3 DEF LongLongOf
<1>. QED
  BY <1>2, <1>3

-----------------------------------------------------------------------------
(* Types *)

\* What can be said of the variables without the handlers' places.
TableTypes ==
    /\ userTable \in Seq(Names)
    /\ friendTable \subseteq Int \X Int
    /\ groupTable \in Seq(Int)
    /\ groupUser \subseteq Rows
    /\ bound \in [Conns -> Int \cup {None}]
    /\ requests \in 0..MaxRequests
    /\ told \subseteq [name : Names, id : Nat]
    /\ asked \subseteq [table : {"friend", "groupuser"}, user : Int, other : Int]
    /\ early \subseteq Int \X Int
    /\ cutShort \subseteq GroupIds

\* Each handler has the local variables of its place, and those after the
\* check of the connection have an account.
HandlerTypes ==
    /\ DOMAIN at = Conns /\ DOMAIN local = Conns
    /\ \A c \in Conns :
          /\ LocalOK(c)
          /\ at[c] \notin {"idle", "reply"} => bound[c] # None

Types == TableTypes /\ HandlerTypes

\* Tables of accounts and groups only grow.
Grows == UserIds \subseteq UserIds' /\ GroupIds \subseteq GroupIds'

\* A step of one handler, whose own local variables are of their types.
LEMMA HandlerMoves ==
    ASSUME HandlerTypes, Grows, NEW c \in Conns, NEW step, NEW variables,
           Goes(c, step, variables),
           \A d \in Conns : d # c => bound'[d] = bound[d],
           at'[c] = step /\ local'[c] = variables => LocalOK(c)',
           step \in {"idle", "reply"} \/ bound'[c] # None
    PROVE  HandlerTypes'
<1>1. /\ DOMAIN at' = Conns /\ DOMAIN local' = Conns
      /\ at'[c] = step /\ local'[c] = variables
      /\ \A d \in Conns : d # c => at'[d] = at[d] /\ local'[d] = local[d]
  BY DEF Goes, HandlerTypes
<1>2. ASSUME NEW d \in Conns, d # c PROVE LocalOK(d)'
  BY <1>1, <1>2 DEF HandlerTypes, LocalOK, At, Grows
<1>. QED
  BY <1>1, <1>2 DEF HandlerTypes

LEMMA HandlerEnds ==
    ASSUME HandlerTypes, Grows, NEW c \in Conns, Ends(c),
           \A d \in Conns : d # c => bound'[d] = bound[d]
    PROVE  HandlerTypes'
<1>1. at'[c] = "idle" /\ local'[c] = None => LocalOK(c)'
  BY DEF LocalOK, At
<1>. QED
  BY <1>1, HandlerMoves DEF Ends

\* The handlers stay where they are.
LEMMA HandlersStay ==
    ASSUME HandlerTypes, Grows, UNCHANGED <<at, local>>,
           \A c \in Conns : At(c, "idle") \/ bound'[c] = bound[c]
    PROVE  HandlerTypes'
BY DEF HandlerTypes, LocalOK, At, Grows

LEMMA StartTypes == Init => Types
<1>. HAVE Init
<1>1. TableTypes
  BY DirectoryAssumption DEF Init, TableTypes, GroupIds
<1>2. HandlerTypes
  BY DEF Init, HandlerTypes, LocalOK, At
<1>. QED
  BY <1>1, <1>2 DEF Types

\* Where a bound account and the id of a request agree, both are numbers.
LEMMA BoundIsNumber ==
    ASSUME TableTypes, NEW c \in Conns, NEW id \in Values, BoundTo(c, id)
    PROVE  bound[c] # None /\ bound[c] \in Int /\ bound[c] = IntOf(id)
BY GetIntValue, DirectoryAssumption DEF BoundTo

LEMMA TypesStep == Types /\ [Next]_vars => Types'
<1>. SUFFICES ASSUME TableTypes, HandlerTypes, [Next]_vars
              PROVE  TableTypes' /\ HandlerTypes'
  BY DEF Types
<1>1. ASSUME NEW c \in Conns, NEW name \in Names, Reg(c, name)
      PROVE  TableTypes' /\ HandlerTypes'
  <2>1. /\ userTable' \in Seq(Names) /\ Len(userTable) + 1 \in UserIds'
        /\ Grows
    BY <1>1 DEF Reg, TableTypes, UserIds, GroupIds, Grows
  <2>2. TableTypes'
    BY <1>1, <2>1, DirectoryAssumption DEF Reg, Serves, TableTypes, GroupIds, history
  <2>. bound' = bound
    BY <1>1 DEF Reg
  <2>3. CASE Ends(c)
    BY <2>1, <2>2, <2>3, HandlerEnds
  <2>4. CASE Goes(c, "reply", [name |-> name, id |-> Len(userTable) + 1])
    <3>. DEFINE variables == [name |-> name, id |-> Len(userTable) + 1]
    <3>1. variables \in [name : Names, id : UserIds']
      BY <2>1
    <3>2. at'[c] = "reply" /\ local'[c] = variables => LocalOK(c)'
      BY <3>1 DEF LocalOK, At
    <3>. HIDE DEF variables
    <3>3. Goes(c, "reply", variables)
      BY <2>4 DEF variables
    <3>. QED
      BY <2>1, <2>2, <3>2, <3>3, HandlerMoves
  <2>. QED
    BY <1>1, <2>2, <2>3, <2>4 DEF Reg
<1>2. ASSUME NEW c \in Conns, RegReplies(c) PROVE TableTypes' /\ HandlerTypes'
  <2>1. local[c] \in [name : Names, id : UserIds]
    BY <1>2 DEF RegReplies, HandlerTypes, LocalOK, At
  <2>2. Grows /\ UserIds \subseteq Nat
    BY <1>2 DEF RegReplies, tables, UserIds, GroupIds, Grows, TableTypes
  <2>3. TableTypes'
    BY <1>2, <2>1, <2>2 DEF RegReplies, InsertId, TableTypes, tables, GroupIds
  <2>. QED
    BY <1>2, <2>2, <2>3, HandlerEnds DEF RegReplies
<1>3. ASSUME NEW c \in Conns, NEW id \in Values, Login(c, id)
      PROVE  TableTypes' /\ HandlerTypes'
  <2>1. Grows /\ IntOf(id) \in Int /\ IntOf(id) # None
    BY <1>3, GetIntValue, DirectoryAssumption
       DEF Login, tables, UserIds, GroupIds, Grows
  <2>2. TableTypes'
    BY <1>3, <2>1 DEF Login, TableTypes, tables, history, GroupIds
  <2>. QED
    <3>. DEFINE variables == [friends |-> {}, groups |-> <<>>]
    <3>1. /\ DOMAIN variables = {"friends", "groups"} /\ variables.friends = {}
          /\ DOMAIN variables.groups = {}
      OBVIOUS
    <3>. HIDE DEF variables
    <3>2. at'[c] = "friends" /\ local'[c] = variables => LocalOK(c)'
      BY <3>1 DEF LocalOK, At
    <3>3. Goes(c, "friends", variables)
      BY <1>3 DEF Login, variables
    <3>4. bound' = [bound EXCEPT ![c] = IntOf(id)]
      BY <1>3 DEF Login
    <3>. QED
      BY <2>1, <2>2, <3>2, <3>3, <3>4, HandlerMoves DEF TableTypes
<1>4. ASSUME NEW c \in Conns, QueryFriends(c) PROVE TableTypes' /\ HandlerTypes'
  <2>1. Grows /\ TableTypes'
    BY <1>4 DEF QueryFriends, tables, history, UserIds, GroupIds, Grows, TableTypes
  <2>2. LocalOK(c) /\ bound'[c] # None /\ UserIds' = UserIds /\ GroupIds' = GroupIds
    BY <1>4 DEF QueryFriends, HandlerTypes, At, tables, UserIds, GroupIds
  <2>3. \E v : /\ Goes(c, "groups", v)
               /\ v = local[c] \/ v = [local[c] EXCEPT !.friends = FriendsOf(bound[c])]
    BY <1>4 DEF QueryFriends
  <2>. QED
    BY ZenonT(60), <1>4, <2>1, <2>2, <2>3, HandlerMoves DEF QueryFriends, LocalOK, At, FriendsOf
<1>5. ASSUME NEW c \in Conns, QueryGroups(c) PROVE TableTypes' /\ HandlerTypes'
  <2>1. Grows /\ TableTypes'
    BY <1>5 DEF QueryGroups, tables, history, UserIds, GroupIds, Grows, TableTypes
  <2>2. LocalOK(c) /\ bound'[c] # None /\ UserIds' = UserIds /\ GroupIds' = GroupIds
    BY <1>5 DEF QueryGroups, HandlerTypes, At, tables, UserIds, GroupIds
  <2>3. GroupsOf(bound[c]) \subseteq GroupIds
    BY DEF GroupsOf
  <2>. QED
    BY <1>5, <2>1, <2>2, <2>3, HandlerMoves DEF QueryGroups, LocalOK, At
<1>6. ASSUME NEW c \in Conns, NEW g \in GroupIds, QueryMembers(c, g)
      PROVE  TableTypes' /\ HandlerTypes'
  <2>1. Grows /\ TableTypes'
    BY <1>6 DEF QueryMembers, tables, history, UserIds, GroupIds, Grows, TableTypes
  <2>2. LocalOK(c) /\ bound'[c] # None /\ UserIds' = UserIds /\ GroupIds' = GroupIds
    BY <1>6 DEF QueryMembers, HandlerTypes, At, tables, UserIds, GroupIds
  <2>3. PICK found : Goes(c, "members", [local[c] EXCEPT !.groups[g] = found])
    BY <1>6 DEF QueryMembers
  <2>. QED
    BY <1>6, <2>1, <2>2, <2>3, HandlerMoves DEF QueryMembers, LocalOK, At
<1>7. ASSUME NEW c \in Conns, LoginReplies(c) \/ FanOutEnds(c)
      PROVE  TableTypes' /\ HandlerTypes'
  <2>1. Grows /\ TableTypes'
    BY <1>7 DEF LoginReplies, FanOutEnds, tables, history, UserIds, GroupIds, Grows,
                TableTypes
  <2>. QED
    BY <1>7, <2>1, HandlerEnds DEF LoginReplies, FanOutEnds
<1>8. ASSUME NEW c \in Conns, Release(c) PROVE TableTypes' /\ HandlerTypes'
  <2>1. Grows /\ TableTypes'
    BY <1>8 DEF Release, tables, history, UserIds, GroupIds, Grows, TableTypes
  <2>. QED
    BY <1>8, <2>1, HandlersStay DEF Release, TableTypes, At
<1>9. ASSUME NEW c \in Conns, NEW id \in Values, NEW friend \in Values,
             AddFriend(c, id, friend)
      PROVE  TableTypes' /\ HandlerTypes'
  <2>1. friend.num \in Int
    BY DirectoryAssumption, RequestAssumption DEF Fields, LongMin, Modulus
  <2>2. IntOf(id) \in Int /\ IntOf(friend) \in Int /\ bound[c] \in Int
    BY <1>9, BoundIsNumber, GetIntValue, DirectoryAssumption DEF AddFriend, Begins, BoundTo
  <2>3. /\ friendTable' = friendTable \cup {<<IntOf(id), IntOf(friend)>>}
        /\ requests' = requests + 1 /\ requests < MaxRequests
        /\ asked' = asked \cup {[table |-> "friend", user |-> bound[c],
                                other |-> friend.num]}
        /\ UNCHANGED <<userTable, groupTable, groupUser, bound, told, early, cutShort>>
    BY <1>9 DEF AddFriend, Begins, Serves, Remember
  <2>4. /\ friendTable' \subseteq Int \X Int
        /\ requests' \in 0 .. MaxRequests
        /\ asked' \subseteq [table : {"friend", "groupuser"}, user : Int, other : Int]
    BY <2>1, <2>2, <2>3, DirectoryAssumption DEF TableTypes
  <2>5. Grows /\ TableTypes'
    BY <2>3, <2>4 DEF UserIds, GroupIds, Grows, TableTypes
  <2>. QED
    BY <1>9, <2>5, HandlersStay DEF AddFriend
<1>10. ASSUME NEW c \in Conns, NEW id \in Values, NEW group \in Values,
              AddGroup(c, id, group)
       PROVE  TableTypes' /\ HandlerTypes'
  <2>1. group.num \in Int
    BY DirectoryAssumption, RequestAssumption DEF Fields, LongMin, Modulus
  <2>2. IntOf(id) \in Int /\ IntOf(group) \in Int /\ bound[c] \in Int
    BY <1>10, BoundIsNumber, GetIntValue, DirectoryAssumption DEF AddGroup, Begins, BoundTo
  <2>3. WithRow(IntOf(group), IntOf(id), "normal") \subseteq Rows
    BY <2>2 DEF WithRow, TableTypes, Rows
  <2>4. /\ groupUser' = WithRow(IntOf(group), IntOf(id), "normal")
        /\ requests' = requests + 1 /\ requests < MaxRequests
        /\ asked' = asked \cup {[table |-> "groupuser", user |-> bound[c],
                                other |-> group.num]}
        /\ early' \subseteq early \cup {<<IntOf(group), IntOf(id)>>}
        /\ UNCHANGED <<userTable, friendTable, groupTable, bound, told, cutShort>>
    BY <1>10 DEF AddGroup, Begins, Serves, Remember
  <2>5. /\ early' \subseteq Int \X Int
        /\ requests' \in 0 .. MaxRequests
        /\ asked' \subseteq [table : {"friend", "groupuser"}, user : Int, other : Int]
    BY <2>1, <2>2, <2>4, DirectoryAssumption DEF TableTypes
  <2>6. Grows /\ TableTypes'
    BY <2>3, <2>4, <2>5 DEF UserIds, GroupIds, Grows, TableTypes
  <2>. QED
    BY <1>10, <2>6, HandlersStay DEF AddGroup
<1>11. ASSUME NEW c \in Conns, NEW id \in Values, CreateGroup(c, id)
       PROVE  TableTypes' /\ HandlerTypes'
  <2>1. bound[c] \in Int /\ bound[c] # None
    BY <1>11, BoundIsNumber DEF CreateGroup
  <2>2. /\ groupTable' \in Seq(Int) /\ Len(groupTable) + 1 \in GroupIds'
        /\ Grows
    BY <1>11, <2>1 DEF CreateGroup, TableTypes, UserIds, GroupIds, Grows
  <2>3. TableTypes'
    BY <1>11, <2>2, DirectoryAssumption DEF CreateGroup, Serves, TableTypes, Grows
  <2>4. CASE Ends(c)
    BY <1>11, <2>2, <2>3, <2>4, HandlerEnds DEF CreateGroup
  <2>5. CASE Goes(c, "addCreator", [id |-> Len(groupTable) + 1])
    BY <1>11, <2>1, <2>2, <2>3, <2>5, HandlerMoves DEF CreateGroup, LocalOK, At
  <2>. QED
    BY <1>11, <2>4, <2>5 DEF CreateGroup
<1>12. ASSUME NEW c \in Conns, InsertCreator(c) PROVE TableTypes' /\ HandlerTypes'
  <2>1. local[c] \in [id : GroupIds] /\ bound[c] \in Int
    BY <1>12 DEF InsertCreator, HandlerTypes, LocalOK, At, TableTypes
  <2>2. local[c].id \in Int /\ local[c].id \in GroupIds
    BY <2>1 DEF GroupIds, TableTypes
  <2>3. WithRow(local[c].id, bound[c], "creator") \subseteq Rows
    BY <2>1, <2>2 DEF WithRow, TableTypes, Rows
  <2>4. Grows /\ TableTypes'
    BY <1>12, <2>2, <2>3
       DEF InsertCreator, InsertId, UserIds, GroupIds, Grows, TableTypes
  <2>. QED
    BY <1>12, <2>4, HandlerEnds DEF InsertCreator
<1>13. ASSUME NEW c \in Conns, NEW id \in Values, NEW group \in Values,
              GroupChat(c, id, group)
       PROVE  TableTypes' /\ HandlerTypes'
  <2>1. bound[c] # None /\ IntOf(group) \in Int
    BY <1>13, BoundIsNumber, GetIntValue, DirectoryAssumption DEF GroupChat, Begins
  <2>2. Grows /\ TableTypes'
    BY <1>13, DirectoryAssumption
       DEF GroupChat, Begins, Serves, tables, history, UserIds, GroupIds, Grows,
           TableTypes
  <2>3. Audience(bound[c], IntOf(group)) \subseteq Int
    BY DEF Audience, TableTypes, Rows
  <2>. QED
    BY <1>13, <2>1, <2>2, <2>3, HandlerMoves DEF GroupChat, LocalOK, At
<1>14. ASSUME NEW c \in Conns, NEW u, SendToMember(c, u)
       PROVE  TableTypes' /\ HandlerTypes'
  <2>1. local[c] \in [group : Int, to : SUBSET Int] /\ bound'[c] # None
    BY <1>14 DEF SendToMember, HandlerTypes, LocalOK, At
  <2>2. Grows /\ TableTypes'
    BY <1>14 DEF SendToMember, tables, history, UserIds, GroupIds, Grows, TableTypes
  <2>. QED
    BY <1>14, <2>1, <2>2, HandlerMoves DEF SendToMember, LocalOK, At
<1>15. ASSUME NEW c \in Conns, Crash(c) PROVE TableTypes' /\ HandlerTypes'
  <2>1. At(c, "addCreator") => local[c].id \in GroupIds
    BY DEF HandlerTypes, LocalOK, At
  <2>2. Grows /\ TableTypes'
    BY <1>15, <2>1 DEF Crash, tables, UserIds, GroupIds, Grows, TableTypes
  <2>. QED
    BY <1>15, <2>2, HandlerEnds DEF Crash, TableTypes
<1>16. CASE UNCHANGED vars
  BY <1>16 DEF vars, tables, history, TableTypes, HandlerTypes, LocalOK, At, UserIds, GroupIds
<1>. QED
  BY <1>1, <1>2, <1>3, <1>4, <1>5, <1>6, <1>7, <1>8, <1>9, <1>10, <1>11, <1>12,
     <1>13, <1>14, <1>15, <1>16 DEF Next

LEMMA Typed == Spec => []Types
BY StartTypes, TypesStep, PTL DEF Spec

\* Whatever clients send and whatever fails, tables and handlers keep their
\* types.
THEOREM DirectoryTypeCorrect == Spec => []DirectoryTypeOK
<1>1. Types => DirectoryTypeOK
  BY DEF Types, TableTypes, HandlerTypes, DirectoryTypeOK
<1>. QED
  BY <1>1, Typed, PTL

-----------------------------------------------------------------------------
(* Rows *)

\* No statement changes or removes a row of user, allgroup or groupuser.
RowsStay ==
    /\ Grows
    /\ \A i \in UserIds : userTable'[i] = userTable[i]
    /\ \A g \in GroupIds : groupTable'[g] = groupTable[g]
    /\ groupUser \subseteq groupUser'

LEMMA RowsAreKept == Types /\ [Next]_vars => RowsStay
<1>. SUFFICES ASSUME TableTypes, [Next]_vars PROVE RowsStay
  BY DEF Types
<1>. USE DEF RowsStay, Grows, UserIds, GroupIds
<1>1. ASSUME NEW c \in Conns, NEW name \in Names, Reg(c, name) PROVE RowsStay
  BY <1>1 DEF Reg, TableTypes
<1>2. ASSUME NEW c \in Conns, NEW id \in Values, CreateGroup(c, id) PROVE RowsStay
  <2>1. bound[c] \in Int
    BY <1>2, BoundIsNumber DEF CreateGroup
  <2>. QED
    BY <1>2, <2>1 DEF CreateGroup, TableTypes
<1>3. ASSUME NEW c \in Conns, NEW id \in Values, NEW group \in Values,
             AddGroup(c, id, group)
      PROVE  RowsStay
  BY <1>3 DEF AddGroup, WithRow
<1>4. ASSUME NEW c \in Conns, InsertCreator(c) PROVE RowsStay
  BY <1>4 DEF InsertCreator, WithRow
<1>5. ASSUME NEW c \in Conns, NEW id \in Values, NEW friend \in Values,
             AddFriend(c, id, friend)
      PROVE  RowsStay
  BY <1>5 DEF AddFriend
<1>6. ASSUME UNCHANGED tables PROVE RowsStay
  BY <1>6 DEF tables
<1>. QED
  BY <1>1, <1>2, <1>3, <1>4, <1>5, <1>6
     DEF Next, vars, RegReplies, Login, QueryFriends, QueryGroups, QueryMembers,
         LoginReplies, Release, GroupChat, SendToMember, FanOutEnds, Crash

-----------------------------------------------------------------------------
(* Registration *)

\* The handler that is about to answer a registration has the id of its row.
ReplyIsOwn ==
    \A c \in Conns : At(c, "reply") =>
        local[c].id \in UserIds /\ userTable[local[c].id] = local[c].name

RegInv == RegTellsOwn /\ ReplyIsOwn

LEMMA RegStep == Types /\ RegInv /\ [Next]_vars => RegInv'
<1>. SUFFICES ASSUME Types, RegInv, [Next]_vars PROVE RegInv'
  OBVIOUS
<1>. DOMAIN at = Conns /\ DOMAIN local = Conns /\ userTable \in Seq(Names)
  BY DEF Types, HandlerTypes, TableTypes
<1>1. RowsStay
  BY RowsAreKept
<1>2. ASSUME NEW c \in Conns, NEW name \in Names, Reg(c, name) PROVE RegInv'
  <2>1. Len(userTable) + 1 \in UserIds' /\ userTable'[Len(userTable) + 1] = name
    BY <1>2 DEF Reg, UserIds
  <2>2. RegTellsOwn'
    BY <1>1, <1>2 DEF Reg, history, RegInv, RegTellsOwn, RowsStay, Grows
  <2>3. \A d \in Conns : d # c => at'[d] = at[d] /\ local'[d] = local[d]
    BY <1>2 DEF Reg, Goes, Ends
  <2>4. at'[c] = "reply" => local'[c] = [name |-> name, id |-> Len(userTable) + 1]
    BY <1>2 DEF Reg, Goes, Ends
  <2>5. ReplyIsOwn'
    BY <1>1, <2>1, <2>3, <2>4 DEF RegInv, ReplyIsOwn, At, RowsStay, Grows
  <2>. QED
    BY <2>2, <2>5 DEF RegInv
<1>3. ASSUME NEW c \in Conns, RegReplies(c) PROVE RegInv'
  BY <1>1, <1>3
     DEF RegReplies, InsertId, RegInv, RegTellsOwn, ReplyIsOwn, Goes, Ends, At,
         RowsStay, Grows
<1>4. ASSUME told' = told,
             \A c \in Conns : At(c, "reply")' => At(c, "reply") /\ local'[c] = local[c]
      PROVE  RegInv'
  BY <1>1, <1>4 DEF RegInv, RegTellsOwn, ReplyIsOwn, RowsStay, Grows
<1>5. ASSUME NEW c \in Conns,
             \/ \E id \in Values : Login(c, id)
             \/ QueryFriends(c) \/ QueryGroups(c)
             \/ \E g \in GroupIds : QueryMembers(c, g)
             \/ LoginReplies(c) \/ Release(c)
      PROVE  RegInv'
  BY <1>4, <1>5
     DEF Login, QueryFriends, QueryGroups, QueryMembers, LoginReplies, Release,
         history, Goes, Ends, At
<1>6. ASSUME NEW c \in Conns,
             \/ \E id, friend \in Values : AddFriend(c, id, friend)
             \/ \E id, group \in Values : AddGroup(c, id, group)
             \/ \E id \in Values : CreateGroup(c, id)
             \/ InsertCreator(c)
      PROVE  RegInv'
  BY <1>4, <1>6
     DEF AddFriend, AddGroup, CreateGroup, InsertCreator, history, Goes, Ends, At
<1>7. ASSUME NEW c \in Conns,
             \/ \E id, group \in Values : GroupChat(c, id, group)
             \/ \E u \in {r.user : r \in groupUser} : SendToMember(c, u)
             \/ FanOutEnds(c) \/ Crash(c)
      PROVE  RegInv'
  BY <1>4, <1>7
     DEF GroupChat, SendToMember, FanOutEnds, Crash, history, Goes, Ends, At
<1>8. CASE UNCHANGED vars
  BY <1>4, <1>8 DEF vars, history, At
<1>. QED
  BY <1>2, <1>3, <1>5, <1>6, <1>7, <1>8 DEF Next

\* Nobody is told the id of somebody else's account, whatever interleaves.
THEOREM RegisteredOwn == Spec => []RegTellsOwn
<1>1. Init => RegInv
  BY DEF Init, RegInv, RegTellsOwn, ReplyIsOwn, At
<1>2. RegInv => RegTellsOwn
  BY DEF RegInv
<1>. QED
  BY <1>1, <1>2, RegStep, Typed, PTL DEF Spec

-----------------------------------------------------------------------------
(* Members *)

\* INSERT IGNORE adds the row it is given or none.
LEMMA WithRowAdds ==
    ASSUME NEW g, NEW u, NEW role, NEW r \in WithRow(g, u, role)
    PROVE  r \in groupUser \/ r = [group |-> g, user |-> u, role |-> role]
BY DEF WithRow

\* A connection is bound to a row of user or to the id that means "no row".
BoundIsAccount == \A c \in Conns : bound[c] \in UserIds \cup {NoRowId, None}

MemberInv == BoundIsAccount /\ MembersAreAccounts

LEMMA MemberStep == Types /\ MemberInv /\ [Next]_vars => MemberInv'
<1>. SUFFICES ASSUME Types, MemberInv, [Next]_vars PROVE MemberInv'
  OBVIOUS
<1>. UserIds \subseteq UserIds'
  BY RowsAreKept DEF RowsStay, Grows
<1>. DOMAIN bound = Conns /\ TableTypes
  BY DEF Types, TableTypes
<1>1. ASSUME bound' = bound, groupUser' = groupUser PROVE MemberInv'
  BY <1>1 DEF MemberInv, BoundIsAccount, MembersAreAccounts
<1>2. ASSUME NEW c \in Conns, NEW id \in Values, Login(c, id) PROVE MemberInv'
  BY <1>2 DEF Login, tables, MemberInv, BoundIsAccount, MembersAreAccounts
<1>3. ASSUME NEW c \in Conns, Release(c) \/ Crash(c) PROVE MemberInv'
  BY <1>3 DEF Release, Crash, tables, MemberInv, BoundIsAccount, MembersAreAccounts
<1>4. ASSUME NEW c \in Conns, bound' = bound, bound[c] # None, NEW g, NEW role,
             groupUser' = WithRow(g, bound[c], role)
      PROVE  MemberInv'
  <2>1. bound[c] \in UserIds \cup {NoRowId}
    BY <1>4 DEF MemberInv, BoundIsAccount
  <2>. QED
    BY <1>4, <2>1, WithRowAdds DEF MemberInv, BoundIsAccount, MembersAreAccounts
<1>5. ASSUME NEW c \in Conns, NEW id \in Values, NEW group \in Values,
             AddGroup(c, id, group)
      PROVE  MemberInv'
  <2>1. bound[c] # None /\ bound[c] = IntOf(id)
    BY <1>5, BoundIsNumber DEF AddGroup, Begins
  <2>. QED
    BY <1>4, <1>5, <2>1 DEF AddGroup
<1>6. ASSUME NEW c \in Conns, InsertCreator(c) PROVE MemberInv'
  <2>1. bound[c] # None
    BY <1>6 DEF InsertCreator, Types, HandlerTypes, At
  <2>. QED
    BY <1>1, <1>4, <1>6, <2>1 DEF InsertCreator
<1>. QED
  BY <1>1, <1>2, <1>3, <1>5, <1>6
     DEF Next, vars, tables, Reg, RegReplies, QueryFriends, QueryGroups,
         QueryMembers, LoginReplies, AddFriend, CreateGroup, GroupChat,
         SendToMember, FanOutEnds

LEMMA MembersHold == Spec => []MemberInv
<1>1. Init => MemberInv
  BY DEF Init, MemberInv, BoundIsAccount, MembersAreAccounts
<1>. QED
  BY <1>1, MemberStep, Typed, PTL DEF Spec

\* Only accounts, and the id that means "no row", ever become members.
THEOREM OnlyAccounts == Spec => []MembersAreAccounts
<1>1. MemberInv => MembersAreAccounts
  BY DEF MemberInv
<1>. QED
  BY <1>1, MembersHold, PTL

-----------------------------------------------------------------------------
(* Requests *)

LEMMA AskedStep == Types /\ RowsWereAskedFor /\ [Next]_vars => RowsWereAskedFor'
<1>. SUFFICES ASSUME Types, RowsWereAskedFor, [Next]_vars PROVE RowsWereAskedFor'
  OBVIOUS
<1>. TableTypes
  BY DEF Types
<1>1. ASSUME UNCHANGED <<friendTable, groupUser, asked>> PROVE RowsWereAskedFor'
  BY <1>1 DEF RowsWereAskedFor
<1>2. ASSUME NEW c \in Conns, NEW id \in Values, NEW friend \in Values,
             AddFriend(c, id, friend)
      PROVE  RowsWereAskedFor'
  <2>1. IntOf(friend) >= 0 => IntOf(friend) = friend.num
    BY <1>2, GetIntFaithful, DirectoryAssumption DEF AddFriend, Begins
  <2>2. bound[c] = IntOf(id)
    BY <1>2, BoundIsNumber DEF AddFriend, Begins
  <2>. QED
    BY <1>2, <2>1, <2>2 DEF AddFriend, Remember, RowsWereAskedFor
<1>3. ASSUME NEW c \in Conns, NEW id \in Values, NEW group \in Values,
             AddGroup(c, id, group)
      PROVE  RowsWereAskedFor'
  <2>1. IntOf(group) >= 0 => IntOf(group) = group.num
    BY <1>3, GetIntFaithful, DirectoryAssumption DEF AddGroup, Begins
  <2>2. bound[c] = IntOf(id)
    BY <1>3, BoundIsNumber DEF AddGroup, Begins
  <2>. QED
    BY <1>3, <2>1, <2>2, WithRowAdds DEF AddGroup, Remember, RowsWereAskedFor
<1>4. ASSUME NEW c \in Conns, InsertCreator(c) PROVE RowsWereAskedFor'
  BY <1>4, WithRowAdds DEF InsertCreator, RowsWereAskedFor
<1>. QED
  BY <1>1, <1>2, <1>3, <1>4
     DEF Next, vars, tables, history, Reg, RegReplies, Login, QueryFriends,
         QueryGroups, QueryMembers, LoginReplies, Release, CreateGroup, GroupChat,
         SendToMember, FanOutEnds, Crash

\* No conversion of a number makes a row that nobody asked for.
THEOREM AskedFor == Spec => []RowsWereAskedFor
<1>1. Init => RowsWereAskedFor
  BY DEF Init, RowsWereAskedFor
<1>. QED
  BY <1>1, AskedStep, Typed, PTL DEF Spec

-----------------------------------------------------------------------------
(* The creation of a group *)

\* Between the two statements of createGroup the handler knows the group, and
\* the group its creator.
CreatorKnown ==
    \A c \in Conns : At(c, "addCreator") =>
        local[c].id \in GroupIds /\ groupTable[local[c].id] = bound[c]

\* Whoever is a member before the creator is has been noted as early.
EarlyAreNoted ==
    \A r \in groupUser :
        r.group \notin GroupIds \/ BeingCreated(r.group) =>
            r.role = "creator" \/ <<r.group, r.user>> \in early

CreationInv == GroupHasItsCreator /\ CreatorKnown /\ EarlyAreNoted

LEMMA CreationStep == Types /\ CreationInv /\ [Next]_vars => CreationInv'
<1>. SUFFICES ASSUME Types, CreationInv, [Next]_vars PROVE CreationInv'
  OBVIOUS
<1>. TableTypes /\ DOMAIN at = Conns /\ DOMAIN local = Conns
  BY DEF Types, HandlerTypes
<1>1. RowsStay
  BY RowsAreKept
<1>2. ASSUME UNCHANGED <<groupTable, groupUser, early, cutShort>>,
             \A c \in Conns : At(c, "addCreator")' <=> At(c, "addCreator"),
             \A c \in Conns : At(c, "addCreator") =>
                 bound'[c] = bound[c] /\ local'[c] = local[c]
      PROVE  CreationInv'
  <2>1. \A g : BeingCreated(g)' <=> BeingCreated(g)
    BY <1>2 DEF BeingCreated
  <2>. QED
    BY <1>2, <2>1
       DEF CreationInv, GroupHasItsCreator, CreatorKnown, EarlyAreNoted, GroupIds
<1>3. ASSUME NEW c \in Conns, NEW id \in Values, CreateGroup(c, id)
      PROVE  CreationInv'
  <2>0. PICK g \in Nat : g = Len(groupTable) + 1
    BY DEF TableTypes
  <2>1. /\ g \notin GroupIds /\ GroupIds' = GroupIds \cup {g}
        /\ groupTable'[g] = bound[c] /\ bound' = bound
        /\ UNCHANGED <<groupUser, early>>
    BY <1>3, <2>0, BoundIsNumber DEF CreateGroup, GroupIds, TableTypes
  <2>2. \A d \in Conns : d # c => at'[d] = at[d] /\ local'[d] = local[d]
    BY <1>3 DEF CreateGroup, Goes, Ends
  <2>3. /\ at[c] = "idle" /\ cutShort \subseteq cutShort'
        /\ \/ at'[c] = "addCreator" /\ local'[c] = [id |-> g]
           \/ at'[c] = "idle" /\ g \in cutShort'
    BY <1>3, <2>0 DEF CreateGroup, Serves, Goes, Ends, At
  <2>4. \A h : h # g => (BeingCreated(h)' <=> BeingCreated(h))
    BY <2>2, <2>3 DEF BeingCreated, At
  <2>5. g \in cutShort' \/ BeingCreated(g)'
    <3>1. CASE g \in cutShort'
      BY <3>1
    <3>2. CASE at'[c] = "addCreator" /\ local'[c] = [id |-> g]
      <4>1. local'[c].id = g
        BY <3>2
      <4>2. \E d \in Conns : at'[d] = "addCreator" /\ local'[d].id = g
        BY <3>2, <4>1
      <4>. QED
        BY <4>2 DEF BeingCreated, At
    <3>3. \/ at'[c] = "addCreator" /\ local'[c] = [id |-> g]
          \/ g \in cutShort'
      BY <2>3
    <3>. QED
      BY <3>1, <3>2, <3>3
  <2>. \A h \in GroupIds : h # g /\ groupTable'[h] = groupTable[h]
    BY <1>1, <2>1 DEF RowsStay
  <2>6. GroupHasItsCreator'
    <3>1. ASSUME NEW r \in groupUser, r.role = "creator"
          PROVE  r.group \in GroupIds' /\ r.user = groupTable'[r.group]
      BY <2>1, <3>1 DEF CreationInv, GroupHasItsCreator
    <3>2. ASSUME NEW h \in GroupIds, h \notin cutShort'
          PROVE  \/ BeingCreated(h)'
                 \/ \E r \in groupUser :
                       /\ r.group = h /\ r.user = groupTable'[h]
                       /\ r.role = "creator" \/ <<h, r.user>> \in early
      BY <2>3, <2>4, <3>2 DEF CreationInv, GroupHasItsCreator
    <3>3. ASSUME NEW h \in GroupIds', h \notin cutShort'
          PROVE  \/ BeingCreated(h)'
                 \/ \E r \in groupUser' :
                       /\ r.group = h /\ r.user = groupTable'[h]
                       /\ r.role = "creator" \/ <<h, r.user>> \in early'
      <4>1. CASE h = g
        BY <2>5, <3>3, <4>1
      <4>2. CASE h \in GroupIds
        BY <2>1, <3>2, <3>3, <4>2
      <4>. QED
        BY <2>1, <3>3, <4>1, <4>2
    <3>4. \A r \in groupUser' : r.role = "creator" =>
              r.group \in GroupIds' /\ r.user = groupTable'[r.group]
      BY <2>1, <3>1
    <3>. QED
      <4>1. \A h \in (GroupIds \ cutShort)' :
                 \/ BeingCreated(h)'
                 \/ \E r \in groupUser' :
                       /\ r.group = h /\ r.user = groupTable'[h]
                       /\ r.role = "creator" \/ <<h, r.user>> \in early'
        BY <3>3
      <4>. QED
        BY <3>4, <4>1 DEF GroupHasItsCreator
  <2>7. CreatorKnown'
    <3>1. ASSUME NEW d \in Conns, d # c, at'[d] = "addCreator"
          PROVE  local'[d].id \in GroupIds' /\ groupTable'[local'[d].id] = bound'[d]
      BY <2>1, <2>2, <3>1 DEF CreationInv, CreatorKnown, At
    <3>2. at'[c] = "addCreator"
            => local'[c].id \in GroupIds' /\ groupTable'[local'[c].id] = bound'[c]
      BY <2>1, <2>3
    <3>. QED
      BY <3>1, <3>2 DEF CreatorKnown, At
  <2>8. EarlyAreNoted'
    BY <2>1, <2>4 DEF CreationInv, EarlyAreNoted
  <2>. QED
    BY <2>6, <2>7, <2>8 DEF CreationInv
<1>4. ASSUME NEW c \in Conns, NEW id \in Values, NEW group \in Values,
             AddGroup(c, id, group)
      PROVE  CreationInv'
  <2>. DEFINE g == IntOf(group)
  <2>1. /\ groupUser' = WithRow(g, IntOf(id), "normal")
        /\ UNCHANGED <<at, local, bound, groupTable, cutShort>>
        /\ early \subseteq early'
        /\ g \notin GroupIds \/ BeingCreated(g) => <<g, IntOf(id)>> \in early'
    BY <1>4 DEF AddGroup
  <2>2. \A h : BeingCreated(h)' <=> BeingCreated(h)
    BY <2>1 DEF BeingCreated, At
  <2>3. /\ groupUser \subseteq groupUser'
        /\ \A r \in groupUser' : \/ r \in groupUser
                                 \/ r = [group |-> g, user |-> IntOf(id), role |-> "normal"]
    BY <1>1, <2>1, WithRowAdds DEF RowsStay
  <2>. HIDE DEF g
  <2>4. GroupHasItsCreator'
    BY <2>1, <2>2, <2>3 DEF CreationInv, GroupHasItsCreator, GroupIds
  <2>5. CreatorKnown'
    BY <2>1 DEF CreationInv, CreatorKnown, GroupIds, At
  <2>6. EarlyAreNoted'
    BY <2>1, <2>2, <2>3 DEF CreationInv, EarlyAreNoted, GroupIds
  <2>. QED
    BY <2>4, <2>5, <2>6 DEF CreationInv
<1>5. ASSUME NEW c \in Conns, InsertCreator(c) \/ Crash(c), At(c, "addCreator")
      PROVE  CreationInv'
  <2>. DEFINE g == local[c].id
  <2>1. /\ UNCHANGED <<groupTable, early>> /\ at'[c] = "idle"
        /\ \A d \in Conns : d # c =>
              at'[d] = at[d] /\ local'[d] = local[d] /\ bound'[d] = bound[d]
    BY <1>5 DEF InsertCreator, Crash, tables, Ends, Goes, TableTypes
  <2>2. \/ /\ groupUser' = WithRow(g, bound[c], "creator")
           /\ cutShort' = cutShort
        \/ groupUser' = groupUser /\ cutShort' = cutShort \cup {g}
    BY <1>5 DEF InsertCreator, InsertId, Crash, tables
  <2>3. g \in GroupIds /\ groupTable[g] = bound[c] /\ BeingCreated(g)
    BY <1>5 DEF CreationInv, CreatorKnown, BeingCreated
  <2>. HIDE DEF g
  <2>4. \A h : BeingCreated(h)' => BeingCreated(h)
    BY <2>1 DEF BeingCreated, At
  <2>5. \A h : BeingCreated(h) => BeingCreated(h)' \/ h = g
    BY <2>1 DEF BeingCreated, At, g
  <2>6. /\ groupUser \subseteq groupUser'
        /\ \A r \in groupUser' : \/ r \in groupUser
                                 \/ r = [group |-> g, user |-> bound[c], role |-> "creator"]
    BY <1>1, <2>2, WithRowAdds DEF RowsStay
  <2>7. \/ g \in cutShort'
        \/ \E r \in groupUser' :
              /\ r.group = g /\ r.user = bound[c]
              /\ r.role = "creator" \/ <<g, r.user>> \in early
    <3>1. CASE \E r \in groupUser : r.group = g /\ r.user = bound[c]
      BY <2>3, <2>6, <3>1 DEF CreationInv, EarlyAreNoted
    <3>2. CASE ~\E r \in groupUser : r.group = g /\ r.user = bound[c]
      <4>. DEFINE row == [group |-> g, user |-> bound[c], role |-> "creator"]
      <4>1. row.group = g /\ row.user = bound[c] /\ row.role = "creator"
        OBVIOUS
      <4>. HIDE DEF row
      <4>2. g \in cutShort' \/ row \in groupUser'
        BY <2>2, <3>2 DEF WithRow, row
      <4>. QED
        BY <4>1, <4>2
    <3>. QED
      BY <3>1, <3>2
  <2>8. GroupHasItsCreator'
    BY SMTT(30), <2>1, <2>2, <2>3, <2>5, <2>6, <2>7
       DEF CreationInv, GroupHasItsCreator, GroupIds
  <2>9. CreatorKnown'
    BY <2>1 DEF CreationInv, CreatorKnown, GroupIds, At
  <2>10. EarlyAreNoted'
    BY <2>1, <2>4, <2>6 DEF CreationInv, EarlyAreNoted, GroupIds
  <2>. QED
    BY <2>8, <2>9, <2>10 DEF CreationInv
<1>6. ASSUME NEW c \in Conns, Crash(c), ~At(c, "addCreator") PROVE CreationInv'
  BY <1>2, <1>6 DEF Crash, tables, Ends, Goes, At, TableTypes
<1>7. ASSUME NEW c \in Conns,
             \/ \E name \in Names : Reg(c, name)
             \/ RegReplies(c)
             \/ \E id \in Values : Login(c, id)
             \/ QueryFriends(c) \/ QueryGroups(c)
      PROVE  CreationInv'
  BY <1>2, <1>7
     DEF Reg, RegReplies, Login, QueryFriends, QueryGroups, tables, history, Serves,
         Goes, Ends, At, TableTypes
<1>8. ASSUME NEW c \in Conns,
             \/ \E g \in GroupIds : QueryMembers(c, g)
             \/ LoginReplies(c) \/ Release(c)
             \/ \E id, friend \in Values : AddFriend(c, id, friend)
      PROVE  CreationInv'
  BY <1>2, <1>8
     DEF QueryMembers, LoginReplies, Release, AddFriend, tables, history,
         Goes, Ends, At, TableTypes
<1>9. ASSUME NEW c \in Conns,
             \/ \E id, group \in Values : GroupChat(c, id, group)
             \/ \E u \in {r.user : r \in groupUser} : SendToMember(c, u)
             \/ FanOutEnds(c)
      PROVE  CreationInv'
  BY <1>2, <1>9
     DEF GroupChat, Begins, Serves, SendToMember, FanOutEnds, tables, history,
         Goes, Ends, At
<1>10. CASE UNCHANGED vars
  BY <1>2, <1>10 DEF vars, tables, history, At
<1>. QED
  BY <1>3, <1>4, <1>5, <1>6, <1>7, <1>8, <1>9, <1>10 DEF Next, InsertCreator

\* However the two statements of createGroup interleave with those of others,
\* fail or are cut off by a crash, a group has its creator or is known to have
\* been cut short.
THEOREM CreatorIsMember == Spec => []GroupHasItsCreator
<1>1. Init => CreationInv
  BY DEF Init, CreationInv, GroupHasItsCreator, CreatorKnown, EarlyAreNoted,
         GroupIds, At
<1>2. CreationInv => GroupHasItsCreator
  BY DEF CreationInv
<1>. QED
  BY <1>1, <1>2, CreationStep, Typed, PTL DEF Spec

-----------------------------------------------------------------------------
(* What handlers have read *)

\* A step leaves the handler of a connection where it is, is one of those that
\* read from groupuser, or takes it to a place where it has read nothing.
LEMMA OwnStep ==
    ASSUME Types, [Next]_vars, NEW d \in Conns
    PROVE  \/ at'[d] = at[d] /\ local'[d] = local[d] /\ bound'[d] = bound[d]
           \/ \E id \in Values : Login(d, id)
           \/ QueryFriends(d) \/ QueryGroups(d)
           \/ \E g \in GroupIds : QueryMembers(d, g)
           \/ \E id, group \in Values : GroupChat(d, id, group)
           \/ \E u \in {r.user : r \in groupUser} : SendToMember(d, u)
           \/ at'[d] \notin {"friends", "groups", "members", "fanOut"}
<1>. DOMAIN at = Conns /\ DOMAIN local = Conns /\ DOMAIN bound = Conns
  BY DEF Types, HandlerTypes, TableTypes
<1>1. ASSUME NEW c \in Conns,
             \/ \E name \in Names : Reg(c, name)
             \/ RegReplies(c) \/ LoginReplies(c)
             \/ \E id \in Values : CreateGroup(c, id)
             \/ InsertCreator(c) \/ FanOutEnds(c) \/ Crash(c)
      PROVE  \/ at'[d] = at[d] /\ local'[d] = local[d] /\ bound'[d] = bound[d]
             \/ at'[d] \notin {"friends", "groups", "members", "fanOut"}
  BY <1>1 DEF Reg, RegReplies, LoginReplies, CreateGroup, InsertCreator, FanOutEnds,
              Crash, Goes, Ends
<1>2. ASSUME NEW c \in Conns, Release(c)
      PROVE  \/ at'[d] = at[d] /\ local'[d] = local[d] /\ bound'[d] = bound[d]
             \/ at'[d] \notin {"friends", "groups", "members", "fanOut"}
  BY <1>2 DEF Release, At
<1>3. ASSUME NEW c \in Conns, c # d,
             \/ \E id \in Values : Login(c, id)
             \/ QueryFriends(c) \/ QueryGroups(c)
             \/ \E g \in GroupIds : QueryMembers(c, g)
             \/ \E id, group \in Values : GroupChat(c, id, group)
             \/ \E u \in {r.user : r \in groupUser} : SendToMember(c, u)
      PROVE  at'[d] = at[d] /\ local'[d] = local[d] /\ bound'[d] = bound[d]
  BY <1>3 DEF Login, QueryFriends, QueryGroups, QueryMembers, GroupChat,
              SendToMember, Goes
<1>4. ASSUME NEW c \in Conns,
             \/ \E id, friend \in Values : AddFriend(c, id, friend)
             \/ \E id, group \in Values : AddGroup(c, id, group)
      PROVE  at'[d] = at[d] /\ local'[d] = local[d] /\ bound'[d] = bound[d]
  BY <1>4 DEF AddFriend, AddGroup
<1>5. CASE UNCHANGED vars
  BY <1>5 DEF vars
<1>. QED
  BY <1>1, <1>2, <1>3, <1>4, <1>5 DEF Next

\* Somebody is a member of a group who has a row there.
IsMember(u, g) == \E r \in groupUser : r.group = g /\ r.user = u

LEMMA AudienceStep ==
    Types /\ AudienceAreMembers /\ [Next]_vars => AudienceAreMembers'
<1>. SUFFICES ASSUME Types, AudienceAreMembers, [Next]_vars,
                     NEW d \in Conns, at'[d] = "fanOut", NEW u \in local'[d].to
              PROVE  /\ u # bound'[d]
                     /\ \A v \in {u, bound'[d]} : \E r \in groupUser' :
                           r.group = local'[d].group /\ r.user = v
  BY DEF AudienceAreMembers, At
<1>. DOMAIN at = Conns /\ DOMAIN local = Conns
  BY DEF Types, HandlerTypes
<1>. groupUser \subseteq groupUser'
  BY RowsAreKept DEF RowsStay
<1>1. ASSUME at[d] = "fanOut", bound'[d] = bound[d], u \in local[d].to,
             local'[d].group = local[d].group
      PROVE  /\ u # bound'[d]
             /\ \A v \in {u, bound'[d]} : \E r \in groupUser' :
                   r.group = local'[d].group /\ r.user = v
  <2>1. /\ u # bound[d]
        /\ \A v \in {u, bound[d]} : \E r \in groupUser :
              r.group = local[d].group /\ r.user = v
    BY <1>1 DEF AudienceAreMembers, At
  <2>. QED
    BY <1>1, <2>1
<1>2. CASE at'[d] = at[d] /\ local'[d] = local[d] /\ bound'[d] = bound[d]
  BY <1>1, <1>2
<1>3. ASSUME NEW id \in Values, NEW group \in Values, GroupChat(d, id, group)
      PROVE  /\ u # bound'[d]
             /\ \A v \in {u, bound'[d]} : \E r \in groupUser' :
                   r.group = local'[d].group /\ r.user = v
  <2>1. /\ bound' = bound
        /\ local'[d].group = IntOf(group)
        /\ local'[d].to = Audience(bound[d], IntOf(group))
    BY <1>3 DEF GroupChat, Goes
  <2>2. /\ IsMember(bound[d], IntOf(group))
        /\ IsMember(u, IntOf(group)) /\ u # bound[d]
    BY <2>1 DEF Audience, IsMember
  <2>. QED
    BY <2>1, <2>2 DEF IsMember
<1>4. ASSUME NEW v \in {r.user : r \in groupUser}, SendToMember(d, v)
      PROVE  /\ at[d] = "fanOut" /\ bound'[d] = bound[d] /\ u \in local[d].to
             /\ local'[d].group = local[d].group
  <2>1. /\ at[d] = "fanOut" /\ bound' = bound
        /\ local'[d] = [local[d] EXCEPT !.to = @ \ {v}]
    BY <1>4 DEF SendToMember, Goes, At
  <2>2. local[d] \in [group : Int, to : SUBSET Int]
    BY <2>1 DEF Types, HandlerTypes, LocalOK, At
  <2>. QED
    BY <2>1, <2>2
<1>5. at'[d] # "fanOut" \/ ~(\/ \E id \in Values : Login(d, id)
                             \/ QueryFriends(d) \/ QueryGroups(d)
                             \/ \E g \in GroupIds : QueryMembers(d, g))
  BY DEF Login, QueryFriends, QueryGroups, QueryMembers, Goes
<1>. QED
  BY <1>1, <1>2, <1>3, <1>4, <1>5, OwnStep

\* A group message goes to other members only, and from a member, whoever joins
\* meanwhile: the list is read once, and no row of groupuser goes away.
THEOREM AudienceHolds == Spec => []AudienceAreMembers
<1>1. Init => AudienceAreMembers
  BY DEF Init, AudienceAreMembers, At
<1>. QED
  BY <1>1, AudienceStep, Typed, PTL DEF Spec

\* A login that has not asked for its groups knows of none.  Once it has, the
\* account is a member of each, and its own row is in every list it has read.
OwnInv ==
    \A c \in Conns :
        /\ At(c, "friends") \/ At(c, "groups") => DOMAIN local[c].groups = {}
        /\ At(c, "members") => \A g \in DOMAIN local[c].groups :
              IsMember(bound[c], g)
        /\ At(c, "members") /\ bound[c] \in UserIds
              => \A g \in DOMAIN local[c].groups :
                    local[c].groups[g] \notin {None, {}}
                       => \E m \in local[c].groups[g] : m.user = bound[c]

LEMMA OwnInvStep ==
    Types /\ MemberInv /\ OwnInv /\ [Next]_vars => OwnInv'
<1>. SUFFICES ASSUME Types, MemberInv, OwnInv, [Next]_vars, NEW d \in Conns
              PROVE  /\ at'[d] \in {"friends", "groups"}
                           => DOMAIN local'[d].groups = {}
                     /\ at'[d] = "members" => \A g \in DOMAIN local'[d].groups :
                           \E r \in groupUser' : r.group = g /\ r.user = bound'[d]
                     /\ at'[d] = "members" /\ bound'[d] \in UserIds'
                           => \A g \in DOMAIN local'[d].groups :
                                 local'[d].groups[g] \notin {None, {}}
                                    => \E m \in local'[d].groups[g] : m.user = bound'[d]
  BY DEF OwnInv, At, IsMember
<1>. DOMAIN at = Conns /\ DOMAIN local = Conns
  BY DEF Types, HandlerTypes
<1>. groupUser \subseteq groupUser'
  BY RowsAreKept DEF RowsStay
<1>. DEFINE Known ==
              /\ at[d] \in {"friends", "groups"} => DOMAIN local[d].groups = {}
              /\ at[d] = "members" => \A g \in DOMAIN local[d].groups :
                    \E r \in groupUser : r.group = g /\ r.user = bound[d]
              /\ at[d] = "members" /\ bound[d] \in UserIds
                    => \A g \in DOMAIN local[d].groups :
                          local[d].groups[g] \notin {None, {}}
                             => \E m \in local[d].groups[g] : m.user = bound[d]
<1>1. Known
  BY DEF OwnInv, At, IsMember
<1>2. bound[d] \in UserIds' => bound[d] \in UserIds
  <2>1. Types'
    BY TypesStep
  <2>2. UserIds' \subseteq Nat /\ NoRowId \notin Nat /\ None \notin Nat
    BY <2>1, DirectoryAssumption DEF NoRowId, UserIds, Types, TableTypes
  <2>. QED
    BY <2>2 DEF MemberInv, BoundIsAccount
<1>3. CASE at'[d] = at[d] /\ local'[d] = local[d] /\ bound'[d] = bound[d]
  BY <1>1, <1>2, <1>3
<1>4. ASSUME NEW id \in Values, Login(d, id)
      PROVE  at'[d] = "friends" /\ DOMAIN local'[d].groups = {}
  BY <1>4 DEF Login, Goes
<1>5. ASSUME QueryFriends(d) PROVE at'[d] = "groups" /\ DOMAIN local'[d].groups = {}
  <2>1. at[d] = "friends" /\ DOMAIN local[d] = {"friends", "groups"}
    BY <1>5 DEF QueryFriends, Types, HandlerTypes, LocalOK, At
  <2>2. /\ at'[d] = "groups"
        /\ \/ local'[d] = [local[d] EXCEPT !.friends = FriendsOf(bound[d])]
           \/ local'[d] = local[d]
    BY <1>5 DEF QueryFriends, Goes
  <2>3. local'[d].groups = local[d].groups
    BY <2>1, <2>2
  <2>. QED
    BY <1>1, <2>1, <2>2, <2>3
<1>6. ASSUME QueryGroups(d)
      PROVE  /\ at'[d] = "members" /\ bound' = bound
             /\ \A g \in DOMAIN local'[d].groups :
                   /\ \E r \in groupUser : r.group = g /\ r.user = bound[d]
                   /\ local'[d].groups[g] = None
  <2>1. at[d] = "groups" /\ DOMAIN local[d] = {"friends", "groups"}
    BY <1>6 DEF QueryGroups, Types, HandlerTypes, LocalOK, At
  <2>2. /\ at'[d] = "members" /\ bound' = bound
        /\ \/ local'[d] = [local[d] EXCEPT !.groups = [g \in GroupsOf(bound[d]) |-> None]]
           \/ local'[d] = local[d]
    BY <1>6 DEF QueryGroups, Goes
  <2>3. \/ local'[d].groups = [g \in GroupsOf(bound[d]) |-> None]
        \/ local'[d].groups = local[d].groups
    BY <2>1, <2>2
  <2>. QED
    BY <1>1, <2>1, <2>2, <2>3 DEF GroupsOf
<1>7. ASSUME NEW g \in GroupIds, QueryMembers(d, g)
      PROVE  /\ at[d] = "members" /\ at'[d] = "members" /\ bound' = bound
             /\ DOMAIN local'[d].groups = DOMAIN local[d].groups
             /\ g \in DOMAIN local[d].groups
             /\ local'[d].groups[g] \in {Members(g), {}}
             /\ \A h \in DOMAIN local[d].groups :
                   h # g => local'[d].groups[h] = local[d].groups[h]
  <2>1. at[d] = "members" /\ DOMAIN local[d] = {"friends", "groups"}
    BY <1>7 DEF QueryMembers, Types, HandlerTypes, LocalOK, At
  <2>2. PICK found \in {Members(g), {}} :
           local'[d] = [local[d] EXCEPT !.groups[g] = found]
    BY <1>7 DEF QueryMembers, Goes
  <2>3. at'[d] = "members" /\ bound' = bound /\ g \in DOMAIN local[d].groups
    BY <1>7 DEF QueryMembers, Goes
  <2>4. local'[d].groups = [local[d].groups EXCEPT ![g] = found]
    BY <2>1, <2>2
  <2>. QED
    BY <2>1, <2>2, <2>3, <2>4
<1>8. ASSUME NEW g \in GroupIds, QueryMembers(d, g), bound[d] \in UserIds,
             local'[d].groups[g] # {}
      PROVE  \E m \in local'[d].groups[g] : m.user = bound[d]
  <2>1. PICK r \in groupUser : r.group = g /\ r.user = bound[d]
    BY <1>1, <1>7, <1>8
  <2>2. [user |-> r.user, role |-> r.role] \in Members(g)
    BY <1>8, <2>1 DEF Members
  <2>. QED
    BY <1>7, <1>8, <2>1, <2>2
<1>9. ASSUME NEW g \in GroupIds, QueryMembers(d, g)
      PROVE  /\ \A h \in DOMAIN local'[d].groups :
                   \E r \in groupUser : r.group = h /\ r.user = bound'[d]
             /\ bound[d] \in UserIds
                  => \A h \in DOMAIN local'[d].groups :
                        local'[d].groups[h] \notin {None, {}}
                           => \E m \in local'[d].groups[h] : m.user = bound'[d]
  BY <1>1, <1>7, <1>8, <1>9
<1>10. ASSUME \/ \E id, group \in Values : GroupChat(d, id, group)
              \/ \E u \in {r.user : r \in groupUser} : SendToMember(d, u)
       PROVE  at'[d] = "fanOut"
  BY <1>10 DEF GroupChat, SendToMember, Goes
<1>. QED
  BY <1>2, <1>3, <1>4, <1>5, <1>6, <1>7, <1>9, <1>10, OwnStep

\* The groups a login shows show the account itself, although rows are added
\* between the queries, unless a query failed.
THEOREM OwnGroups == Spec => []OwnGroupsShowMe
<1>1. Init => OwnInv
  BY DEF Init, OwnInv, At
<1>2. OwnInv => OwnGroupsShowMe
  BY DEF OwnInv, OwnGroupsShowMe
<1>. QED
  BY <1>1, <1>2, OwnInvStep, Typed, MembersHold, PTL DEF Spec
=============================================================================
