----------------------------- MODULE Directory -----------------------------
(***************************************************************************)
(* Accounts, friends and groups: the handlers reg, addFriend, createGroup, *)
(* addGroup, the group lookup of groupChat and the lists of login, on the  *)
(* MySQL tables user, friend, allgroup and groupuser.                      *)
(*                                                                         *)
(* Every handler sends each statement over a MySQL connection of its own,  *)
(* so statements of different handlers interleave and mysql_insert_id is   *)
(* that of the own INSERT.  One action stands for one statement and what   *)
(* the handler does before it, which no other handler writes; at[c] is the *)
(* place of the handler of connection c between two statements.  A request *)
(* that is rejected, or whose first statement fails, changes no state but  *)
(* its answer and is not a step.                                           *)
(*                                                                         *)
(* Who is bound to which account is module Session's subject; here login   *)
(* binds in one step an account nobody else is bound to.  Texts, states    *)
(* and passwords are left out.                                             *)
(***************************************************************************)
EXTENDS Request, Sequences, FiniteSets, Functions

CONSTANTS
    Conns,          \* connections
    Names,          \* names a client registers
    FirstNames,     \* the table user at the beginning
    Values,         \* the fields clients send
    MaxUsers,       \* bound on the rows of user
    MaxGroups,      \* bound on the rows of allgroup
    MaxRequests,    \* bound on the requests served, logins apart
    None,           \* "no account", "no local variables"
    Faults          \* what may go wrong: a subset of FaultKinds

\* "fails": a statement is not executed; "unanswered": an INSERT is executed
\* and its success is not reported; "crash": a server process is lost.
FaultKinds == {"fails", "unanswered", "crash"}

\* The id of a default-constructed User, which query returns for "no row".
NoRowId == -1

ASSUME DirectoryAssumption ==
    /\ FirstNames \in Seq(Names)
    /\ Values \subseteq Fields
    /\ None \notin Int
    /\ MaxUsers \in Nat /\ MaxGroups \in Nat /\ MaxRequests \in Nat
    /\ Faults \subseteq FaultKinds

VARIABLES
    userTable,   \* names in the order of their ids, which are 1, 2, ...
    friendTable, \* pairs <<userid, friendid>>
    groupTable,  \* the accounts whose handlers inserted the groups 1, 2, ...
    groupUser,   \* rows [group, user, role] of groupuser
    bound,       \* the account a connection is bound to, or None
    at,          \* next step of the handler of a connection
    local,       \* its local variables, or None: [name, id] of reg; the lists
                 \* [friends, groups] of login, groups a function to members;
                 \* [id] of createGroup; [group, to] of groupChat
    requests     \* number of requests so far

\* History, read by no handler.
VARIABLES
    told,        \* [name, id] of the register responses sent
    asked,       \* requests [table, user, other] behind the rows, as sent
    early,       \* pairs <<group, user>> that joined before the group was
                 \* there with its creator
    cutShort     \* groups whose creation was not carried through

tables == <<userTable, friendTable, groupTable, groupUser>>
history == <<told, asked, early, cutShort>>
vars == <<tables, bound, at, local, requests, history>>

UserIds == DOMAIN userTable
GroupIds == DOMAIN groupTable

Init ==
    /\ userTable = FirstNames
    /\ friendTable = {} /\ groupTable = <<>> /\ groupUser = {}
    /\ bound = [c \in Conns |-> None]
    /\ at = [c \in Conns |-> "idle"]
    /\ local = [c \in Conns |-> None]
    /\ requests = 0
    /\ told = {} /\ asked = {} /\ early = {} /\ cutShort = {}

-----------------------------------------------------------------------------
At(c, step) == at[c] = step

\* The handler of c goes on to a step, with its local variables.
Goes(c, step, variables) ==
    /\ at' = [at EXCEPT ![c] = step]
    /\ local' = [local EXCEPT ![c] = variables]

Ends(c) == Goes(c, "idle", None)

\* A frame of the client is dispatched on c; all but logins are counted.
Serves(c) == At(c, "idle") /\ requests < MaxRequests /\ requests' = requests + 1

\* Variant: any account will do, and the id is taken for what the client says.
BoundToAnybody(c, id) == bound[c] # None

\* isConnectionBoundToUser, for a field id that getInt accepts.
BoundTo(c, id) == GetsInt(id) /\ bound[c] = IntOf(id)

\* Variant: one MySQL connection for all, whose last id is the latest row's.
SharedInsertId(c, table) == Len(table)

\* mysql_insert_id of the handler's own MySQL connection.
InsertId(c, table) == local[c].id

-----------------------------------------------------------------------------
(* reg *)

\* The INSERT.  Without its success the response is an error.
Reg(c, name) ==
    /\ Serves(c) /\ Len(userTable) < MaxUsers
    /\ userTable' = Append(userTable, name)
    /\ \/ Goes(c, "reply", [name |-> name, id |-> Len(userTable) + 1])
       \/ "unanswered" \in Faults /\ Ends(c)
    /\ UNCHANGED <<friendTable, groupTable, groupUser, bound, history>>

\* The response carries the id of the new row.
RegReplies(c) ==
    /\ At(c, "reply") /\ Ends(c)
    /\ told' = told \cup
                 {[name |-> local[c].name, id |-> InsertId(c, userTable)]}
    /\ UNCHANGED <<tables, bound, requests, asked, early, cutShort>>
-----------------------------------------------------------------------------
(* login and its lists *)

\* The query, the check and the binding: id and password are those of a row
\* that is not in use, or of the User that stands for "no row".
Login(c, id) ==
    /\ At(c, "idle") /\ bound[c] = None
    /\ GetsInt(id)
    /\ \/ IntOf(id) \in UserIds /\ \A d \in Conns : bound[d] # IntOf(id)
       \/ IntOf(id) = NoRowId
    /\ bound' = [bound EXCEPT ![c] = IntOf(id)]
    /\ Goes(c, "friends", [friends |-> {}, groups |-> <<>>])
    /\ UNCHANGED <<tables, requests, history>>

\* Variant: the join with user is lost.
FriendIdsOf(u) == {p[2] : p \in {p \in friendTable : p[1] = u}}

\* FriendModel::query joins with user.
FriendsOf(u) == {f \in UserIds : <<u, f>> \in friendTable}

\* A query that fails has no rows.
QueryFriends(c) ==
    /\ At(c, "friends")
    /\ \/ Goes(c, "groups", [local[c] EXCEPT !.friends = FriendsOf(bound[c])])
       \/ "fails" \in Faults /\ Goes(c, "groups", local[c])
    /\ UNCHANGED <<tables, bound, requests, history>>

\* Variant: the condition on the user is lost.
GroupsOfAnybody(u) == {g \in GroupIds : \E r \in groupUser : r.group = g}

\* First query of GroupModel::queryGroups.
GroupsOf(u) ==
    {g \in GroupIds : \E r \in groupUser : r.group = g /\ r.user = u}

\* Members not yet asked for are None.
QueryGroups(c) ==
    /\ At(c, "groups")
    /\ \/ Goes(c, "members", [local[c] EXCEPT !.groups =
                                [g \in GroupsOf(bound[c]) |-> None]])
       \/ "fails" \in Faults /\ Goes(c, "members", local[c])
    /\ UNCHANGED <<tables, bound, requests, history>>

\* Its second query, once per group: the members that have a row in user.
Members(g) ==
    {[user |-> r.user, role |-> r.role] :
        r \in {r \in groupUser : r.group = g /\ r.user \in UserIds}}

QueryMembers(c, g) ==
    /\ At(c, "members")
    /\ g \in DOMAIN local[c].groups /\ local[c].groups[g] = None
    /\ \E found \in {Members(g)} \cup (IF "fails" \in Faults THEN {{}} ELSE {}) :
          Goes(c, "members", [local[c] EXCEPT !.groups[g] = found])
    /\ UNCHANGED <<tables, bound, requests, history>>

\* The response is sent.
LoginReplies(c) ==
    /\ At(c, "members")
    /\ \A g \in DOMAIN local[c].groups : local[c].groups[g] # None
    /\ Ends(c)
    /\ UNCHANGED <<tables, bound, requests, history>>

\* loginout, or the connection closes between two handlers.
Release(c) ==
    /\ At(c, "idle") /\ bound[c] # None
    /\ bound' = [bound EXCEPT ![c] = None]
    /\ UNCHANGED <<tables, at, local, requests, history>>
-----------------------------------------------------------------------------
(* The handlers of a bound connection *)

Begins(c, id, other) == Serves(c) /\ BoundTo(c, id) /\ GetsInt(other)

\* The request behind a row: the account of the connection it came over and
\* the number the client sent.
Remember(c, table, other) ==
    asked' = asked \cup {[table |-> table, user |-> bound[c], other |-> other.num]}

\* FriendModel::insert; the friend need not exist.
AddFriend(c, id, friend) ==
    /\ Begins(c, id, friend)
    /\ friendTable' = friendTable \cup {<<IntOf(id), IntOf(friend)>>}
    /\ Remember(c, "friend", friend)
    /\ UNCHANGED <<userTable, groupTable, groupUser, bound, at, local, told,
                   early, cutShort>>

\* Variant: REPLACE INTO.
WithRowReplaced(g, u, role) ==
    {r \in groupUser : r.group # g \/ r.user # u}
        \cup {[group |-> g, user |-> u, role |-> role]}

\* GroupModel::addGroup: INSERT IGNORE, the key is (groupid, userid).
WithRow(g, u, role) ==
    IF \E r \in groupUser : r.group = g /\ r.user = u THEN groupUser
    ELSE groupUser \cup {[group |-> g, user |-> u, role |-> role]}

\* The handler of some connection is about to insert the creator of group g.
BeingCreated(g) == \E c \in Conns : At(c, "addCreator") /\ local[c].id = g

\* The group need not exist.
AddGroup(c, id, group) ==
    /\ Begins(c, id, group)
    /\ LET g == IntOf(group)
       IN  /\ groupUser' = WithRow(g, IntOf(id), "normal")
           /\ early' = IF g \in GroupIds /\ ~BeingCreated(g) THEN early
                       ELSE early \cup {<<g, IntOf(id)>>}
    /\ Remember(c, "groupuser", group)
    /\ UNCHANGED <<userTable, friendTable, groupTable, bound, at, local, told,
                   cutShort>>

\* GroupModel::createGroup; without its success the handler ends.
CreateGroup(c, id) ==
    LET g == Len(groupTable) + 1
    IN  /\ Serves(c) /\ BoundTo(c, id) /\ g <= MaxGroups
        /\ groupTable' = Append(groupTable, bound[c])
        /\ \/ Goes(c, "addCreator", [id |-> g]) /\ UNCHANGED cutShort
           \/ /\ "unanswered" \in Faults
              /\ Ends(c) /\ cutShort' = cutShort \cup {g}
        /\ UNCHANGED <<userTable, friendTable, groupUser, bound, told, asked,
                       early>>

\* addGroup for the creator, whose failure nobody looks at.
InsertCreator(c) ==
    /\ At(c, "addCreator") /\ Ends(c)
    /\ \/ /\ groupUser' = WithRow(InsertId(c, groupTable), bound[c], "creator")
          /\ UNCHANGED cutShort
       \/ /\ "fails" \in Faults
          /\ cutShort' = cutShort \cup {local[c].id}
          /\ UNCHANGED groupUser
    /\ UNCHANGED <<userTable, friendTable, groupTable, bound, requests, told,
                   asked, early>>

\* Variant: the sender need not be a member.
OtherMembers(u, g) == {r.user : r \in {r \in groupUser : r.group = g}} \ {u}

\* queryGroupUsers: the other members, if the sender is one.
Audience(u, g) ==
    IF \E r \in groupUser : r.group = g /\ r.user = u
    THEN {r.user : r \in {r \in groupUser : r.group = g}} \ {u}
    ELSE {}

GroupChat(c, id, group) ==
    /\ Begins(c, id, group)
    /\ Goes(c, "fanOut", [group |-> IntOf(group),
                          to |-> Audience(bound[c], IntOf(group))])
    /\ UNCHANGED <<tables, bound, history>>

\* The message of one member is stored and sent (module Delivery).
SendToMember(c, u) ==
    /\ At(c, "fanOut") /\ u \in local[c].to
    /\ Goes(c, "fanOut", [local[c] EXCEPT !.to = @ \ {u}])
    /\ UNCHANGED <<tables, bound, requests, history>>

FanOutEnds(c) ==
    /\ At(c, "fanOut") /\ local[c].to = {} /\ Ends(c)
    /\ UNCHANGED <<tables, bound, requests, history>>
-----------------------------------------------------------------------------
\* The process of connection c is lost, and with it the handler.
Crash(c) ==
    /\ "crash" \in Faults
    /\ Ends(c)
    /\ bound' = [bound EXCEPT ![c] = None]
    /\ cutShort' = IF At(c, "addCreator") THEN cutShort \cup {local[c].id}
                   ELSE cutShort
    /\ UNCHANGED <<tables, requests, told, asked, early>>

Next ==
    \E c \in Conns :
        \/ \E name \in Names : Reg(c, name)
        \/ RegReplies(c)
        \/ \E id \in Values : Login(c, id)
        \/ QueryFriends(c) \/ QueryGroups(c)
        \/ \E g \in GroupIds : QueryMembers(c, g)
        \/ LoginReplies(c) \/ Release(c)
        \/ \E id, friend \in Values : AddFriend(c, id, friend)
        \/ \E id, group \in Values : AddGroup(c, id, group)
        \/ \E id \in Values : CreateGroup(c, id)
        \/ InsertCreator(c)
        \/ \E id, group \in Values : GroupChat(c, id, group)
        \/ \E u \in {r.user : r \in groupUser} : SendToMember(c, u)
        \/ FanOutEnds(c)
        \/ Crash(c)

Spec == Init /\ [][Next]_vars
-----------------------------------------------------------------------------
(* Properties *)

Rows == [group : Int, user : Int, role : {"creator", "normal"}]

\* The local variables a handler has at each of its steps.
LocalOK(c) ==
    \/ At(c, "idle") /\ local[c] = None
    \/ At(c, "reply") /\ local[c] \in [name : Names, id : UserIds]
    \/ /\ \E step \in {"friends", "groups", "members"} : At(c, step)
       /\ DOMAIN local[c] = {"friends", "groups"}
       /\ local[c].friends \subseteq UserIds
       /\ DOMAIN local[c].groups \subseteq GroupIds
    \/ At(c, "addCreator") /\ local[c] \in [id : GroupIds]
    \/ At(c, "fanOut") /\ local[c] \in [group : Int, to : SUBSET Int]

\* Every table and every handler variable has its type.
DirectoryTypeOK ==
    /\ userTable \in Seq(Names)
    /\ friendTable \subseteq Int \X Int
    /\ groupTable \in Seq(Int)
    /\ groupUser \subseteq Rows
    /\ \A c \in Conns : bound[c] = None \/ bound[c] \in Int
    /\ \A c \in Conns : LocalOK(c)
    /\ requests \in 0..MaxRequests
    /\ told \subseteq [name : Names, id : Nat]
    /\ asked \subseteq [table : {"friend", "groupuser"}, user : Int, other : Int]
    /\ early \subseteq Int \X Int
    /\ cutShort \subseteq GroupIds

\* A register response names the account that was made for its name, however
\* the INSERTs and the mysql_insert_ids of several registrations interleave:
\* nobody is told the id of somebody else's account.
RegTellsOwn == \A r \in told : r.id \in UserIds /\ userTable[r.id] = r.name

\* createGroup writes two tables in two steps.  A creator row always names the
\* account whose handler made the group, and once that handler is through the
\* account is a member: as creator, unless it had joined the id before the
\* handler was through; not at all only if the second step failed.
GroupHasItsCreator ==
    /\ \A r \in groupUser : r.role = "creator" =>
          r.group \in GroupIds /\ r.user = groupTable[r.group]
    /\ \A g \in GroupIds \ cutShort :
          \/ BeingCreated(g)
          \/ \E r \in groupUser :
                /\ r.group = g /\ r.user = groupTable[g]
                /\ r.role = "creator" \/ <<g, r.user>> \in early

\* Only an account can be a member: a handler writes for the account its
\* connection is bound to, and that has a row in user or is the id that means
\* "no row", which login takes for an account.
MembersAreAccounts ==
    \A r \in groupUser : r.user \in UserIds \cup {NoRowId}

\* Behind every friendship, and every membership that is not the creator's,
\* with an id that is not negative, there is a request for just this id that
\* came over a connection of just this account.  (Negative ids have another
\* source, too: an unsigned number beyond LLONG_MAX wraps around to one.)
RowsWereAskedFor ==
    /\ \A p \in friendTable : p[2] >= 0 =>
          [table |-> "friend", user |-> p[1], other |-> p[2]] \in asked
    /\ \A r \in groupUser : r.role = "normal" /\ r.group >= 0 =>
          [table |-> "groupuser", user |-> r.user, other |-> r.group] \in asked

\* The two queries behind the group list of a login agree although rows are
\* added between them: a listed group shows the account itself, unless the
\* query for its members failed.
OwnGroupsShowMe ==
    \A c \in Conns :
        At(c, "members") /\ bound[c] \in UserIds
            => \A g \in DOMAIN local[c].groups :
                  local[c].groups[g] \notin {None, {}}
                     => \E m \in local[c].groups[g] : m.user = bound[c]

\* A group message goes to members of the group only, never back to its
\* sender, and only from a member, whoever joins while it is sent.
AudienceAreMembers ==
    \A c \in Conns : At(c, "fanOut") =>
        \A u \in local[c].to :
            /\ u # bound[c]
            /\ \A v \in {u, bound[c]} : \E r \in groupUser :
                  r.group = local[c].group /\ r.user = v
=============================================================================
