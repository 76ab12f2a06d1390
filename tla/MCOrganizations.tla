--------------------------- MODULE MCOrganizations ---------------------------
EXTENDS Organizations

CONSTANTS u1, u2, u3

By(op, id, who, about, with) == {Request(op, by, id, who, about, with) : by \in {Founder, FirstAdmin}}

(* Every route, on organisation 0 and on one that an earlier request made; *)
(* without the header by host name or by default; and the bodies that lead *)
(* to each outcome.                                                        *)
SomeRequests ==
    LET OnTeam(op, who, with) == UNION {By(op, 0, who, <<t>>, with) : t \in 0 .. 1} IN
    UNION {By("createOrganization", 0, Null, <<>>, s) : s \in Slugs}
    \cup UNION {By("deleteOrganization", id, Null, <<>>, Null) : id \in 0 .. 1}
    \cup {Request("getOrganization", FirstAdmin, id, Null, <<>>, Null) : id \in 0 .. 1}
    \cup {Request(op, FirstAdmin, 0, Null, <<>>, Null) :
             op \in {"getUserOrganizations", "getMembers", "getOrganizationTeams"}}
    \cup {[r EXCEPT !.header = FALSE, !.host = host] :
             r \in By("getUserTeams", 0, Null, <<>>, Null), host \in Slugs \cup {"www"}}
    \cup UNION {By("updateOrganization", 0, Null, <<>>, w) : w \in {Null, "name", "dark", "custom"}}
    \cup UNION {By("updateSubscription", 0, Null, <<>>, w) : w \in {"starter", Unknown}}
    \cup UNION {By("inviteMember", 0, u3, about, "guest") : about \in {<<>>, <<0, 1>>}}
    \cup By("inviteMember", 0, Stranger, <<>>, "guest")
    \cup UNION {By("updateMember", id, Founder, <<>>, w) : id \in 0 .. 1, w \in {Null, "owner"}}
    \cup {[r EXCEPT !.bare = TRUE] : r \in By("updateMember", 0, FirstAdmin, <<>>, Null)}
    \cup UNION {By("removeMember", 0, who, <<>>, Null) : who \in {FirstAdmin, u3}}
    \cup UNION {By("createTeam", id, Null, <<>>, Null) : id \in 0 .. 1}
    \cup UNION {OnTeam("updateTeam", Null, w) : w \in {Null, "public"}}
    \cup OnTeam("deleteTeam", Null, Null)
    \cup {Request(op, FirstAdmin, 0, Null, <<t>>, Null) : op \in {"getTeam", "getTeamMembers"}, t \in 0 .. 1}
    \cup UNION {OnTeam(op, Founder, Null) : op \in {"addTeamMember", "removeTeamMember"}}
    \cup {Request("acceptInvitation", u3, 1, Null, <<>>, Null)}
=============================================================================
