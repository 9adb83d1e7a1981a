------------------------------ MODULE MCOffice ------------------------------
(* Requests of each part of the office, in any order and side by side. *)
EXTENDS Office

Hire(a, m) == [op |-> "hire", agent |-> a, manager |-> m]
Update(a, m) == [op |-> "update", agent |-> a, manager |-> m]
Dm(M) == [op |-> "dm", members |-> M]
Channel(t) == [op |-> "channel", title |-> t, members |-> {"you", "ann"}]
Rename(r, t) == [op |-> "rename", room |-> r, title |-> t, owners |-> {"ann"}]
Invite(r, p) == [op |-> "invite", room |-> r, person |-> p]
Ask(k, x) == [op |-> "ask", agent |-> "ann", kind |-> k, expires |-> x]
Resolve(r, a) == [op |-> "resolve", request |-> r, answer |-> a]
Start(a) == [op |-> "start", agent |-> a]
Stop(d) == [op |-> "stop", demo |-> d]
Move(t, s) == [op |-> "move", task |-> t, status |-> s]

\* "r" requests are tool calls of chief's run, "p" requests come from a page or
\* from a call that names no run.
MCJob == [
    rHire |-> Hire("cy", "bob"), rHire2 |-> Hire("dee", "chief"), pHire |-> Hire("cy", "chief"),
    pUpdate |-> Update("ann", "cy"), pUpdate2 |-> Update("cy", "bob"),
    pUpdate3 |-> Update("bob", "ann"),
    pRetire |-> [op |-> "retire", agent |-> "ann"],
    rDm |-> Dm({"chief", "ann"}), pDm |-> Dm({"chief", "ann"}), pDm2 |-> Dm({"you", "ann"}), pDm3 |-> Dm({"chief", "bob"}),
    rGroup |-> [op |-> "group", members |-> {"chief", "ann", "bob"}],
    rChannel |-> Channel("plans"), pChannel |-> Channel("plans"),
    pRename |-> Rename("old", "plans"),
    pJoin |-> [op |-> "join", room |-> "old", title |-> "old", person |-> "ann"],
    rInvite |-> Invite("trio", "bob"), pInvite |-> Invite("trio", "ann"),
    pInvite2 |-> Invite("trio", "bob"), pInvite3 |-> Invite("pDm", "bob"),
    rInvite2 |-> Invite("pDm3", "ann"),
    pArchive |-> [op |-> "archive", room |-> "old"],
    pAsk |-> Ask("approval", TRUE), pAsk2 |-> Ask("secret", FALSE),
    pYes |-> Resolve("pAsk", "yes"), pNo |-> Resolve("pAsk", "no"),
    pKey |-> Resolve("pAsk2", "yes"), pKey2 |-> Resolve("pAsk2", "no"),
    pStart |-> Start("ann"), pStart2 |-> Start("bob"),
    pStop |-> Stop("demo"), pStop2 |-> Stop("demo"),
    pVerify |-> [op |-> "verify", demo |-> "demo"],
    rCard |-> [op |-> "card", agent |-> "ann"], pCard |-> [op |-> "card", agent |-> "ann"],
    pMove |-> Move("pCard", "done"), pMove2 |-> Move("pCard", "done"),
    pMove3 |-> Move("pCard", "blocked")]

MCRequests == DOMAIN MCJob
MCByRun == {"rHire", "rHire2", "rDm", "rGroup", "rChannel", "rInvite", "rInvite2", "rCard"}
MCMixes == {
    [of |-> {"rHire", "rHire2", "pHire", "pUpdate", "pUpdate2", "pUpdate3", "pRetire", "rCard"}, upto |-> 3],
    [of |-> {"rDm", "pDm", "pDm2", "pAsk"}, upto |-> 3],
    [of |-> {"pDm", "pDm3", "rInvite2", "pInvite3"}, upto |-> 4],
    [of |-> {"rChannel", "pChannel", "pRename", "pJoin", "pArchive"}, upto |-> 3],
    [of |-> {"rGroup", "rInvite", "pInvite", "pInvite2", "pRetire"}, upto |-> 3],
    [of |-> {"pAsk", "pYes", "pNo", "pRetire"}, upto |-> 4],
    [of |-> {"pAsk2", "pKey", "pKey2", "pRetire"}, upto |-> 4],
    [of |-> {"pStart", "pStart2", "pStop", "pStop2", "pVerify", "pRetire"}, upto |-> 4],
    [of |-> {"rCard", "pCard", "pMove", "pMove2", "pMove3", "pRetire"}, upto |-> 3],
    [of |-> {"rHire2", "rDm", "rInvite", "rCard"}, upto |-> 3]}
MCAgents == {"chief", "ann", "bob", "cy", "dee"}
MCFirstBoss == [chief |-> "nobody", ann |-> "chief", bob |-> "ann"]
MCFirstRoom == [
    general |-> [kind |-> "channel", title |-> "general", members |-> {"you", "chief", "ann", "bob"}],
    old |-> [kind |-> "channel", title |-> "old", members |-> {"you"}],
    trio |-> [kind |-> "group", title |-> "nobody", members |-> {"you", "chief"}]]
MCOldRooms == DOMAIN MCFirstRoom
MCNames == {"general", "old", "plans"}
MCLearner == [demo |-> "ann"]
MCOldDemos == DOMAIN MCLearner
=============================================================================
