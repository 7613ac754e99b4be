-------------------------- MODULE MCBrowserIntegrity --------------------------
(***************************************************************************)
(* Instances of BrowserIntegrity for TLC.                                  *)
(***************************************************************************)
EXTENDS BrowserIntegrity, TLC
CONSTANTS c1, ip1, app, bare, other, example

\* "*.example" is the end of both app.example and the bare domain.
MCEndsIn == {<<app, example>>, <<bare, example>>}

Strict == [allowed |-> {example}, needsOrigin |-> TRUE, needsReferer |-> TRUE, captcha |-> "turnstile",
           bind |-> TRUE, maxChanges |-> 0, maxRequests |-> 1, maxRegistrations |-> 0, maxClients |-> 1, watch |-> FALSE]
Binding == [allowed |-> {app, other}, needsOrigin |-> TRUE, needsReferer |-> FALSE, captcha |-> "off",
            bind |-> TRUE, maxChanges |-> 1, maxRequests |-> 2, maxRegistrations |-> None, maxClients |-> None, watch |-> TRUE]
Loose == [Binding EXCEPT !.allowed = {}, !.needsOrigin = FALSE, !.bind = FALSE,
                         !.watch = FALSE]

From(o) == [origin |-> o, referer |-> "fits", agent |-> TRUE, token |-> TRUE]
Bare == [origin |-> None, referer |-> None, agent |-> FALSE, token |-> FALSE]
Try(who, cfg, data) == [who |-> who, cfg |-> cfg, data |-> data]

AsClient ==
    {Try(c1, Strict, From(o)) : o \in {app, other}} \cup {Try(c1, Binding, From(o)) : o \in {app, bare}}
    \cup {Try(c1, Loose, From(other)), Try(c1, Loose, Bare),
          Try(c1, Strict, [From(app) EXCEPT !.token = FALSE]),
          Try(c1, Strict, [From(app) EXCEPT !.referer = "differs"]),
          Try(c1, Binding, [From(app) EXCEPT !.agent = FALSE]),
          Try(c1, [Loose EXCEPT !.maxClients = 0], From(app))}
AsGuest ==
    {Try(ip1, [Strict EXCEPT !.captcha = "other"], From(app))}

MCBrowserAttempts ==
    <<AsClient \cup AsGuest, {Try(c1, Binding, From(other))}>>
===============================================================================
