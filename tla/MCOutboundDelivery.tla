------------------------- MODULE MCOutboundDelivery -------------------------
(* Small instances of OutboundDelivery for model checking. *)
EXTENDS OutboundDelivery

CONSTANTS d1, r1, r2, r3, h1, h2, h3

OneDomainOf == [r \in {r1, r2, r3} |-> d1]
Retry1 == <<1>>
Notify1 == <<9>>

\* A message with two recipients to be delivered to, one of them tried before,
\* and one already delivered to.
Queued ==
    [BuildMessage([rcpts |-> {r1, r2, r3}, notify |-> {}, release |-> 0, by |-> 0,
                   byReturn |-> FALSE], 0)
        EXCEPT !.rcpts[r2].status = "TemporaryFailure", !.rcpts[r3].status = "Completed"]

MCStarts == {Queued}

\* Two hosts of the same preference.
MCMxLists == {<<{h1, h2}>>}

MCPolicies == {[id |-> 1, mode |-> "enforce", mx |-> {h1}],
               [id |-> 2, mode |-> "testing", mx |-> {h2}]}

\* Relays of every kind; MX hosts with every requirement.
MCConfs ==
    {c \in Conf : /\ c.hop # "relay" => ~c.lmtp /\ ~c.implicit
                  /\ c.hop # "mx" => ~c.requireTls /\ ~c.invalidCerts
                  /\ c.hop = "relay" => c.mtaSts # "Optional"
                  /\ c.hop = "local" => c.mtaSts = "Disable"
                  /\ c.requireTls = c.invalidCerts
                  /\ c.requireTls => c.mtaSts = "Optional"
                  /\ c.report = (c.hop # "local")}
=============================================================================
