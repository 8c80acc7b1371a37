----------------------------- MODULE MCTelemetry -----------------------------
(* Small instances of Telemetry: two-second buckets with one second of     *)
(* grace, a projection limit of one event, an outbox of two records.       *)
EXTENDS Telemetry

Event(type) == [type |-> type, at |-> 0, latency |-> None, count |-> 1, backlog |-> None,
                subjects |-> {}]
MCTypes == {"session.created", "user.updated", "registration.options.started",
            "registration.ceremony.opened", "registration.response.returned"}
MCBounds == <<1>>

Enabled == [enabled |-> TRUE, retention |-> 20, quota |-> 9, archives |-> TRUE]
Requests == [enable |-> Enabled, shorten |-> [Enabled EXCEPT !.retention = 3],
             disable |-> DefaultPolicy]

\* The environment of one behaviour: the event types it logs and how often each
\* of its steps may happen; `skew' is Fleet's clock minus the realm's.
Quiet == [types |-> {Event("session.created"), Event("user.updated")}, events |-> 2, ticks |-> 5,
          pairings |-> 1, breaks |-> 1, edits |-> 0, archives |-> 0, skew |-> 0, minute |-> 100,
          policy |-> Enabled, requests |-> Requests, drains |-> TRUE]
Busy == [Quiet EXCEPT !.types = {Event("session.created")}]

MCWorkloads ==
    { [Quiet EXCEPT !.ticks = 4, !.drains = FALSE],                      \* corrections
      [Quiet EXCEPT !.ticks = 4, !.breaks = 0],
      [Busy EXCEPT !.events = 3, !.ticks = 7, !.pairings = 0, !.drains = FALSE], \* overflow
      [Busy EXCEPT !.pairings = 2, !.breaks = 0],                        \* reassignment
      [Busy EXCEPT !.policy.quota = 1, !.minute = 6, !.drains = FALSE],  \* quota reached
      [Busy EXCEPT !.events = 1, !.ticks = 6, !.policy.quota = 1, !.minute = 2], \* marker expiry
      [Busy EXCEPT !.events = 1, !.ticks = 4, !.edits = 3, !.breaks = 0, !.drains = FALSE],
      [Busy EXCEPT !.ticks = 4, !.archives = 3, !.breaks = 0, !.drains = FALSE], \* import
      [Busy EXCEPT !.events = 1, !.skew = -9, !.drains = FALSE] }        \* clocks disagree

\* A registration whose ceremony opens before, and whose answer returns after,
\* the end of a five-minute window.
MCRegistration ==
    { [Quiet EXCEPT !.types = {Event("registration.options.started"),
                               Event("registration.ceremony.opened"),
                               Event("registration.response.returned")},
                    !.events = 3, !.ticks = 5, !.pairings = 0, !.breaks = 0] }
=============================================================================
