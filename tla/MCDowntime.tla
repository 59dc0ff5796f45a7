------------------------------ MODULE MCDowntime --------------------------------
EXTENDS Downtime

\* A fixed downtime of the host, one of the service that it triggers (with the
\* same times, as SCHEDULE_AND_PROPAGATE_TRIGGERED_HOST_DOWNTIME gives), and a
\* flexible one of the service that overlaps them.
Overlapping ==
    <<[object |-> "host", fixed |-> TRUE, start |-> 2, end |-> 3, duration |-> 1, triggered_by |-> 0],
      [object |-> "service", fixed |-> TRUE, start |-> 2, end |-> 3, duration |-> 1, triggered_by |-> 1],
      [object |-> "service", fixed |-> FALSE, start |-> 1, end |-> 2, duration |-> 1, triggered_by |-> 0]>>

=================================================================================
