------------------------------ MODULE MCVoice ------------------------------
(***************************************************************************)
(* Small instances of Voice: a kitchen whose ceiling light has a namesake  *)
(* in the hall, and a lamp of which the kitchen has two.                   *)
(***************************************************************************)
EXTENDS Voice

Entity(id, name, domain, area) ==
    [id |-> id, name |-> name, domain |-> domain, area |-> area]

MCHouse ==
    {Entity("light.kitchen", "ceiling", "light", "kitchen"),
     Entity("light.hall", "ceiling", "light", "hall"),
     Entity("switch.lamp_1", "lamp", "switch", "kitchen"),
     Entity("switch.lamp_2", "lamp", "switch", "kitchen"),
     Entity("sensor.oven", "oven", "sensor", "kitchen")}

MCAreas == {[id |-> "kitchen", name |-> "Kitchen"], [id |-> "hall", name |-> "Hall"]}

MCTranscripts ==
    [supported : {TRUE}, target : {"ceiling", "lamp", "oven"}]
      \cup {[supported |-> FALSE, target |-> "ceiling"]}
=============================================================================
