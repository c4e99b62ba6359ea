------------------------------- MODULE Config -------------------------------
(***************************************************************************)
(* ServerConfig (lsserver/src/config.rs): what the command line makes of   *)
(* the defaults, as far as the stage and the network thread depend on it,  *)
(* and the bounds checks of the API.  Addresses and paths are passed on    *)
(* unchanged and left out.                                                 *)
(***************************************************************************)
EXTENDS Integers

CONSTANT NotGiven   \* None, of an option of the command line or of gpio_pin

\* ServerConfig::default().
DefaultConfig ==
  [num_arcs |-> 12, lights_per_arc |-> 14, refresh_rate_ms |-> 1000 \div 30,
   gpio_pin |-> 4]

CliConfig ==
  [max_refresh_rate : Nat \cup {NotGiven}, gpio_pin : Nat \cup {NotGiven},
   no_gpio : BOOLEAN]

\* Option::unwrap_or
Or(option, default) == IF option = NotGiven THEN default ELSE option

\* The conversion divides by the rate it is given: zero ends the process.
Converts(cli) == cli.max_refresh_rate # 0

\* ServerConfig::from, rounding the period down.
FromCli(cli) ==
  [DefaultConfig EXCEPT
     !.refresh_rate_ms =
        IF cli.max_refresh_rate = NotGiven THEN @ ELSE 1000 \div cli.max_refresh_rate,
     !.gpio_pin = IF cli.no_gpio THEN NotGiven ELSE Or(cli.gpio_pin, @)]

\* A check that lets the index after the last one pass.
ValidArcOrNext(config, arc_idx) == arc_idx <= config.num_arcs

\* validate_arc and validate_fixture; indices of requests are never negative.
ValidArc(config, arc_idx) == arc_idx < config.num_arcs

ValidFixture(config, arc_idx, light_idx) ==
  ValidArc(config, arc_idx) /\ light_idx < config.lights_per_arc
=============================================================================
