---------------------------- MODULE Configuration ----------------------------
(***************************************************************************)
(* utils/config.py: what load() accepts.  A configuration is reduced to    *)
(* the fields a validator reads or the startup uses; basis points are      *)
(* counted in tenths, allocations in percent.                              *)
(***************************************************************************)
EXTENDS Integers, SequencesExt

\* VenuesConfig.enabled_venues, as the names in its order
EnabledVenues(cfg) == ToSet(cfg.enabled)

\* BybitConfig.valid_category, of the section if there is one
ValidCategory(cfg) == cfg.categories \subseteq {"linear", "spot", "inverse"}

\* HyperliquidConfig.validate_key: a key of 64 characters gets the prefix it
\* lacks, and then all must have 66.
ValidKeys(cfg) ==
  \A key \in cfg.keys : key.length = 66 \/ (key.length = 64 /\ ~key.prefixed)

\* FeeModelConfig.reasonable_fee
ReasonableFees(cfg) == \A bps \in cfg.fees : 0 <= bps /\ bps <= 1000

\* ArbPairConfig.venues_differ
VenuesDiffer(cfg) == \A pair \in cfg.pairs : pair.buy # pair.sell

\* StrategyConfig.sane_threshold
SaneThreshold(cfg) == cfg.minPnl >= 5

\* RiskConfig.allocations_sum_to_one: within one percent, if there are any
AllocationsSumToOne(cfg) ==
  LET total == FoldFunction(+, 0, cfg.allocation)
  IN  DOMAIN cfg.allocation # {} => 99 <= total /\ total <= 101

\* EngineConfig.pairs_reference_known_venues
PairsReferenceKnownVenues(cfg) ==
  \A pair \in cfg.pairs : {pair.buy, pair.sell} \subseteq EnabledVenues(cfg)

\* EngineConfig.valid_log_level, of the level in upper case
ValidLogLevel(cfg) == cfg.logLevel \in {"DEBUG", "INFO", "WARNING", "ERROR", "CRITICAL"}

\* Mutant: the pairs are not compared with the enabled venues.
ValidFieldsOnly(cfg) ==
  /\ ValidCategory(cfg) /\ ValidKeys(cfg) /\ ReasonableFees(cfg) /\ VenuesDiffer(cfg)
  /\ SaneThreshold(cfg) /\ AllocationsSumToOne(cfg) /\ ValidLogLevel(cfg)

\* load: any validator that raises refuses the configuration.
Valid(cfg) ==
  /\ ValidCategory(cfg)
  /\ ValidKeys(cfg)
  /\ ReasonableFees(cfg)
  /\ VenuesDiffer(cfg)
  /\ SaneThreshold(cfg)
  /\ AllocationsSumToOne(cfg)
  /\ ValidLogLevel(cfg)
  /\ PairsReferenceKnownVenues(cfg)
=============================================================================
