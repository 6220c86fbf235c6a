------------------------------ MODULE Requests ------------------------------
(***************************************************************************)
(* What the words of a user become before anything runs: the configuration *)
(* of three layers (config, miner-cli::cli), the ScanRequest of miner scan  *)
(* (miner-cli::scan_args), the overrides of miner sweep                    *)
(* (miner-cli::sweep_args) and the seed of a request (hygiene::seed).      *)
(*                                                                         *)
(* "absent" is a flag or a key that is not there, "bad" a word that does   *)
(* not parse; a number of resamples of 0 is unset.                         *)
(***************************************************************************)
EXTENDS Integers, SequencesExt

Methods == {"bootstrap", "null"}

NoSeed == -1
NoFence == -1
BadFence == -2
NoFile == -3

----------------------------------------------------------------------------
(* MinerConfig.not_after, of a config file, MINER_NOT_AFTER and --not-after.  A *)
(* file is what it says, NoFence where it is silent.                           *)

\* resolve_toml_path: a path that was named is taken, also when nothing is there.
ConfigFile(files) ==
  IF files.named # NoFile THEN files.named
  ELSE IF files.native # NoFile THEN files.native ELSE files.cwd
FileLayer(layers) == IF ConfigFile(layers.files) = NoFile THEN NoFence ELSE ConfigFile(layers.files)

\* clap reads the variable where the flag is missing; overrides() passes it on.
CliLayer(layers) == IF layers.flag # NoFence THEN layers.flag ELSE layers.env

\* Mutant of NotAfter: the file is merged last.
NotAfterFile(layers) ==
  IF FileLayer(layers) # NoFence THEN FileLayer(layers) ELSE CliLayer(layers)

\* build_figment: the file, then the environment over it, then the command line.
NotAfter(layers) ==
  IF CliLayer(layers) # NoFence THEN CliLayer(layers)
  ELSE IF layers.env # NoFence THEN layers.env ELSE FileLayer(layers)

----------------------------------------------------------------------------
(* Requests. *)

DefaultGapPolicy == "continuous_only"
DefaultCalendar  == "fx_new_york"
BadTimeframe == 0

\* merge_hygiene, and SweepArgs over [hygiene]: each part where it says something.
Merge(global, own) ==
  [x \in Methods |-> [name |-> IF own[x].name = "absent" THEN global[x].name ELSE own[x].name,
                      n |-> IF own[x].n > 0 THEN own[x].n ELSE global[x].n]]

\* Mutant of Override: --bootstrap-n and --null-n are lost.
OverrideMethods(m, flags) ==
  [m EXCEPT !.seed = IF flags.seed = NoSeed THEN @ ELSE flags.seed,
            !.hygiene = Merge(@, [x \in Methods |-> [flags.hygiene[x] EXCEPT !.n = 0]])]

\* SweepArgs::to_manifest, of the manifest it read.
Override(m, flags) ==
  [m EXCEPT !.seed = IF flags.seed = NoSeed THEN @ ELSE flags.seed,
            !.hygiene = Merge(@, flags.hygiene)]

\* derive_job_seed: a digest of these, taken for free of collisions; of the
\* parameters their param_hash.
DeriveJobSeed(master, scan, legs, tf, window, point) == <<master, scan, legs, tf, window, point>>

\* parse_params_kv: a key may be given once.
ParsesParams(items) == \A i, j \in DOMAIN items : items[i].key = items[j].key => i = j
ParamsOf(items) == [k \in {items[i].key : i \in DOMAIN items} |->
                      (CHOOSE i \in DOMAIN items : items[i].key = k)]

Refused == [refused |-> TRUE]

\* ScanArgs::to_scan_request.
ToScanRequest(args) ==
  LET gap == IF args.gap = "absent" THEN DefaultGapPolicy ELSE args.gap
      calendar == IF args.calendar = "absent" THEN DefaultCalendar ELSE args.calendar
      point == ParamsOf(args.params)
  IN IF \/ args.tf = BadTimeframe \/ ~args.window.ok
        \/ gap = "bad" \/ calendar = "bad"
        \/ ~ParsesParams(args.params)
        \/ \E x \in Methods : args.hygiene[x].name = "bad"
     THEN Refused
     ELSE [scan |-> args.scan, legs |-> args.legs, tf |-> args.tf, window |-> args.window,
           gap |-> gap, calendar |-> calendar,
           point |-> [k \in DOMAIN point |-> args.params[point[k]].value],
           hygiene |-> args.hygiene, master |-> args.seed, seed |-> <<>>]

\* The seeds apply_hygiene_mutations takes of a request.
Seeded(req) ==
  LET master == IF req.master = NoSeed THEN 0 ELSE req.master
  IN [req EXCEPT
        !.master = master,
        !.seed = IF @ # <<>> THEN @
                 ELSE DeriveJobSeed(master, req.scan, req.legs, req.tf, req.window, req.point)]
=============================================================================
