-------------------------- MODULE ActivityExecutor --------------------------
(***************************************************************************)
(* What an activity does to a simulated client: StandardExecutor, and the  *)
(* ChaosExecutor around it, which draws from a random source.  Execute is  *)
(* the set of the outcomes the draws can lead to.                          *)
(*                                                                         *)
(* Of a client's state, the versions of packages are left out, and so are  *)
(* power_state, which is "on" after every activity, and                    *)
(* cripple_recovery_attempts, which is always 0.  is_crippled is           *)
(* mode # "none": the code sets and clears the two together.               *)
(***************************************************************************)
EXTENDS Integers

CONSTANTS Package,      \* packages that can be installed
          NoPackage,    \* the parameter is missing
          MaxVersion    \* bound: configuration versions are 0..MaxVersion

ASSUME PackageAssumption == NoPackage \notin Package
ASSUME VersionAssumption == MaxVersion \in Nat \ {0}

PackageOps == {"install_package", "upgrade_package", "remove_package"}

ConfigOps == {"apply_config", "validate_config"}

ActivityType == {"reboot", "run_script"} \cup PackageOps \cup ConfigOps

CrippleMode == {"none", "fail_package_ops", "fail_config", "silent"}

ClientState == [packages : SUBSET Package, config : 0..MaxVersion, mode : CrippleMode]

NewInnerClient == [packages |-> {}, config |-> 1, mode |-> "none"]

Outcome(state, status) == [state |-> state, status |-> status]

(* install, upgrade and remove: each needs a name, and the package to be   *)
(* absent or present.                                                      *)
ExecutePackageOp(a, s) ==
  LET install == a.type = "install_package"
      after   == IF a.type = "remove_package" THEN s.packages \ {a.package}
                                              ELSE s.packages \cup {a.package}
  IN CASE a.package = NoPackage                     -> Outcome(s, "error")
       [] install = (a.package \in s.packages)      -> Outcome(s, "fail")
       [] OTHER -> Outcome([s EXCEPT !.packages = after], "success")

(* ExecuteActivity; a missing config_version is 0.                         *)
ExecuteActivity(a, s) ==
  CASE a.type = "reboot"          -> Outcome([s EXCEPT !.mode = "none"], "success")
    [] a.type \in PackageOps      -> ExecutePackageOp(a, s)
    [] a.type = "apply_config"    -> Outcome([s EXCEPT !.config = a.config], "success")
    [] a.type = "validate_config" -> Outcome(s, IF s.config = a.config THEN "success" ELSE "fail")
    [] a.type = "run_script"      -> Outcome(s, "success")

BlockedBy == [none |-> {}, fail_package_ops |-> PackageOps, fail_config |-> ConfigOps,
              silent |-> ActivityType]

(* Wrong: a silent client reboots.                                         *)
CrippledButForReboot(s, type) == type \in BlockedBy[s.mode] \ {"reboot"}

IsCrippledForActivity(s, type) == type \in BlockedBy[s.mode]

(* ApplyDrift: the version goes up, a package comes or one goes.           *)
Drifted(s) == {[s EXCEPT !.config = v] : v \in {s.config + 1} \cap 0..MaxVersion}
              \cup {[s EXCEPT !.packages = @ \cup {p}] : p \in Package}
              \cup {[s EXCEPT !.packages = @ \ {p}] : p \in s.packages}
              \cup {s}

(* ChaosExecutor.Execute: a crippled client fails, or pretends to succeed; *)
(* another may fail at random, and be crippled by that; or the activity is *)
(* carried out, and the state may drift.                                   *)
Execute(a, s) ==
  IF IsCrippledForActivity(s, a.type)
    THEN {Outcome(s, IF s.mode = "silent" THEN "success" ELSE "fail")}
    ELSE LET done == ExecuteActivity(a, s)
         IN {Outcome([s EXCEPT !.mode = m], "fail") : m \in (CrippleMode \ {"none"}) \cup {s.mode}}
            \cup {Outcome(t, done.status) : t \in Drifted(done.state)}
=============================================================================
