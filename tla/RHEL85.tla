-------------------------------- MODULE RHEL85 --------------------------------
(***************************************************************************)
(* The distribution of internal/distro/rhel85, which rhel86 was made from: *)
(* where the two have the same lines, up to the name, the version and the  *)
(* label of the distribution, RHEL86 stands for both, and this module has  *)
(* what differs.                                                           *)
(***************************************************************************)
EXTENDS Osbuild, Customizations

R86 == INSTANCE RHEL86

rd == [name |-> "rhel-85", vendor |-> "redhat", isolabelTmpl |-> "RHEL-8-5-0-BaseOS"]

-----------------------------------------------------------------------------
(***************************************************************************)
(* Package sets: insights-client is in the sets of the images themselves,  *)
(* alsa-lib is not in any image for EC2, and what an installer installs is *)
(* not a build root.                                                       *)
(***************************************************************************)
qcow2CommonPackageSet(t) ==
    R86!AppendSet(
        R86!PackageSet(
            {"@core", "authselect-compat", "chrony", "cloud-init", "dnf", "dosfstools", "dracut-norescue",
             "insights-client", "NetworkManager", "nfs-utils", "subscription-manager-cockpit", "tar"},
            {"iwl-firmware", "libertas-firmware", "alsa-firmware", "alsa-lib", "biosdevname", "dracut-config-rescue",
             "firewalld", "fwupd", "langpacks-en", "nss", "plymouth", "rng-tools", "udisks2"}),
        R86!bootPackageSet(t))

ec2CommonPackageSet(t) ==
    R86!AppendSet(
        R86!PackageSet(
            {"@core", "authselect-compat", "chrony", "cloud-init", "dracut-config-generic", "dracut-norescue", "gdisk",
             "grub2", "insights-client", "langpacks-en", "NetworkManager", "NetworkManager-cloud-setup", "tar"},
            {"iwl-firmware", "libertas-firmware", "alsa-firmware", "alsa-lib", "biosdevname", "firewalld", "plymouth"}),
        R86!bootPackageSet(t))

rhelEc2PackageSet(t) == R86!Includes(ec2CommonPackageSet(t), {"rh-amazon-rhui-client"})

rhelEc2HaPackageSet(t) == R86!Includes(ec2CommonPackageSet(t), {"pacemaker", "rh-amazon-rhui-client-ha"})

bareMetalPackageSet(t) ==
    R86!AppendSet(
        R86!PackageSet(
            {"@core", "authselect-compat", "chrony", "dnf", "dosfstools", "dracut-norescue", "insights-client",
             "iwl-firmware", "NetworkManager", "nfs-utils", "policycoreutils", "selinux-policy-targeted",
             "subscription-manager-cockpit", "tar"}, {}),
        R86!bootPackageSet(t))

getPackages(t, name) ==
    LET getter == t.packageSets[name]
    IN  CASE getter = "qcow2Common" -> qcow2CommonPackageSet(t)
          [] getter = "ec2Common" -> ec2CommonPackageSet(t)
          [] getter = "rhelEc2" -> rhelEc2PackageSet(t)
          [] getter = "rhelEc2Ha" -> rhelEc2HaPackageSet(t)
          [] getter = "bareMetal" -> bareMetalPackageSet(t)
          [] OTHER -> R86!getPackages(t, name)

imagePackages(t, name) == IF name \in DOMAIN t.packageSets THEN getPackages(t, name) ELSE R86!NoPackages

PackageSets(t, bp) ==
    [name \in DOMAIN t.packageSets \cup {R86!osPkgsKey, R86!blueprintPkgsKey} |->
        CASE name = R86!blueprintPkgsKey -> R86!PackageSet(R86!blueprintPackages(bp), {})
          [] name = R86!osPkgsKey -> R86!Includes(imagePackages(t, name), {GetKernel(bp.c).Name})
          [] OTHER -> getPackages(t, name)]

-----------------------------------------------------------------------------
(***************************************************************************)
(* The image types of newDistro.  There is none for SAP.                   *)
(***************************************************************************)
imageTypes(arch) ==
    CASE arch = R86!X86_64 ->
            {R86!qcow2ImgType, R86!vhdImgType, R86!vmdkImgType, R86!openstackImgType, R86!amiImgTypeX86_64,
             R86!ec2ImgTypeX86_64, R86!ec2HaImgTypeX86_64, R86!tarImgType, R86!tarInstallerImgTypeX86_64}
              \cup R86!edgeImageTypes
      [] arch = R86!Aarch64 ->
            {R86!qcow2ImgType, R86!openstackImgType, R86!amiImgTypeAarch64, R86!ec2ImgTypeAarch64, R86!tarImgType}
              \cup R86!edgeImageTypes
      [] arch \in {R86!Ppc64le, R86!S390x} -> {R86!qcow2ImgType, R86!tarImgType}

GetImageType(arch, name) ==
    LET t == CHOOSE t \in imageTypes(arch) : t.name = name \/ name \in t.nameAliases
    IN  [field \in DOMAIN t \cup {"arch"} |-> IF field = "arch" THEN R86!architecture(rd, arch) ELSE t[field]]

checkOptions(t, c, options) == R86!checkOptions(t, c, options)

pipelines(t, c, options, specs) == R86!pipelines(t, c, options, specs)

Manifest(t, c, options, specs) ==
    [pipelines |-> pipelines(t, c, options, specs),
     sources |-> R86!sources(specs, IF R86!Pulls(options) THEN {options.Parent} ELSE {})]
=============================================================================
