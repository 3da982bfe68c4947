---------------------------- MODULE PagesProofs ----------------------------
(* Proofs about Pages, for any contents of the upstreams. *)
EXTENDS Pages, TLAPS

\* The pages and the sections are the fields of LegsOf and Needs.
LEMMA PageNames ==
  Page = {"home", "circuits", "circuit", "topologies", "switching_services", "stps", "stp",
          "sdps", "sdp", "spectrum", "providers", "provider"}
BY DEF Page, LegsOf

LEMMA SectionNames ==
  Section = {"dashboard", "circuits", "circuit", "path", "crossed", "topologies",
             "switching_services", "stps", "sdps", "spectrum", "validation",
             "providers", "provider", "reservations"}
BY DEF Section, Needs

\* Every page asks known sources only.
LEMMA LegsAreSources == \A p \in Page : LegsOf[p] \subseteq Source
BY PageNames DEF LegsOf, Source, WfoSource, ProxySource

-----------------------------------------------------------------------------
Outcome == Version \cup Failure
Answered(p, o) == \A s \in LegsOf[p] : o[s] \in Outcome

\* What one section may show, given the outcomes o of the legs of page p.
Sound(p, o, section, shown) ==
  /\ shown \in SectionView
  /\ \A s \in Source : shown.from[s] \in Version => s \in LegsOf[p] /\ shown.from[s] = o[s]
  /\ shown.error = "ok" => \A s \in Needs[section] : s \in LegsOf[p] /\ shown.from[s] = o[s] /\ o[s] \in Version
  /\ shown.error = "not_authorized" => \E s \in LegsOf[p] : o[s] = "refused"
  /\ shown.error = "unavailable" => \E s \in LegsOf[p] : o[s] \in Failure
  /\ shown.error = "not_found" => \E s \in LegsOf[p] : o[s] \in Version
  /\ section = "path" /\ shown.from["circuits"] \in Connected /\ shown.error = "ok"
       => shown.from["agg"] = o["agg"] /\ o["agg"] \in Version

LEMMA FailedSound ==
  ASSUME NEW p \in Page, NEW o, NEW section \in Section,
         NEW error \in {"ok", "not_authorized", "unavailable", "not_found"},
         error # "ok",
         error = "not_authorized" => \E s \in LegsOf[p] : o[s] = "refused",
         error = "unavailable" => \E s \in LegsOf[p] : o[s] \in Failure,
         error = "not_found" => \E s \in LegsOf[p] : o[s] \in Version
  PROVE  Sound(p, o, section, Failed(error))
BY VersionAssumption DEF Sound, Failed, NoAnswer, SectionView, None, Failure, Waiting

LEMMA ShownSound ==
  ASSUME NEW p \in Page, NEW o, NEW section \in Section, NEW S \in SUBSET LegsOf[p],
         \A s \in S : o[s] \in Version \cup {None},
         \A s \in Needs[section] : s \in S /\ o[s] # None,
         section # "path" \/ o["circuits"] \notin Connected \/ ("agg" \in S /\ o["agg"] # None)
  PROVE  Sound(p, o, section, Shown(o, S))
<1>1. Needs[section] \subseteq Source
  BY SectionNames DEF Needs, Source, WfoSource, ProxySource
<1>2. None \notin Version
  BY VersionAssumption DEF None, Failure
<1>3. {"circuits", "agg"} \subseteq Source
  BY DEF Source, WfoSource, ProxySource
<1>4. section = "path" => "circuits" \in S
  BY DEF Needs
<1> QED BY <1>1, <1>2, <1>3, <1>4, LegsAreSources DEF Sound, Shown, SectionView

\* The two ways a list fails, None and an exception, under a guard: what is
\* guarded is sound if it is sound when none of the collected legs raised.
LEMMA GuardedSound ==
  ASSUME NEW p \in Page, NEW o, NEW section \in Section, NEW shown, NEW exception,
         exception \in Exception => \E s \in LegsOf[p] : o[s] = exception,
         exception \notin Exception => Sound(p, o, section, shown)
  PROVE  Sound(p, o, section, Guarded(exception, shown))
BY FailedSound DEF Guarded, Exception, Failure

\* First yields an exception of one of its two legs, or none of them raised.
LEMMA FirstException ==
  ASSUME NEW a, NEW b
  PROVE  /\ First(a, b) \in Exception => First(a, b) \in {a, b}
         /\ First(a, b) \notin Exception => a \notin Exception /\ b \notin Exception
BY DEF First

LEMMA ReconciledSound ==
  ASSUME NEW p \in Page, NEW o, NEW section \in Section,
         NEW a \in LegsOf[p], NEW b \in LegsOf[p], Needs[section] = {a, b}, section # "path",
         o[a] \in Version \cup {None}, o[b] \in Version \cup {None}
  PROVE  Sound(p, o, section, Reconciled(o, a, b))
<1>1. CASE None \in {o[a], o[b]}
  BY <1>1, FailedSound DEF Reconciled, Failure
<1>2. CASE None \notin {o[a], o[b]}
  BY <1>2, ShownSound DEF Reconciled
<1> QED BY <1>1, <1>2

LEMMA GetReconciledSound ==
  ASSUME NEW p \in Page, NEW o, Answered(p, o), NEW section \in Section,
         NEW a \in LegsOf[p], NEW b \in LegsOf[p], Needs[section] = {a, b}, section # "path"
  PROVE  Sound(p, o, section, GetReconciled(o, a, b))
<1> DEFINE e == First(o[a], o[b])
<1>1. e \in Exception => \E s \in LegsOf[p] : o[s] = e
  BY FirstException
<1>2. e \notin Exception => Sound(p, o, section, Reconciled(o, a, b))
  BY FirstException, ReconciledSound DEF Answered, Outcome, Failure
<1> QED BY <1>1, <1>2, GuardedSound DEF GetReconciled

LEMMA GetCircuitsSound ==
  ASSUME NEW p \in Page, NEW o, Answered(p, o), "circuits" \in LegsOf[p]
  PROVE  Sound(p, o, "circuits", GetCircuits(o))
<1> DEFINE shown == IF o["circuits"] = None THEN Failed("unavailable") ELSE Shown(o, {"circuits"})
<1>1. "circuits" \in Section /\ Needs["circuits"] = {"circuits"}
  BY SectionNames DEF Needs
<1>2. o["circuits"] \notin Exception => Sound(p, o, "circuits", shown)
  BY <1>1, FailedSound, ShownSound DEF Answered, Outcome, Failure
<1> QED BY <1>1, <1>2, GuardedSound DEF GetCircuits

LEMMA BuildSpectrumSound ==
  ASSUME NEW p \in Page, NEW o, NEW section \in {"spectrum", "crossed"},
         {"sdp", "agg", "circuits"} \subseteq LegsOf[p],
         \A s \in {"sdp", "agg", "circuits"} : o[s] \in Version \cup {None}
  PROVE  Sound(p, o, section, BuildSpectrum(o))
<1> DEFINE S == {"sdp", "agg", "circuits"}
<1>1. section \in Section /\ Needs[section] = S
  BY SectionNames DEF Needs
<1>2. CASE None \in {o["sdp"], o["agg"], o["circuits"]}
  BY <1>1, <1>2, FailedSound DEF BuildSpectrum, Failure
<1>3. CASE None \notin {o["sdp"], o["agg"], o["circuits"]}
  BY <1>1, <1>3, ShownSound DEF BuildSpectrum
<1> QED BY <1>2, <1>3

LEMMA BuildProvidersSound ==
  ASSUME NEW p \in Page, NEW o, NEW section \in {"providers", "provider"},
         {"upas", "dds_nsas"} \subseteq LegsOf[p],
         \A s \in {"upas", "dds_nsas"} : o[s] \in Version \cup {None}
  PROVE  Sound(p, o, section, BuildProviders(o))
<1>1. section \in Section /\ Needs[section] = {"upas"}
  BY SectionNames DEF Needs
<1>2. CASE o["upas"] = None
  BY <1>1, <1>2, FailedSound DEF BuildProviders, Failure
<1>3. CASE o["upas"] # None
  BY <1>1, <1>3, ShownSound DEF BuildProviders
<1> QED BY <1>2, <1>3

LEMMA GetProvidersSound ==
  ASSUME NEW p \in Page, NEW o, Answered(p, o), {"upas", "dds_nsas"} \subseteq LegsOf[p]
  PROVE  Sound(p, o, "providers", GetProviders(o))
<1> DEFINE e == First(o["upas"], o["dds_nsas"])
<1>1. "providers" \in Section
  BY SectionNames
<1>2. e \in Exception => \E s \in LegsOf[p] : o[s] = e
  BY FirstException
<1>3. e \notin Exception => Sound(p, o, "providers", BuildProviders(o))
  BY FirstException, BuildProvidersSound DEF Answered, Outcome, Failure
<1> QED BY <1>1, <1>2, <1>3, GuardedSound DEF GetProviders

\* Linking a section to the providers keeps it sound: the providers' answers
\* are added, and those the section needs are left alone.
LEMMA LinkProvidersSound ==
  ASSUME NEW p \in Page, NEW o, NEW section \in Section, NEW shown, NEW providers,
         Needs[section] \cap LegsOf["providers"] = {}, section # "path",
         Sound(p, o, section, shown), Sound(p, o, "providers", providers)
  PROVE  Sound(p, o, section, LinkProviders(shown, providers))
<1>1. CASE shown.error = "ok" /\ providers.error = "ok"
  <2> DEFINE linked == [s \in Source |-> IF s \in LegsOf["providers"]
                                         THEN providers.from[s] ELSE shown.from[s]]
  <2>1. LinkProviders(shown, providers) = [error |-> "ok", from |-> linked]
    BY <1>1 DEF LinkProviders, Sound, SectionView
  <2>2. linked \in [Source -> Version \cup {None}]
    BY DEF Sound, SectionView
  <2>3. Needs[section] \subseteq Source
    BY SectionNames DEF Needs, Source, WfoSource, ProxySource
  <2>4. \A s \in Needs[section] : linked[s] = shown.from[s]
    BY <2>3
  <2> HIDE DEF linked
  <2>5. [error |-> "ok", from |-> linked] \in SectionView
    BY <2>2 DEF SectionView
  <2>6. \A s \in Source : linked[s] \in {providers.from[s], shown.from[s]}
    BY DEF linked
  <2> QED BY <1>1, <2>1, <2>3, <2>4, <2>5, <2>6 DEF Sound
<1>2. CASE ~(shown.error = "ok" /\ providers.error = "ok")
  BY <1>2 DEF LinkProviders
<1> QED BY <1>1, <1>2

-----------------------------------------------------------------------------
\* Pages whose handler composes sections from accessors: every section is
\* sound, and one of them is shown.
SoundView(p, o, v) ==
  /\ DOMAIN v \subseteq Section /\ DOMAIN v # {}
  /\ \A section \in DOMAIN v : Sound(p, o, section, v[section])

\* safe() turns an exception into None and leaves every answer and refusal.
LEMMA SafeOutcome ==
  ASSUME NEW p \in Page, NEW o, Answered(p, o)
  PROVE  /\ Answered(p, SafeLegs(o))
         /\ \A s \in LegsOf[p] : SafeLegs(o)[s] \in Version \cup {None, "refused"}
BY LegsAreSources DEF Answered, Outcome, SafeLegs, Safe, Failure, Exception

\* What is sound of the outcomes safe() leaves is sound of the fetches' own.
LEMMA SafeSound ==
  ASSUME NEW p \in Page, NEW o, Answered(p, o), NEW section, NEW shown,
         Sound(p, SafeLegs(o), section, shown)
  PROVE  Sound(p, o, section, shown)
<1>1. \A s \in LegsOf[p] : /\ SafeLegs(o)[s] \in Version => SafeLegs(o)[s] = o[s]
                           /\ SafeLegs(o)[s] = "refused" => o[s] = "refused"
                           /\ SafeLegs(o)[s] \in Failure => o[s] \in Failure
  BY LegsAreSources, VersionAssumption DEF SafeLegs, Safe, Failure, Exception, None
<1>2. section = "path" /\ shown.error = "ok" /\ shown.from["circuits"] \in Connected
        => "agg" \in LegsOf[p] /\ SafeLegs(o)["agg"] \in Version
  BY VersionAssumption DEF Sound, Source, WfoSource, ProxySource
<1> QED BY <1>1, <1>2 DEF Sound

LEMMA StpSound ==
  ASSUME NEW o, Answered("stp", o)
  PROVE  SoundView("stp", o, StpDetail(o))
<1>1. "stp" \in Page /\ LegsOf["stp"] = {"stp", "dds_stps", "circuits", "sdp", "dds_sdps", "upas", "dds_nsas"}
  BY PageNames DEF LegsOf
<1>2. {"stps", "sdps", "circuits"} \subseteq Section
  BY SectionNames
<1>3. Needs["stps"] = {"stp", "dds_stps"} /\ Needs["sdps"] = {"sdp", "dds_sdps"}
  BY DEF Needs
<1> DEFINE stps == LinkProviders(GetReconciled(o, "stp", "dds_stps"), GetProviders(o))
<1>4. Sound("stp", o, "stps", stps)
  <2>1. Sound("stp", o, "stps", GetReconciled(o, "stp", "dds_stps"))
    BY <1>1, <1>2, <1>3, GetReconciledSound
  <2>2. Sound("stp", o, "providers", GetProviders(o))
    BY <1>1, GetProvidersSound
  <2>3. Needs["stps"] \cap LegsOf["providers"] = {}
    BY <1>3 DEF LegsOf
  <2> QED BY <1>1, <1>2, <2>1, <2>2, <2>3, LinkProvidersSound
<1>5. Sound("stp", o, "sdps", GetReconciled(o, "sdp", "dds_sdps"))
  BY <1>1, <1>2, <1>3, GetReconciledSound
<1>6. Sound("stp", o, "circuits", GetCircuits(o))
  BY <1>1, GetCircuitsSound
<1> HIDE DEF stps
<1>7. CASE stps.error # "ok"
  BY <1>2, <1>4, <1>7 DEF SoundView, StpDetail, GetStpDetail, stps
<1>8. CASE stps.error = "ok" /\ o["stp"] \notin Listed
  <2>1. o["stp"] \in Version
    BY <1>3, <1>4, <1>8 DEF Sound
  <2>2. Sound("stp", o, "stps", Failed("not_found"))
    BY <1>1, <1>2, <2>1, FailedSound
  <2> QED BY <1>2, <1>8, <2>2 DEF SoundView, StpDetail, GetStpDetail, stps
<1>9. CASE stps.error = "ok" /\ o["stp"] \in Listed
  BY <1>2, <1>4, <1>5, <1>6, <1>9 DEF SoundView, StpDetail, GetStpDetail, stps
<1> QED BY <1>7, <1>8, <1>9

LEMMA SdpSound ==
  ASSUME NEW o, Answered("sdp", o)
  PROVE  SoundView("sdp", o, SdpDetail(o))
<1>1. "sdp" \in Page /\ LegsOf["sdp"] = {"sdp", "dds_sdps", "agg", "circuits"}
  BY PageNames DEF LegsOf
<1>2. {"sdps", "spectrum"} \subseteq Section
  BY SectionNames
<1>3. Needs["sdps"] = {"sdp", "dds_sdps"}
  BY DEF Needs
<1> DEFINE e == SdpGuard(o)
           sdps == Guarded(e, Reconciled(o, "sdp", "dds_sdps"))
           spectrum == Guarded(e, BuildSpectrum(o))
<1>4. e \in Exception => \E s \in LegsOf["sdp"] : o[s] = e
  BY <1>1, FirstException DEF SdpGuard, First
<1>5. e \notin Exception => \A s \in LegsOf["sdp"] : o[s] \in Version \cup {None}
  BY <1>1 DEF SdpGuard, First, Answered, Outcome, Failure
<1> HIDE DEF e
<1>6. Sound("sdp", o, "sdps", sdps)
  BY <1>1, <1>2, <1>3, <1>4, <1>5, ReconciledSound, GuardedSound
<1>7. Sound("sdp", o, "spectrum", spectrum)
  BY <1>1, <1>2, <1>4, <1>5, BuildSpectrumSound, GuardedSound
<1> HIDE DEF sdps, spectrum
<1>8. CASE sdps.error # "ok"
  BY <1>2, <1>6, <1>8 DEF SoundView, SdpDetail, GetSdpDetail, sdps, e
<1>9. CASE sdps.error = "ok" /\ o["sdp"] \notin Listed
  <2>1. o["sdp"] \in Version
    BY <1>3, <1>6, <1>9 DEF Sound
  <2>2. Sound("sdp", o, "sdps", Failed("not_found"))
    BY <1>1, <1>2, <2>1, FailedSound
  <2> QED BY <1>2, <1>9, <2>2 DEF SoundView, SdpDetail, GetSdpDetail, sdps, e
<1>10. CASE sdps.error = "ok" /\ o["sdp"] \in Listed
  BY <1>2, <1>6, <1>7, <1>10 DEF SoundView, SdpDetail, GetSdpDetail, sdps, spectrum, e
<1> QED BY <1>8, <1>9, <1>10

LEMMA ProviderSound ==
  ASSUME NEW o, Answered("provider", o)
  PROVE  SoundView("provider", o, ProviderDetail(o))
<1>1. "provider" \in Page /\ LegsOf["provider"] = {"upas", "dds_nsas", "reservations", "circuits", "stp"}
  BY PageNames DEF LegsOf
<1>2. {"provider", "reservations"} \subseteq Section
  BY SectionNames
<1>3. Needs["provider"] = {"upas"} /\ Needs["reservations"] = {"reservations"}
  BY DEF Needs
<1> DEFINE e == ProviderGuard(o)
           provider == Guarded(e, BuildProviders(o))
           reservations == IF o["reservations"] = None THEN Failed("unavailable")
                           ELSE Shown(o, {"reservations", "circuits", "stp"})
<1>4. e \in Exception => \E s \in LegsOf["provider"] : o[s] = e
  BY <1>1, FirstException DEF ProviderGuard, First
<1>5. e \notin Exception => \A s \in LegsOf["provider"] : o[s] \in Version \cup {None}
  BY <1>1 DEF ProviderGuard, First, Answered, Outcome, Failure
<1> HIDE DEF e
<1>6. Sound("provider", o, "provider", provider)
  BY <1>1, <1>2, <1>4, <1>5, BuildProvidersSound, GuardedSound
<1>7. provider.error = "ok" => e \notin Exception
  BY DEF Guarded, Failed, Exception
<1>8. provider.error = "ok" => Sound("provider", o, "reservations", reservations)
  BY <1>1, <1>2, <1>3, <1>5, <1>7, FailedSound, ShownSound DEF Failure
<1> HIDE DEF provider, reservations
<1>9. CASE provider.error # "ok"
  BY <1>2, <1>6, <1>9 DEF SoundView, ProviderDetail, GetProviderDetail, provider, e
<1>10. CASE provider.error = "ok" /\ o["upas"] \notin Listed
  <2>1. o["upas"] \in Version
    BY <1>3, <1>6, <1>10 DEF Sound
  <2>2. Sound("provider", o, "provider", Failed("not_found"))
    BY <1>1, <1>2, <2>1, FailedSound
  <2> QED BY <1>2, <1>10, <2>2 DEF SoundView, ProviderDetail, GetProviderDetail, provider, e
<1>11. CASE provider.error = "ok" /\ o["upas"] \in Listed
  BY <1>2, <1>6, <1>8, <1>11 DEF SoundView, ProviderDetail, GetProviderDetail, provider, reservations, e
<1> QED BY <1>9, <1>10, <1>11

\* Under safe() only a refusal is left to raise.
LEMMA CircuitSound ==
  ASSUME NEW o, \A s \in LegsOf["circuit"] : o[s] \in Version \cup {None, "refused"},
         o["agg"] # "refused"
  PROVE  SoundView("circuit", o, CircuitDetail(o))
<1>1. "circuit" \in Page /\ LegsOf["circuit"] = {"circuits", "sdp", "stp", "agg"}
  BY PageNames DEF LegsOf
<1>2. {"circuit", "path", "crossed"} \subseteq Section
  BY SectionNames
<1>3. Needs["circuit"] = {"circuits"} /\ Needs["path"] = {"circuits"}
  BY DEF Needs
<1>4. "raised" \notin Version /\ "refused" \notin Version /\ None \notin Version
  BY VersionAssumption DEF Failure, Exception
<1>5. CASE CircuitGuard(o) = "refused"
  <2>1. \E s \in LegsOf["circuit"] : o[s] = "refused"
    BY <1>1, <1>5 DEF CircuitGuard, First
  <2> QED BY <1>1, <1>2, <1>5, <2>1, FailedSound DEF SoundView, CircuitDetail
<1>6. CASE CircuitGuard(o) # "refused"
  <2>1. \A s \in LegsOf["circuit"] : o[s] \in Version \cup {None}
    BY <1>1, <1>4, <1>6 DEF CircuitGuard, First, Exception, None
  <2>2. CASE o["circuits"] = None
    <3>1. Sound("circuit", o, "circuit", Failed("unavailable"))
      BY <1>1, <1>2, <2>2, FailedSound DEF Failure
    <3> QED BY <1>2, <1>6, <2>2, <3>1 DEF SoundView, CircuitDetail
  <2>3. CASE o["circuits"] # None /\ o["circuits"] \notin Listed
    <3>1. Sound("circuit", o, "circuit", Failed("not_found"))
      BY <1>1, <1>2, <2>1, <2>3, FailedSound
    <3> QED BY <1>2, <1>6, <2>3, <3>1 DEF SoundView, CircuitDetail
  <2>4. CASE o["circuits"] \in Listed
    <3>1. o["circuits"] # None
      BY <1>4, <2>4, VersionAssumption
    <3>2. Sound("circuit", o, "circuit", Shown(o, {"circuits"}))
      BY <1>1, <1>2, <1>3, <2>1, <3>1, ShownSound
    <3>3. Sound("circuit", o, "path", PathOf(o))
      <4>1. CASE o["circuits"] \notin Connected
        BY <1>1, <1>2, <1>3, <2>1, <3>1, <4>1, ShownSound DEF PathOf
      <4>2. CASE o["circuits"] \in Connected /\ o["agg"] = None
        BY <1>1, <1>2, <4>2, FailedSound DEF PathOf, Failure
      <4>3. CASE o["circuits"] \in Connected /\ o["agg"] # None
        BY <1>1, <1>2, <1>3, <2>1, <3>1, <4>3, ShownSound DEF PathOf
      <4> QED BY <4>1, <4>2, <4>3
    <3>4. Sound("circuit", o, "crossed", BuildSpectrum(o))
      BY <1>1, <2>1, BuildSpectrumSound
    <3> QED BY <1>2, <1>6, <2>4, <3>1, <3>2, <3>3, <3>4 DEF SoundView, CircuitDetail
  <2> QED BY <2>2, <2>3, <2>4
<1> QED BY <1>5, <1>6

LEMMA HomeSound ==
  ASSUME NEW o, \A s \in LegsOf["home"] : o[s] \in Version \cup {None, "refused"},
         \A s \in ProxySource : o[s] # "refused"
  PROVE  SoundView("home", o, Home(o))
<1>1. "home" \in Page /\ LegsOf["home"] = WfoSource \cup {"dds_topos", "dds_ss", "dds_stps", "dds_sdps", "agg"}
  BY PageNames DEF LegsOf
<1>2. {"dashboard", "circuits", "topologies", "switching_services", "stps", "sdps", "spectrum",
       "validation"} \subseteq Section
  BY SectionNames
<1>3. CASE HomeGuard(o) = "refused"
  <2>1. \E s \in LegsOf["home"] : o[s] = "refused"
    BY <1>1, <1>3 DEF HomeGuard, First, WfoSource
  <2>2. Sound("home", o, "dashboard", Failed("not_authorized"))
    BY <1>1, <1>2, <2>1, FailedSound
  <2> QED BY <1>2, <1>3, <2>2 DEF SoundView, Home
<1>4. CASE HomeGuard(o) # "refused"
  <2>1. \A s \in LegsOf["home"] : o[s] \in Version \cup {None}
    <3>3. \A s \in WfoSource : o[s] # "raised"
      BY <1>1, VersionAssumption DEF Failure, Exception, None
    <3>1. \A s \in WfoSource : o[s] # "refused"
      BY <1>4, <3>3 DEF HomeGuard, First, Exception, WfoSource
    <3>2. \A s \in LegsOf["home"] : s \in WfoSource \cup ProxySource
      BY <1>1 DEF ProxySource
    <3> QED BY <3>1, <3>2
  <2>2. Answered("home", o)
    BY <2>1 DEF Answered, Outcome, Failure
  <2>3. Sound("home", o, "circuits", GetCircuits(o))
    BY <1>1, <2>2, GetCircuitsSound DEF WfoSource
  <2>4. Sound("home", o, "topologies", Reconciled(o, "topo", "dds_topos"))
    BY <1>1, <1>2, <2>1, ReconciledSound DEF Needs, WfoSource
  <2>5. Sound("home", o, "switching_services", Reconciled(o, "ss", "dds_ss"))
    BY <1>1, <1>2, <2>1, ReconciledSound DEF Needs, WfoSource
  <2>6. Sound("home", o, "stps", Reconciled(o, "stp", "dds_stps"))
    BY <1>1, <1>2, <2>1, ReconciledSound DEF Needs, WfoSource
  <2>7. Sound("home", o, "sdps", Reconciled(o, "sdp", "dds_sdps"))
    BY <1>1, <1>2, <2>1, ReconciledSound DEF Needs, WfoSource
  <2>8. Sound("home", o, "spectrum", BuildSpectrum(o))
    BY <1>1, <2>1, BuildSpectrumSound DEF WfoSource
  <2>9. Sound("home", o, "validation", IF o["failures"] = None THEN Failed("unavailable")
                                                              ELSE Shown(o, {"failures"}))
    <3>1. "failures" \in LegsOf["home"] /\ Needs["validation"] = {"failures"}
      BY <1>1 DEF Needs, WfoSource
    <3> QED BY <1>1, <1>2, <2>1, <3>1, FailedSound, ShownSound DEF Failure
  <2> QED BY <1>2, <1>4, <2>3, <2>4, <2>5, <2>6, <2>7, <2>8, <2>9 DEF SoundView, Home
<1> QED BY <1>3, <1>4

\* Every page shows sound sections, whatever its legs did; the proxies do not
\* refuse, since they see AMISS's own identity.
LEMMA HandleSound ==
  ASSUME NEW p \in Page, NEW o, Answered(p, o),
         \A s \in ProxySource : o[s] # "refused"
  PROVE  SoundView(p, o, Handle(p, o))
<1> DEFINE safe == SafeLegs(o)
<1>1. \A s \in LegsOf[p] : safe[s] \in Version \cup {None, "refused"}
  BY SafeOutcome
<1>2. \A s \in ProxySource : safe[s] # "refused"
  BY DEF SafeLegs, Safe, Source, None
<1> HIDE DEF safe
<1>3. \A v : SoundView(p, safe, v) => SoundView(p, o, v)
  BY SafeSound DEF SoundView, safe
<1>4. CASE p = "home"
  <2>1. SoundView(p, safe, Home(safe))
    BY <1>1, <1>2, <1>4, HomeSound
  <2> QED BY <1>3, <1>4, <2>1 DEF Handle, safe
<1>5. CASE p = "circuit"
  <2>1. safe["agg"] # "refused"
    BY <1>2 DEF ProxySource
  <2>2. SoundView(p, safe, CircuitDetail(safe))
    BY <1>1, <1>5, <2>1, CircuitSound
  <2> QED BY <1>3, <1>5, <2>2 DEF Handle, safe
<1>6. CASE p = "circuits"
  <2>1. Sound(p, o, "circuits", GetCircuits(o)) /\ "circuits" \in Section
    BY <1>6, GetCircuitsSound, SectionNames DEF LegsOf
  <2> QED BY <1>6, <2>1 DEF Handle, SoundView
<1>7. CASE p = "topologies"
  <2>1. "topologies" \in Section /\ Needs["topologies"] = {"topo", "dds_topos"}
    BY SectionNames DEF Needs
  <2>2. LegsOf[p] = {"topo", "dds_topos", "upas", "dds_nsas"} /\ LegsOf["providers"] = {"upas", "dds_nsas"}
    BY <1>7 DEF LegsOf
  <2>3. Sound(p, o, "topologies", GetReconciled(o, "topo", "dds_topos"))
    BY <2>1, <2>2, GetReconciledSound
  <2>4. Sound(p, o, "providers", GetProviders(o))
    BY <2>2, GetProvidersSound
  <2>5. Sound(p, o, "topologies", GetTopologies(o))
    BY <2>1, <2>2, <2>3, <2>4, LinkProvidersSound DEF GetTopologies
  <2> QED BY <1>7, <2>1, <2>5 DEF Handle, SoundView
<1>8. CASE p = "switching_services"
  <2>1. Sound(p, o, "switching_services", GetReconciled(o, "ss", "dds_ss")) /\ "switching_services" \in Section
    BY <1>8, GetReconciledSound, SectionNames DEF LegsOf, Needs
  <2> QED BY <1>8, <2>1 DEF Handle, SoundView
<1>9. CASE p = "stps"
  <2>1. Sound(p, o, "stps", GetReconciled(o, "stp", "dds_stps")) /\ "stps" \in Section
    BY <1>9, GetReconciledSound, SectionNames DEF LegsOf, Needs
  <2> QED BY <1>9, <2>1 DEF Handle, SoundView
<1>10. CASE p = "sdps"
  <2>1. Sound(p, o, "sdps", GetReconciled(o, "sdp", "dds_sdps")) /\ "sdps" \in Section
    BY <1>10, GetReconciledSound, SectionNames DEF LegsOf, Needs
  <2> QED BY <1>10, <2>1 DEF Handle, SoundView
<1>11. CASE p = "spectrum"
  <2> DEFINE e == First(o["sdp"], First(o["agg"], o["circuits"]))
  <2>1. "spectrum" \in Section /\ LegsOf[p] = {"sdp", "agg", "circuits"}
    BY <1>11, SectionNames DEF LegsOf
  <2>2. e \in Exception => \E s \in LegsOf[p] : o[s] = e
    BY <2>1 DEF First
  <2>3. e \notin Exception => \A s \in LegsOf[p] : o[s] \in Version \cup {None}
    BY <2>1 DEF First, Answered, Outcome, Failure
  <2> HIDE DEF e
  <2>4. Sound(p, o, "spectrum", Guarded(e, BuildSpectrum(o)))
    BY <2>1, <2>2, <2>3, BuildSpectrumSound, GuardedSound
  <2> QED BY <1>11, <2>1, <2>4 DEF Handle, SoundView, GetSpectrum, e
<1>12. CASE p = "providers"
  <2>1. Sound(p, o, "providers", GetProviders(o)) /\ "providers" \in Section
    BY <1>12, GetProvidersSound, SectionNames DEF LegsOf
  <2> QED BY <1>12, <2>1 DEF Handle, SoundView
<1>13. CASE p \in {"stp", "sdp", "provider"}
  BY <1>13, StpSound, SdpSound, ProviderSound DEF Handle
<1> QED BY <1>4, <1>5, <1>6, <1>7, <1>8, <1>9, <1>10, <1>11, <1>12, <1>13, PageNames

\* safe() leaves nothing for the unguarded result() calls to raise.
LEMMA NothingEscapes ==
  ASSUME NEW p \in Page, NEW o, Answered(p, o),
         \A s \in ProxySource : o[s] # "refused"
  PROVE  ~Escapes(p, o)
<1> DEFINE safe == SafeLegs(o)
<1>1. \A s \in LegsOf[p] : safe[s] \in Version \cup {None, "refused"}
  BY SafeOutcome
<1>2. \A s \in LegsOf[p] : safe[s] # "raised"
  BY <1>1, VersionAssumption DEF Failure, Exception, None
<1>3. \A s \in ProxySource : safe[s] # "refused"
  BY DEF SafeLegs, Safe, Source, None
<1> HIDE DEF safe
<1>4. p = "home" => HomeGuard(safe) # "raised" /\ \A s \in LegsOf["home"] \cap ProxySource : safe[s] \notin Exception
  <2>1. WfoSource \subseteq LegsOf["home"]
    BY DEF LegsOf
  <2> QED BY <1>2, <1>3, <2>1 DEF HomeGuard, First, Exception, WfoSource
<1>5. p = "circuit" => CircuitGuard(safe) # "raised" /\ safe["agg"] \notin Exception
  BY <1>2, <1>3 DEF CircuitGuard, First, Exception, LegsOf, ProxySource
<1> QED BY <1>4, <1>5 DEF Escapes, safe

-----------------------------------------------------------------------------
\* The inductive invariant. A leg's answer is a content its upstream held
\* during the request, the legs asked are those of the page, and only the
\* orchestrator refuses.
AnswersHeld == \A s \in Source : legs[s] \in Version => legs[s] \in held[s]
WorldHeld == status = "asking" => \A s \in Source : world[s] \in held[s]
LegsAsked ==
  \A s \in Source : legs[s] = "unasked" <=> (status = "idle" \/ s \notin LegsOf[page])
PendingAsked == \A s \in Source : legs[s] = "pending" => status = "asking"
ProxiesAccept == \A s \in ProxySource : legs[s] # "refused"

IInv ==
  /\ TypeOK
  /\ AnswersHeld /\ WorldHeld
  /\ LegsAsked /\ PendingAsked
  /\ ProxiesAccept
  /\ NoServerError

\* When no leg is pending, the legs of the page all have an outcome.
LEMMA LegsAnswered ==
  ASSUME IInv, status = "asking", \A s \in Source : legs[s] # "pending"
  PROVE  Answered(page, legs)
BY LegsAreSources DEF IInv, TypeOK, LegsAsked, Answered, Outcome, Waiting

\* No section is composed while nothing is shown.
LEMMA NoViewEmpty == DOMAIN NoView = {}
BY DEF NoView

LEMMA InitInv == Init => IInv
<1> SUFFICES ASSUME Init PROVE IInv
  OBVIOUS
<1>1. TypeOK
  BY NoViewEmpty DEF Init, TypeOK, Waiting
<1>2. "unasked" \notin Version
  BY VersionAssumption DEF Waiting
<1> QED BY <1>1, <1>2 DEF Init, IInv, AnswersHeld, WorldHeld, LegsAsked, PendingAsked,
                        ProxiesAccept, NoServerError, Source

LEMMA ChangeInv ==
  ASSUME IInv, NEW s \in Source, NEW v \in Version, Change(s, v)
  PROVE  IInv'
<1>1. TypeOK'
  BY DEF IInv, TypeOK, Change, SectionView
<1>2. AnswersHeld' /\ WorldHeld'
  BY DEF IInv, TypeOK, AnswersHeld, WorldHeld, Change
<1> QED BY <1>1, <1>2 DEF IInv, LegsAsked, PendingAsked, ProxiesAccept, NoServerError, Change

LEMMA RequestInv ==
  ASSUME IInv, NEW p \in Page, Request(p)
  PROVE  IInv'
<1>1. TypeOK'
  BY NoViewEmpty DEF IInv, TypeOK, Request, Waiting
<1>2. AnswersHeld' /\ WorldHeld'
  BY VersionAssumption DEF IInv, TypeOK, AnswersHeld, WorldHeld, Request, Waiting
<1>3. LegsAsked' /\ PendingAsked' /\ ProxiesAccept' /\ NoServerError'
  BY DEF IInv, LegsAsked, PendingAsked, ProxiesAccept, NoServerError, Request, Source
<1> QED BY <1>1, <1>2, <1>3 DEF IInv

LEMMA AnswerInv ==
  ASSUME IInv, NEW s \in Source, Answer(s)
  PROVE  IInv'
<1>1. PICK o \in {world[s], None, "raised"} \cup (IF s \in WfoSource THEN {"refused"} ELSE {}) :
        legs' = [legs EXCEPT ![s] = o]
  BY DEF Answer
<1>2. /\ o \in Version \cup Failure
      /\ o \in Version => o = world[s]
      /\ o = "refused" => s \in WfoSource
  BY VersionAssumption DEF IInv, TypeOK, Failure, Exception, None
<1>3. o \notin Waiting
  BY <1>2, VersionAssumption DEF Failure, Exception, None, Waiting
<1>4. UNCHANGED <<world, page, status, held, view>> /\ legs[s] = "pending" /\ status = "asking"
  BY DEF Answer, IInv, PendingAsked
<1>5. TypeOK'
  BY <1>1, <1>2, <1>4 DEF IInv, TypeOK
<1>6. AnswersHeld' /\ WorldHeld'
  BY <1>1, <1>2, <1>4 DEF IInv, TypeOK, AnswersHeld, WorldHeld
<1>7. LegsAsked' /\ PendingAsked'
  BY <1>1, <1>3, <1>4 DEF IInv, TypeOK, LegsAsked, PendingAsked, Waiting
<1>8. ProxiesAccept'
  <2>1. WfoSource \cap ProxySource = {}
    BY DEF WfoSource, ProxySource
  <2> QED BY <1>1, <1>2, <2>1 DEF IInv, TypeOK, ProxiesAccept, Source
<1> QED BY <1>4, <1>5, <1>6, <1>7, <1>8 DEF IInv, NoServerError

LEMMA RespondInv ==
  ASSUME IInv, Respond
  PROVE  IInv' /\ status' = "answered" /\ view' = Handle(page, legs) /\ SoundView(page, legs, view')
<1>1. page \in Page /\ Answered(page, legs) /\ \A s \in ProxySource : legs[s] # "refused"
  BY LegsAnswered DEF Respond, IInv, TypeOK, ProxiesAccept
<1>2. ~Escapes(page, legs)
  BY <1>1, NothingEscapes
<1>3. status' = "answered" /\ view' = Handle(page, legs)
  BY <1>2 DEF Respond
<1>4. SoundView(page, legs, view')
  BY <1>1, <1>3, HandleSound
<1>5. TypeOK'
  BY <1>3, <1>4 DEF IInv, TypeOK, Respond, SoundView, Sound, SectionView
<1> QED BY <1>3, <1>4, <1>5 DEF Respond, IInv, AnswersHeld, WorldHeld, LegsAsked, PendingAsked,
                              ProxiesAccept, NoServerError

LEMMA NextInv == IInv /\ [Next]_vars => IInv'
<1> SUFFICES ASSUME IInv, [Next]_vars PROVE IInv'
  OBVIOUS
<1>1. ASSUME NEW s \in Source, NEW v \in Version, Change(s, v) PROVE IInv'
  BY <1>1, ChangeInv
<1>2. ASSUME NEW p \in Page, Request(p) PROVE IInv'
  BY <1>2, RequestInv
<1>3. ASSUME NEW s \in Source, Answer(s) PROVE IInv'
  BY <1>3, AnswerInv
<1>4. CASE Respond
  BY <1>4, RespondInv
<1>5. CASE UNCHANGED vars
  BY <1>5 DEF vars, IInv, TypeOK, AnswersHeld, WorldHeld, LegsAsked, PendingAsked,
              ProxiesAccept, NoServerError, SectionView
<1> QED BY <1>1, <1>2, <1>3, <1>4, <1>5 DEF Next

LEMMA Invariance == Spec => []IInv
<1> QED BY InitInv, NextInv, PTL DEF Spec

\* Type correctness: every leg outcome and every section is well formed.
THEOREM TypeCorrect == Spec => []TypeOK
<1>1. IInv => TypeOK
  BY DEF IInv
<1> QED BY <1>1, Invariance, PTL

\* No combination of failing legs makes any page answer with a server error.
THEOREM NeverServerError == Spec => []NoServerError
<1>1. IInv => NoServerError
  BY DEF IInv
<1> QED BY <1>1, Invariance, PTL

-----------------------------------------------------------------------------
\* A refusal is reported: first by every section on its own, then by the pages
\* whose legs run under safe().
Reports(p, o, section, shown) ==
  /\ \E s \in Needs[section] : o[s] = "refused"
  /\ \A s \in LegsOf[p] : o[s] # "raised"
  => shown.error = "not_authorized"

\* The first exception of two legs of which one was refused and none raised.
LEMMA FirstRefused ==
  ASSUME NEW a, NEW b, a # "raised", b # "raised", a = "refused" \/ b = "refused"
  PROVE  First(a, b) = "refused"
BY DEF First, Exception

LEMMA GuardedRefused == \A shown : Guarded("refused", shown).error = "not_authorized"
BY DEF Guarded, Failed

LEMMA GetReconciledReports ==
  ASSUME NEW p \in Page, NEW o, NEW section,
         NEW a \in LegsOf[p], NEW b \in LegsOf[p], Needs[section] = {a, b}
  PROVE  Reports(p, o, section, GetReconciled(o, a, b))
BY FirstRefused, GuardedRefused DEF Reports, GetReconciled

LEMMA GetCircuitsReports ==
  ASSUME NEW p \in Page, NEW o
  PROVE  Reports(p, o, "circuits", GetCircuits(o))
BY GuardedRefused DEF Reports, GetCircuits, Needs

\* The links of a row leave its error alone.
LEMMA LinkProvidersReports ==
  ASSUME NEW p, NEW o, NEW section, NEW shown, NEW providers,
         Reports(p, o, section, shown)
  PROVE  Reports(p, o, section, LinkProviders(shown, providers))
BY DEF Reports, LinkProviders

\* A proxy's source is never refused, so the sections that need only proxies
\* have nothing to report.
LEMMA ProxyReports ==
  ASSUME NEW p, NEW o, NEW section, NEW shown,
         \A s \in ProxySource : o[s] # "refused", Needs[section] \subseteq ProxySource
  PROVE  Reports(p, o, section, shown)
BY DEF Reports

AllReport(p, o, v) == \A section \in DOMAIN v : Reports(p, o, section, v[section])

LEMMA StpReports ==
  ASSUME NEW o, Answered("stp", o)
  PROVE  AllReport("stp", o, StpDetail(o))
<1>1. "stp" \in Page /\ {"stp", "dds_stps", "sdp", "dds_sdps"} \subseteq LegsOf["stp"]
  BY PageNames DEF LegsOf
<1>2. Needs["stps"] = {"stp", "dds_stps"} /\ Needs["sdps"] = {"sdp", "dds_sdps"}
  BY DEF Needs
<1> DEFINE stps == LinkProviders(GetReconciled(o, "stp", "dds_stps"), GetProviders(o))
<1>3. Reports("stp", o, "stps", stps)
  BY <1>1, <1>2, GetReconciledReports, LinkProvidersReports
<1>4. Reports("stp", o, "circuits", GetCircuits(o))
  BY <1>1, GetCircuitsReports
<1>5. Reports("stp", o, "sdps", GetReconciled(o, "sdp", "dds_sdps"))
  BY <1>1, <1>2, GetReconciledReports
<1> HIDE DEF stps
<1>6. CASE stps.error # "ok"
  BY <1>3, <1>6 DEF AllReport, StpDetail, GetStpDetail, stps
<1>7. CASE stps.error = "ok" /\ o["stp"] \notin Listed
  <2>1. Reports("stp", o, "stps", Failed("not_found"))
    BY <1>3, <1>7 DEF Reports
  <2> QED BY <1>7, <2>1 DEF AllReport, StpDetail, GetStpDetail, stps
<1>8. CASE stps.error = "ok" /\ o["stp"] \in Listed
  BY <1>3, <1>4, <1>5, <1>8 DEF AllReport, StpDetail, GetStpDetail, stps
<1> QED BY <1>6, <1>7, <1>8

LEMMA SdpReports ==
  ASSUME NEW o, Answered("sdp", o)
  PROVE  AllReport("sdp", o, SdpDetail(o))
<1>1. Needs["sdps"] = {"sdp", "dds_sdps"} /\ Needs["spectrum"] = {"sdp", "agg", "circuits"}
  BY DEF Needs
<1>2. LegsOf["sdp"] = {"sdp", "dds_sdps", "agg", "circuits"}
  BY DEF LegsOf
<1>3. (\A s \in LegsOf["sdp"] : o[s] # "raised") /\ (\E s \in LegsOf["sdp"] : o[s] = "refused")
        => SdpGuard(o) = "refused"
  BY <1>2 DEF SdpGuard, First, Exception
<1>4. \A shown : /\ Reports("sdp", o, "sdps", Guarded(SdpGuard(o), shown))
                 /\ Reports("sdp", o, "spectrum", Guarded(SdpGuard(o), shown))
  BY <1>1, <1>2, <1>3, GuardedRefused DEF Reports
<1> DEFINE sdps == Guarded(SdpGuard(o), Reconciled(o, "sdp", "dds_sdps"))
           spectrum == Guarded(SdpGuard(o), BuildSpectrum(o))
<1>5. Reports("sdp", o, "sdps", sdps) /\ Reports("sdp", o, "spectrum", spectrum)
  BY <1>4
<1> HIDE DEF sdps, spectrum
<1>6. CASE sdps.error # "ok"
  BY <1>5, <1>6 DEF AllReport, SdpDetail, GetSdpDetail, sdps
<1>7. CASE sdps.error = "ok" /\ o["sdp"] \notin Listed
  <2>1. Reports("sdp", o, "sdps", Failed("not_found"))
    BY <1>5, <1>7 DEF Reports
  <2> QED BY <1>7, <2>1 DEF AllReport, SdpDetail, GetSdpDetail, sdps
<1>8. CASE sdps.error = "ok" /\ o["sdp"] \in Listed
  BY <1>5, <1>8 DEF AllReport, SdpDetail, GetSdpDetail, sdps, spectrum
<1> QED BY <1>6, <1>7, <1>8

LEMMA HandleReports ==
  ASSUME NEW p \in Page \ {"home", "circuit"}, NEW o, Answered(p, o),
         \A s \in ProxySource : o[s] # "refused"
  PROVE  AllReport(p, o, Handle(p, o))
<1>1. CASE p = "circuits"
  BY <1>1, GetCircuitsReports DEF Handle, AllReport
<1>2. CASE p = "topologies"
  <2>1. Needs["topologies"] = {"topo", "dds_topos"} /\ {"topo", "dds_topos"} \subseteq LegsOf[p]
    BY <1>2 DEF Needs, LegsOf
  <2>2. Reports(p, o, "topologies", GetTopologies(o))
    BY <2>1, GetReconciledReports, LinkProvidersReports DEF GetTopologies
  <2> QED BY <1>2, <2>2 DEF Handle, AllReport
<1>3. CASE p = "switching_services"
  <2>1. Reports(p, o, "switching_services", GetReconciled(o, "ss", "dds_ss"))
    BY <1>3, GetReconciledReports DEF LegsOf, Needs
  <2> QED BY <1>3, <2>1 DEF Handle, AllReport
<1>4. CASE p = "stps"
  <2>1. Reports(p, o, "stps", GetReconciled(o, "stp", "dds_stps"))
    BY <1>4, GetReconciledReports DEF LegsOf, Needs
  <2> QED BY <1>4, <2>1 DEF Handle, AllReport
<1>5. CASE p = "sdps"
  <2>1. Reports(p, o, "sdps", GetReconciled(o, "sdp", "dds_sdps"))
    BY <1>5, GetReconciledReports DEF LegsOf, Needs
  <2> QED BY <1>5, <2>1 DEF Handle, AllReport
<1>6. CASE p = "spectrum"
  <2>1. LegsOf[p] = {"sdp", "agg", "circuits"} /\ Needs["spectrum"] = {"sdp", "agg", "circuits"}
    BY <1>6 DEF LegsOf, Needs
  <2>2. Reports(p, o, "spectrum", GetSpectrum(o))
    BY <2>1, FirstRefused, GuardedRefused DEF Reports, GetSpectrum, First, Exception
  <2> QED BY <1>6, <2>2 DEF Handle, AllReport
<1>7. CASE p \in {"providers", "provider"}
  <2>1. \A section \in {"providers", "provider", "reservations"} : Needs[section] \subseteq ProxySource
    BY DEF Needs, ProxySource
  <2>2. DOMAIN Handle(p, o) \subseteq {"providers", "provider", "reservations"}
    BY <1>7 DEF Handle, ProviderDetail, GetProviderDetail
  <2> QED BY <2>1, <2>2, ProxyReports DEF AllReport
<1>8. CASE p \in {"stp", "sdp"}
  BY <1>8, StpReports, SdpReports DEF Handle
<1> QED BY <1>1, <1>2, <1>3, <1>4, <1>5, <1>6, <1>7, <1>8, PageNames

\* The dashboard and the page of a circuit: whatever else failed, one refused
\* leg is reported by everything that is shown.
LEMMA SafeReports ==
  ASSUME NEW p \in {"home", "circuit"}, NEW o, Answered(p, o),
         \A s \in ProxySource : o[s] # "refused",
         \E s \in LegsOf[p] : o[s] = "refused"
  PROVE  \A section \in DOMAIN Handle(p, o) : Handle(p, o)[section].error = "not_authorized"
<1> DEFINE safe == SafeLegs(o)
<1>1. p \in Page
  BY PageNames
<1>2. PICK r \in LegsOf[p] : o[r] = "refused"
  OBVIOUS
<1>3. r \in WfoSource
  BY <1>1, <1>2, LegsAreSources DEF Source
<1>4. \A s \in LegsOf[p] : safe[s] # "raised"
  BY <1>1, SafeOutcome, VersionAssumption DEF Failure, Exception, None
<1>5. safe[r] = "refused"
  BY <1>2, <1>3 DEF SafeLegs, Safe, Source
<1> HIDE DEF safe
<1>6. Failed("not_authorized").error = "not_authorized"
  BY DEF Failed
<1>7. CASE p = "home"
  <2>1. HomeGuard(safe) = "refused"
    BY <1>2, <1>3, <1>4, <1>5, <1>7 DEF HomeGuard, First, Exception, LegsOf, WfoSource
  <2>2. Handle(p, o) = [dashboard |-> Failed("not_authorized")]
    BY <1>7, <2>1 DEF Handle, Home, safe
  <2> QED BY <1>6, <2>2
<1>8. CASE p = "circuit"
  <2>1. CircuitGuard(safe) = "refused"
    BY <1>2, <1>3, <1>4, <1>5, <1>8 DEF CircuitGuard, First, Exception, LegsOf, WfoSource
  <2>2. Handle(p, o) = [circuit |-> Failed("not_authorized")]
    BY <1>8, <2>1 DEF Handle, CircuitDetail, safe
  <2> QED BY <1>6, <2>2
<1> QED BY <1>7, <1>8

\* Their sections need no source the page does not ask.
LEMMA SafeNeeds ==
  ASSUME NEW p \in {"home", "circuit"}, NEW o
  PROVE  \A section \in DOMAIN Handle(p, o) : Needs[section] \subseteq LegsOf[p]
<1>1. CASE p = "home"
  <2>1. DOMAIN Handle(p, o) \subseteq {"dashboard", "circuits", "topologies", "switching_services",
                                     "stps", "sdps", "spectrum", "validation"}
    BY <1>1 DEF Handle, Home
  <2>2. \A section \in {"dashboard", "circuits", "topologies", "switching_services",
                        "stps", "sdps", "spectrum", "validation"} : Needs[section] \subseteq LegsOf["home"]
    BY DEF Needs, LegsOf, WfoSource
  <2> QED BY <1>1, <2>1, <2>2
<1>2. CASE p = "circuit"
  <2>1. DOMAIN Handle(p, o) \subseteq {"circuit", "path", "crossed"}
    BY <1>2 DEF Handle, CircuitDetail
  <2>2. \A section \in {"circuit", "path", "crossed"} : Needs[section] \subseteq LegsOf["circuit"]
    BY DEF Needs, LegsOf
  <2> QED BY <1>2, <2>1, <2>2
<1> QED BY <1>1, <1>2

\* A refused credential never reads as an outage: query_wfo raises, safe() lets
\* the refusal through, and every guard turns it into NOT_AUTHORIZED.
THEOREM RefusalIsReported == Spec => []RefusalReported
<1> DEFINE RInv == IInv /\ RefusalReported
<1>1. Init => RInv
  BY InitInv DEF Init, RefusalReported
<1>2. RInv /\ [Next]_vars => RInv'
  <2> SUFFICES ASSUME RInv, [Next]_vars PROVE RInv'
    OBVIOUS
  <2>1. IInv'
    BY NextInv
  <2>2. CASE Respond
    <3>1. page \in Page /\ Answered(page, legs) /\ \A s \in ProxySource : legs[s] # "refused"
      BY <2>2, LegsAnswered DEF Respond, IInv, TypeOK, ProxiesAccept
    <3>2. UNCHANGED <<page, legs>> /\ view' = Handle(page, legs)
      BY <2>2, RespondInv DEF Respond
    <3>3. page \in {"home", "circuit"} /\ "refused" \in Outcomes(LegsOf[page])
            => \A section \in DOMAIN view' : view'[section].error = "not_authorized"
      BY <3>1, <3>2, SafeReports DEF Outcomes
    <3>4. \A section \in DOMAIN view' :
            /\ "refused" \in Outcomes(Needs[section])
            /\ "raised" \notin Outcomes(LegsOf[page])
            => view'[section].error = "not_authorized"
      <4>1. CASE page \in {"home", "circuit"}
        BY <3>1, <3>2, <3>3, <4>1, SafeNeeds DEF Outcomes
      <4>2. CASE page \notin {"home", "circuit"}
        BY <3>1, <3>2, <4>2, HandleReports DEF Outcomes, AllReport, Reports
      <4> QED BY <4>1, <4>2
    <3>5. RefusalReported'
      BY <3>2, <3>3, <3>4 DEF RefusalReported, Outcomes
    <3> QED BY <2>1, <3>5
  <2>3. ASSUME NEW s \in Source, NEW v \in Version, Change(s, v) PROVE RefusalReported'
    BY <2>3 DEF Change, RefusalReported, Outcomes
  <2>4. ASSUME NEW p \in Page, Request(p) PROVE RefusalReported'
    BY <2>4 DEF Request, RefusalReported
  <2>5. ASSUME NEW s \in Source, Answer(s) PROVE RefusalReported'
    <3>1. status' # "answered"
      BY <2>5 DEF Answer, IInv, PendingAsked
    <3> QED BY <3>1 DEF RefusalReported
  <2>6. ASSUME UNCHANGED vars PROVE RefusalReported'
    BY <2>6 DEF vars, RefusalReported, Outcomes
  <2> QED BY <2>1, <2>2, <2>3, <2>4, <2>5, <2>6 DEF Next
<1>3. RInv => RefusalReported
  OBVIOUS
<1> HIDE DEF RInv
<1> QED BY <1>1, <1>2, <1>3, PTL DEF Spec

-----------------------------------------------------------------------------
\* What fails beside a section does not cost it its rows: first for what the
\* sections are made of, when the sources they need all answered.
LEMMA GetReconciledAlone ==
  ASSUME NEW o, NEW a, NEW b, o[a] \in Version, o[b] \in Version
  PROVE  /\ GetReconciled(o, a, b) = Shown(o, {a, b})
         /\ Reconciled(o, a, b) = Shown(o, {a, b})
BY VersionAssumption DEF GetReconciled, Guarded, First, Reconciled, Failure, Exception, None

LEMMA GetCircuitsAlone ==
  ASSUME NEW o, o["circuits"] \in Version
  PROVE  GetCircuits(o) = Shown(o, {"circuits"})
BY VersionAssumption DEF GetCircuits, Guarded, Failure, Exception, None

LEMMA BuildSpectrumAlone ==
  ASSUME NEW o, \A s \in {"sdp", "agg", "circuits"} : o[s] \in Version
  PROVE  BuildSpectrum(o).error = "ok"
BY VersionAssumption DEF BuildSpectrum, Shown, Failure, None

LEMMA LinkedAlone ==
  ASSUME NEW o, NEW a, NEW b, o[a] \in Version, o[b] \in Version, NEW providers
  PROVE  LinkProviders(GetReconciled(o, a, b), providers).error = "ok"
<1>1. GetReconciled(o, a, b) = Shown(o, {a, b})
  BY GetReconciledAlone
<1> QED BY <1>1 DEF LinkProviders, Shown

\* Where no leg was refused, safe() leaves no exception to the two guards.
LEMMA SafeNotRefused ==
  ASSUME NEW p \in Page, NEW o, Answered(p, o), \A s \in LegsOf[p] : o[s] # "refused"
  PROVE  \A s \in LegsOf[p] : /\ SafeLegs(o)[s] \notin Exception
                              /\ o[s] \in Version => SafeLegs(o)[s] = o[s]
BY LegsAreSources, VersionAssumption
   DEF Answered, Outcome, SafeLegs, Safe, Failure, Exception, None

NeedsAlone(section) == Needs[section] \cup (IF section = "path" THEN {"agg"} ELSE {})

LEMMA StpAlone ==
  ASSUME NEW o, NEW section \in DOMAIN StpDetail(o),
         \A s \in NeedsAlone(section) : o[s] \in Version
  PROVE  StpDetail(o)[section].error \in {"ok", "not_found"}
<1> DEFINE d == GetStpDetail(o)
<1>1. section \in {"stps", "circuits", "sdps"}
  BY DEF StpDetail, GetStpDetail
<1>2. CASE section = "stps"
  <2>1. o["stp"] \in Version /\ o["dds_stps"] \in Version
    BY <1>2 DEF NeedsAlone, Needs
  <2>2. d.stps.error = "ok"
    BY <2>1, LinkedAlone DEF GetStpDetail
  <2>3. d["stps"].error = "ok"
    BY <2>2 DEF GetStpDetail
  <2> QED BY <1>2, <2>2, <2>3 DEF StpDetail, Failed
<1>3. CASE section # "stps"
  <2>1. StpDetail(o) = d
    BY <1>3 DEF StpDetail
  <2>2. CASE section = "circuits"
    <3>1. o["circuits"] \in Version
      BY <2>2 DEF NeedsAlone, Needs
    <3>2. d["circuits"].error = "ok"
      BY <3>1, GetCircuitsAlone DEF GetStpDetail, Shown
    <3> QED BY <2>1, <2>2, <3>2
  <2>3. CASE section = "sdps"
    <3>1. o["sdp"] \in Version /\ o["dds_sdps"] \in Version
      BY <2>3 DEF NeedsAlone, Needs
    <3>2. d["sdps"].error = "ok"
      BY <3>1, GetReconciledAlone DEF GetStpDetail, Shown
    <3> QED BY <2>1, <2>3, <3>2
  <2> QED BY <1>1, <1>3, <2>2, <2>3
<1> QED BY <1>2, <1>3

LEMMA TopologiesAlone ==
  ASSUME NEW o, \A s \in NeedsAlone("topologies") : o[s] \in Version
  PROVE  GetTopologies(o).error = "ok"
<1>1. o["topo"] \in Version /\ o["dds_topos"] \in Version
  BY DEF NeedsAlone, Needs
<1> QED BY <1>1, LinkedAlone DEF GetTopologies

LEMMA HomeAlone ==
  ASSUME NEW o, \A s \in LegsOf["home"] : o[s] \notin Exception,
         NEW section \in DOMAIN Home(o), \A s \in NeedsAlone(section) : o[s] \in Version
  PROVE  Home(o)[section].error = "ok"
<1>1. HomeGuard(o) # "refused"
  BY DEF HomeGuard, First, LegsOf, WfoSource, Exception
<1>2. section \in {"circuits", "topologies", "switching_services", "stps", "sdps", "spectrum", "validation"}
  BY <1>1 DEF Home
<1>3. CASE section = "circuits"
  <2>1. o["circuits"] \in Version
    BY <1>3 DEF NeedsAlone, Needs
  <2> QED BY <1>1, <1>3, <2>1, GetCircuitsAlone DEF Home, Shown
<1>4. CASE section = "spectrum"
  <2>1. \A s \in {"sdp", "agg", "circuits"} : o[s] \in Version
    BY <1>4 DEF NeedsAlone, Needs
  <2> QED BY <1>1, <1>4, <2>1, BuildSpectrumAlone DEF Home
<1>5. CASE section = "validation"
  <2>1. o["failures"] \in Version
    BY <1>5 DEF NeedsAlone, Needs
  <2> QED BY <1>1, <1>5, <2>1, VersionAssumption DEF Home, Shown, Failure, None
<1>6. CASE section = "topologies"
  <2>1. o["topo"] \in Version /\ o["dds_topos"] \in Version
    BY <1>6 DEF NeedsAlone, Needs
  <2> QED BY <1>1, <1>6, <2>1, GetReconciledAlone DEF Home, Shown
<1>7. CASE section = "switching_services"
  <2>1. o["ss"] \in Version /\ o["dds_ss"] \in Version
    BY <1>7 DEF NeedsAlone, Needs
  <2> QED BY <1>1, <1>7, <2>1, GetReconciledAlone DEF Home, Shown
<1>8. CASE section = "stps"
  <2>1. o["stp"] \in Version /\ o["dds_stps"] \in Version
    BY <1>8 DEF NeedsAlone, Needs
  <2> QED BY <1>1, <1>8, <2>1, GetReconciledAlone DEF Home, Shown
<1>9. CASE section = "sdps"
  <2>1. o["sdp"] \in Version /\ o["dds_sdps"] \in Version
    BY <1>9 DEF NeedsAlone, Needs
  <2> QED BY <1>1, <1>9, <2>1, GetReconciledAlone DEF Home, Shown
<1> QED BY <1>2, <1>3, <1>4, <1>5, <1>6, <1>7, <1>8, <1>9

LEMMA CircuitAlone ==
  ASSUME NEW o, \A s \in LegsOf["circuit"] : o[s] \notin Exception,
         NEW section \in DOMAIN CircuitDetail(o), \A s \in NeedsAlone(section) : o[s] \in Version
  PROVE  CircuitDetail(o)[section].error \in {"ok", "not_found"}
<1>1. CircuitGuard(o) # "refused"
  BY DEF CircuitGuard, First, LegsOf, Exception
<1>2. section \in {"circuit", "path", "crossed"} /\ o["circuits"] \in Version
  BY DEF CircuitDetail, NeedsAlone, Needs
<1>3. o["circuits"] # None
  BY <1>2, VersionAssumption DEF Failure, None
<1>4. CASE o["circuits"] \notin Listed
  BY <1>1, <1>3, <1>4 DEF CircuitDetail, Failed
<1>5. CASE o["circuits"] \in Listed
  <2> DEFINE v == [circuit |-> Shown(o, {"circuits"}), path |-> PathOf(o), crossed |-> BuildSpectrum(o)]
  <2>1. CircuitDetail(o) = v
    BY <1>1, <1>3, <1>5 DEF CircuitDetail
  <2>2. CASE section = "circuit"
    BY <2>1, <2>2 DEF Shown
  <2>3. CASE section = "path"
    <3>1. o["agg"] \in Version
      BY <2>3 DEF NeedsAlone
    <3>2. PathOf(o).error = "ok"
      BY <3>1, VersionAssumption DEF PathOf, Shown, Failure, None
    <3> QED BY <2>1, <2>3, <3>2
  <2>4. CASE section = "crossed"
    <3>1. \A s \in {"sdp", "agg", "circuits"} : o[s] \in Version
      BY <2>4 DEF NeedsAlone, Needs
    <3> QED BY <2>1, <2>4, <3>1, BuildSpectrumAlone
  <2> QED BY <1>2, <2>2, <2>3, <2>4
<1> QED BY <1>4, <1>5

\* All four pages, from the outcomes of their fetches.
LEMMA HandleAlone ==
  ASSUME NEW p \in {"topologies", "stp", "home", "circuit"}, NEW o, Answered(p, o),
         p \in {"home", "circuit"} => \A s \in LegsOf[p] : o[s] # "refused",
         NEW section \in DOMAIN Handle(p, o), \A s \in NeedsAlone(section) : o[s] \in Version
  PROVE  Handle(p, o)[section].error \in {"ok", "not_found"}
<1>1. CASE p = "topologies"
  BY <1>1, TopologiesAlone DEF Handle
<1>2. CASE p = "stp"
  BY <1>2, StpAlone DEF Handle
<1>3. CASE p \in {"home", "circuit"}
  <2> DEFINE safe == SafeLegs(o)
  <2>1. \A s \in LegsOf[p] : safe[s] \notin Exception /\ (o[s] \in Version => safe[s] = o[s])
    BY <1>3, SafeNotRefused, PageNames
  <2>2. p = "home" => section # "dashboard"
    <3>1. p = "home" => HomeGuard(safe) # "refused"
      BY <2>1 DEF HomeGuard, First, LegsOf, WfoSource, Exception
    <3> QED BY <3>1 DEF Handle, Home
  <2>3. NeedsAlone(section) \subseteq LegsOf[p]
    <3>1. CASE p = "home"
      BY <3>1 DEF Handle, Home, NeedsAlone, Needs, LegsOf, WfoSource
    <3>2. CASE p = "circuit"
      BY <3>2 DEF Handle, CircuitDetail, NeedsAlone, Needs, LegsOf
    <3> QED BY <1>3, <3>1, <3>2
  <2>4. \A s \in NeedsAlone(section) : safe[s] \in Version
    BY <2>1, <2>3
  <2>5. CASE p = "home"
    BY <2>1, <2>4, <2>5, HomeAlone DEF Handle
  <2>6. CASE p = "circuit"
    BY <2>1, <2>4, <2>6, CircuitAlone DEF Handle
  <2> QED BY <1>3, <2>5, <2>6
<1> QED BY <1>1, <1>2, <1>3

\* The legs of a page are independent: an outage of one source takes no section
\* with it that does not need that source.
THEOREM SectionsAreIndependent == Spec => []SectionsDegradeAlone
<1> DEFINE DInv == IInv /\ SectionsDegradeAlone
<1>1. Init => DInv
  BY InitInv DEF Init, SectionsDegradeAlone
<1>2. DInv /\ [Next]_vars => DInv'
  <2> SUFFICES ASSUME DInv, [Next]_vars PROVE DInv'
    OBVIOUS
  <2>1. IInv'
    BY NextInv
  <2>2. ASSUME Respond PROVE SectionsDegradeAlone'
    <3>1. page \in Page /\ Answered(page, legs)
      BY <2>2, LegsAnswered DEF Respond, IInv, TypeOK
    <3>2. UNCHANGED <<page, legs>> /\ view' = Handle(page, legs)
      BY <2>2, RespondInv DEF Respond
    <3> SUFFICES ASSUME page \in {"topologies", "stp", "home", "circuit"},
                        page \in {"home", "circuit"} => \A s \in LegsOf[page] : legs[s] # "refused",
                        NEW section \in DOMAIN view',
                        \A s \in NeedsAlone(section) : legs[s] \in Version
                 PROVE  view'[section].error \in {"ok", "not_found"}
      BY <3>2 DEF SectionsDegradeAlone, NeedsAlone, Delivered, Outcomes
    <3> QED BY <3>1, <3>2, HandleAlone
  <2>3. ASSUME NEW s \in Source, NEW v \in Version, Change(s, v) PROVE SectionsDegradeAlone'
    BY <2>3 DEF Change, SectionsDegradeAlone, Outcomes, Delivered
  <2>4. ASSUME NEW p \in Page, Request(p) PROVE SectionsDegradeAlone'
    BY <2>4 DEF Request, SectionsDegradeAlone
  <2>5. ASSUME NEW s \in Source, Answer(s) PROVE SectionsDegradeAlone'
    <3>1. status' # "answered"
      BY <2>5 DEF Answer, IInv, PendingAsked
    <3> QED BY <3>1 DEF SectionsDegradeAlone
  <2>6. ASSUME UNCHANGED vars PROVE SectionsDegradeAlone'
    BY <2>6 DEF vars, SectionsDegradeAlone, Outcomes, Delivered
  <2> QED BY <2>1, <2>2, <2>3, <2>4, <2>5, <2>6 DEF Next
<1>3. DInv => SectionsDegradeAlone
  OBVIOUS
<1> HIDE DEF DInv
<1> QED BY <1>1, <1>2, <1>3, PTL DEF Spec

-----------------------------------------------------------------------------
\* What a failing WFO leg does to /provider/{id}.

WfoRaises == \E s \in LegsOf["provider"] \cap WfoSource : legs[s] = "raised"
ProviderAnswered ==
  /\ status = "answered" /\ page = "provider"
  /\ "refused" \notin Outcomes(WfoSource)
  /\ \A s \in LegsOf["provider"] \cap ProxySource : Delivered(s)

\* The one guard around all five results.
LEMMA ProviderOutcome ==
  ASSUME NEW o, Answered("provider", o),
         \A s \in {"circuits", "stp"} : o[s] # "refused",
         \A s \in {"upas", "dds_nsas", "reservations"} : o[s] \in Version
  PROVE  IF o["circuits"] = "raised" \/ o["stp"] = "raised"
         THEN ProviderDetail(o)["provider"].error = "unavailable"
         ELSE ProviderDetail(o)["provider"].error \in {"ok", "not_found"}
<1>1. o["upas"] # None /\ \A s \in {"upas", "dds_nsas", "reservations"} : o[s] \notin Exception
  BY VersionAssumption DEF Failure
<1> DEFINE detail == GetProviderDetail(o)
<1>2. detail.provider = Guarded(ProviderGuard(o), BuildProviders(o))
  BY DEF GetProviderDetail
<1> HIDE DEF detail
<1>3. CASE o["circuits"] = "raised" \/ o["stp"] = "raised"
  <2>1. ProviderGuard(o) = "raised"
    BY <1>3 DEF ProviderGuard, First, Exception
  <2>2. detail.provider.error = "unavailable"
    BY <1>2, <2>1 DEF Guarded, Failed
  <2>3. ProviderDetail(o) = [provider |-> detail.provider]
    BY <2>2 DEF ProviderDetail, detail
  <2> QED BY <1>3, <2>2, <2>3
<1>4. CASE o["circuits"] # "raised" /\ o["stp"] # "raised"
  <2>1. ProviderGuard(o) \notin Exception
    BY <1>1, <1>4 DEF ProviderGuard, First, Exception
  <2>2. detail.provider.error = "ok"
    <3>1. detail.provider = BuildProviders(o)
      BY <1>2, <2>1 DEF Guarded, Exception
    <3> QED BY <1>1, <3>1 DEF BuildProviders, Shown
  <2>3. ProviderDetail(o) \in {[provider |-> Failed("not_found")], detail}
    BY <2>2 DEF ProviderDetail, detail
  <2> QED BY <1>4, <2>2, <2>3 DEF Failed
<1> QED BY <1>3, <1>4

\* Once the proxies have answered and no credential was refused, the provider's
\* section is lost exactly when a fetch from the orchestrator, which only supplies
\* its links, raised: an orchestrator that merely failed costs nothing, as the
\* docstring says (ProviderSurvivesWfo), and one that raises costs the page.
THEOREM ProviderFailsWithWfoOnly ==
  Spec => [](/\ ~WfoRaises => ProviderSurvivesWfo
             /\ WfoRaises /\ ProviderAnswered => view["provider"].error = "unavailable")
<1> DEFINE Exact == ProviderAnswered => IF WfoRaises THEN view["provider"].error = "unavailable"
                                        ELSE view["provider"].error \in {"ok", "not_found"}
           EInv == IInv /\ Exact
<1>1. Init => EInv
  BY InitInv DEF Init, ProviderAnswered
<1>2. EInv /\ [Next]_vars => EInv'
  <2> SUFFICES ASSUME EInv, [Next]_vars PROVE EInv'
    OBVIOUS
  <2>1. IInv'
    BY NextInv
  <2>2. ASSUME Respond PROVE Exact'
    <3>1. page \in Page /\ Answered(page, legs)
      BY <2>2, LegsAnswered DEF Respond, IInv, TypeOK
    <3>2. UNCHANGED <<page, legs>> /\ view' = Handle(page, legs)
      BY <2>2, RespondInv DEF Respond
    <3> SUFFICES ASSUME page = "provider", \A s \in WfoSource : legs[s] # "refused",
                        \A s \in LegsOf["provider"] \cap ProxySource : legs[s] \in Version
                 PROVE  IF WfoRaises THEN view'["provider"].error = "unavailable"
                        ELSE view'["provider"].error \in {"ok", "not_found"}
      BY <3>2 DEF ProviderAnswered, WfoRaises, Outcomes, Delivered
    <3>3. \A s \in {"circuits", "stp"} : legs[s] # "refused"
      BY DEF WfoSource
    <3>4. \A s \in {"upas", "dds_nsas", "reservations"} : legs[s] \in Version
      BY DEF LegsOf, ProxySource
    <3>5. WfoRaises <=> legs["circuits"] = "raised" \/ legs["stp"] = "raised"
      BY DEF WfoRaises, LegsOf, WfoSource
    <3>6. view' = ProviderDetail(legs)
      BY <3>2 DEF Handle
    <3> QED BY <3>1, <3>3, <3>4, <3>5, <3>6, ProviderOutcome
  <2>3. ASSUME NEW s \in Source, NEW v \in Version, Change(s, v) PROVE Exact'
    BY <2>3 DEF Change, ProviderAnswered, WfoRaises, Outcomes, Delivered
  <2>4. ASSUME NEW p \in Page, Request(p) PROVE Exact'
    BY <2>4 DEF Request, ProviderAnswered
  <2>5. ASSUME NEW s \in Source, Answer(s) PROVE Exact'
    <3>1. status' # "answered"
      BY <2>5 DEF Answer, IInv, PendingAsked
    <3> QED BY <3>1 DEF ProviderAnswered
  <2>6. ASSUME UNCHANGED vars PROVE Exact'
    BY <2>6 DEF vars, ProviderAnswered, WfoRaises, Outcomes, Delivered
  <2> QED BY <2>1, <2>2, <2>3, <2>4, <2>5, <2>6 DEF Next
<1>3. EInv => /\ ~WfoRaises => ProviderSurvivesWfo
              /\ WfoRaises /\ ProviderAnswered => view["provider"].error = "unavailable"
  BY DEF ProviderSurvivesWfo, ProviderAnswered
<1> HIDE DEF EInv
<1> QED BY <1>1, <1>2, <1>3, PTL DEF Spec

-----------------------------------------------------------------------------
LEMMA SoundPromised ==
  ASSUME IInv, Respond, NEW section \in Section, NEW shown,
         Sound(page, legs, section, shown)
  PROVE  Contract!Promised(section, shown)
<1> DEFINE failed == {s \in Source : legs[s] \in Failure}
           refused == {s \in Source : legs[s] = "refused"}
<1>1. page \in Page /\ LegsOf[page] \subseteq Source
  BY LegsAreSources DEF IInv, TypeOK
<1>2. Version \cap Failure = {}
  BY VersionAssumption
<1>3. shown.error \in {"ok", "not_authorized", "unavailable", "not_found"}
      /\ \A s \in Source : shown.from[s] \in Version \cup {None}
  BY DEF Sound, SectionView
<1>4. CASE shown.error = "ok"
  <2>1. \A s \in Source : shown.from[s] \in held[s] \cup {None}
    BY <1>3 DEF Sound, IInv, AnswersHeld
  <2>2. \A s \in Needs[section] : shown.from[s] \in held[s] /\ s \notin failed
    BY <1>1, <1>2, <1>4 DEF Sound, IInv, AnswersHeld
  <2>3. section = "path" /\ shown.from["circuits"] \in Connected => shown.from["agg"] \in held["agg"]
    BY <1>4 DEF Sound, IInv, AnswersHeld, Source, ProxySource
  <2>4. Contract!Witnessed(section, shown.from)
    BY <2>1, <2>2, <2>3 DEF Contract!Witnessed
  <2> QED BY <1>4, <2>4 DEF Contract!Promised
<1>5. CASE shown.error = "not_authorized"
  <2>1. refused # {}
    BY <1>1, <1>5 DEF Sound
  <2> QED BY <1>5, <2>1 DEF Contract!Promised
<1>6. CASE shown.error = "unavailable"
  <2>1. failed # {}
    BY <1>1, <1>6 DEF Sound
  <2> QED BY <1>6, <2>1 DEF Contract!Promised
<1>7. CASE shown.error = "not_found"
  <2>1. \E s \in LegsOf[page] : s \notin failed
    BY <1>1, <1>2, <1>7 DEF Sound
  <2> QED BY <1>7, <2>1 DEF Contract!Promised
<1> QED BY <1>3, <1>4, <1>5, <1>6, <1>7

\* Every page keeps the promise of PageContract: rows only from contents their
\* sources really held during the request, errors only for failed sources.
THEOREM PagesImplementContract == Spec => ImplementsContract
<1>1. Init => Contract!Init
  BY VersionAssumption, NoViewEmpty DEF Init, Contract!Init, Failure, Exception, None, Waiting
<1>2. ASSUME IInv, [Next]_vars PROVE [Contract!Next]_(Contract!vars)
  <2>1. ASSUME NEW s \in Source, NEW v \in Version, Change(s, v) PROVE Contract!Next
    <3>1. Contract!Change(s, v)
      BY <2>1 DEF Change, Contract!Change
    <3> QED BY <3>1 DEF Contract!Next
  <2>2. ASSUME NEW p \in Page, Request(p) PROVE Contract!Next
    <3>1. \A s \in Source : legs'[s] \notin Failure
      BY <2>2 DEF Request, Failure, Exception, None
    <3>2. Contract!Request(p)
      BY <2>2, <3>1, NoViewEmpty DEF Request, Contract!Request, Failure, Exception
    <3> QED BY <3>2 DEF Contract!Next
  <2>3. ASSUME NEW s \in Source, Answer(s) PROVE [Contract!Next]_(Contract!vars)
    <3>1. PICK o : legs' = [legs EXCEPT ![s] = o]
      BY <2>3 DEF Answer
    <3>2. UNCHANGED <<world, page, status, held, view>> /\ legs[s] = "pending" /\ status = "asking"
      BY <1>2, <2>3 DEF Answer, IInv, PendingAsked
    <3>3. legs \in [Source -> Version \cup Failure \cup Waiting]
      BY <1>2 DEF IInv, TypeOK
    <3>4. legs[s] \notin Failure /\ s \in LegsOf[page]
      BY <1>2, <3>2 DEF Failure, Exception, None, IInv, LegsAsked
    <3>5. CASE o \in Failure
      <4>1. Contract!Fail(s)
        BY <3>1, <3>2, <3>3, <3>4, <3>5 DEF Contract!Fail, Failure, Exception
      <4> QED BY <4>1 DEF Contract!Next
    <3>6. CASE o \notin Failure
      <4>1. UNCHANGED <<{t \in Source : legs[t] \in Failure}, {t \in Source : legs[t] = "refused"}>>
        BY <3>1, <3>3, <3>4, <3>6 DEF Failure, Exception
      <4> QED BY <3>2, <4>1 DEF Contract!vars
    <3> QED BY <3>5, <3>6
  <2>4. CASE Respond
    <3>1. status' = "answered" /\ SoundView(page, legs, view')
      BY <1>2, <2>4, RespondInv
    <3>2. \A section \in DOMAIN view' : Contract!Promised(section, view'[section])
      BY <1>2, <2>4, <3>1, SoundPromised DEF SoundView
    <3>3. Contract!Serve
      BY <2>4, <3>1, <3>2 DEF Respond, Contract!Serve, SoundView
    <3> QED BY <3>3 DEF Contract!Next
  <2>5. CASE UNCHANGED vars
    BY <2>5 DEF vars, Contract!vars
  <2> QED BY <1>2, <2>1, <2>2, <2>3, <2>4, <2>5 DEF Next
<1> QED BY <1>1, <1>2, Invariance, PTL DEF Spec, ImplementsContract, Contract!Spec

-----------------------------------------------------------------------------
\* A leg of this page server, and the fetch HttpFetch describes, are the same
\* thing to each other: a Leg.
LegOutcome(s) == IF legs[s] \in Version THEN "answered" ELSE legs[s]
AsLeg(s) == INSTANCE Leg WITH delegated <- (s \in WfoSource), outcome <- LegOutcome(s)

\* Whatever the pages are asked, and however their upstreams behave, each leg is
\* asked for once a page, settles once, and is refused only with the user's own
\* token: the composition of the pages with their fetches assumes no more.
THEOREM LegsAreFetches == ASSUME NEW s \in Source PROVE Spec => AsLeg(s)!Spec
<1>1. Init => AsLeg(s)!Init
  BY VersionAssumption DEF Init, AsLeg!Init, LegOutcome, Waiting
<1>2. ASSUME IInv, [Next]_vars PROVE [AsLeg(s)!Next]_(AsLeg(s)!vars)
  <2>1. ASSUME legs' = legs PROVE UNCHANGED AsLeg(s)!vars
    BY <2>1 DEF AsLeg!vars, LegOutcome
  <2>2. ASSUME NEW p \in Page, Request(p) PROVE [AsLeg(s)!Next]_(AsLeg(s)!vars)
    <3>1. legs'[s] \in Waiting
      BY <2>2 DEF Request, Waiting
    <3>2. LegOutcome(s)' \in {"unasked", "pending"}
      BY <3>1, VersionAssumption DEF LegOutcome, Waiting
    <3>3. legs[s] # "pending"
      BY <1>2, <2>2 DEF Request, IInv, PendingAsked
    <3>4. LegOutcome(s) # "pending"
      BY <3>3 DEF LegOutcome
    <3> QED BY <3>2, <3>4 DEF AsLeg!Next, AsLeg!Ask
  <2>3. ASSUME NEW t \in Source, Answer(t) PROVE [AsLeg(s)!Next]_(AsLeg(s)!vars)
    <3>1. PICK o \in {world[t], None, "raised"} \cup (IF t \in WfoSource THEN {"refused"} ELSE {}) :
            legs' = [legs EXCEPT ![t] = o]
      BY <2>3 DEF Answer
    <3>2. legs \in [Source -> Version \cup Failure \cup Waiting] /\ world[t] \in Version
      BY <1>2 DEF IInv, TypeOK
    <3>3. CASE s # t
      BY <3>1, <3>2, <3>3 DEF AsLeg!vars, LegOutcome
    <3>4. CASE s = t
      <4>1. legs[s] = "pending" /\ LegOutcome(s) = "pending"
        BY <2>3, <3>4, VersionAssumption DEF Answer, LegOutcome, Waiting
      <4>2. legs'[s] = o
        BY <3>1, <3>2, <3>4
      <4>3. LegOutcome(s)' = IF o \in Version THEN "answered" ELSE o
        BY <4>2 DEF LegOutcome
      <4>4. LegOutcome(s)' \in AsLeg(s)!Settled
        BY <3>1, <3>2, <4>3 DEF AsLeg!Settled, None
      <4>5. LegOutcome(s)' = "refused" => s \in WfoSource
        BY <3>1, <3>2, <3>4, <4>3 DEF None
      <4> QED BY <4>1, <4>4, <4>5 DEF AsLeg!Next, AsLeg!Settle
    <3> QED BY <3>3, <3>4
  <2>4. CASE Respond
    BY <2>1, <2>4 DEF Respond
  <2>5. CASE UNCHANGED vars
    BY <2>1, <2>5 DEF vars
  <2>6. ASSUME NEW t \in Source, NEW v \in Version, Change(t, v) PROVE UNCHANGED AsLeg(s)!vars
    BY <2>1, <2>6 DEF Change
  <2> QED BY <1>2, <2>2, <2>3, <2>4, <2>1, <2>5, <2>6 DEF Next
<1> QED BY <1>1, <1>2, Invariance, PTL DEF Spec, AsLeg!Spec
=============================================================================
