------------------------------ MODULE Networks ------------------------------
(***************************************************************************)
(* Networks (providers/network.ts, plugins-network.ts), the providers of   *)
(* the services that run nodes (providers/provider-*.ts) and the default   *)
(* provider (default-provider.ts).  An operator returns the set of what    *)
(* its function returns, empty when it throws.                             *)
(***************************************************************************)
EXTENDS Integers, Sequences, SequencesExt, FiniteSets

\* What describes a network: "null", a "name", the "digits" or the "number" of a network, an
\* "object" or the "json" of one, a "network", or the "http" or "ws" address of a node.
Networkish(is, name, networkId) == [is |-> is, name |-> name, networkId |-> networkId, plugins |-> <<>>]
NoName == "none"
NoId == -1
NewNetwork(name, networkId) == Networkish("network", name, networkId)

\* A plugin: its name, up to the fragment and behind it, and its costs.
EnergyPlugin == "org.corebc.network.plugins.EnergyCost"
LookedUpPlugin == "org.corebc.plugins.network.EnergyCost"
DefaultCosts == [txBase |-> 21000, txCreate |-> 32000, txDataZero |-> 4, txDataNonzero |-> 16,
                 txAccessListStorageKey |-> 1900, txAccessListAddress |-> 2400]
EnergyCostPlugin(effectiveBlock, costs) ==
  [basename |-> EnergyPlugin, fragment |-> effectiveBlock, costs |-> [c \in DOMAIN DefaultCosts |->
     IF c \in DOMAIN costs THEN costs[c] ELSE DefaultCosts[c]]]
NoFragment == -1

attachPlugin(network, plugin) ==
  IF \E i \in DOMAIN network.plugins : network.plugins[i].basename = plugin.basename /\ network.plugins[i].fragment = plugin.fragment
  THEN {} ELSE {[network EXCEPT !.plugins = Append(@, plugin)]}
getPlugin(network, basename) == {p \in ToSet(network.plugins) : p.basename = basename /\ p.fragment = NoFragment}
getPlugins(network, basename) == SelectSeq(network.plugins, LAMBDA p : p.basename = basename)
clone(network) == FoldLeft(LAMBDA so, p : UNION {attachPlugin(n, p) : n \in so}, {NewNetwork(network.name, network.networkId)}, network.plugins)

computeIntrinsicEnergy(network, tx) ==
  LET found == getPlugin(network, LookedUpPlugin)
      costs == IF found = {} THEN DefaultCosts ELSE (CHOOSE p \in found : TRUE).costs
  IN  FoldLeft(LAMBDA energy, byte : energy + IF byte = 0 THEN costs.txDataZero ELSE costs.txDataNonzero,
               costs.txBase + IF tx.create THEN costs.txCreate ELSE 0, tx.data)

\* A number alone or a networkId decides; a name only where there is none.
matches(network, other) ==
  CASE other.is \in {"digits", "number"} -> network.networkId = other.networkId
    [] other.is \in {"name", "http", "ws"} -> network.name = other.name
    [] other.is \in {"object", "json", "network"} ->
         IF other.networkId # NoId THEN network.networkId = other.networkId ELSE other.name # NoName /\ network.name = other.name
    [] OTHER -> FALSE

-----------------------------------------------------------------------------
\* injectCommonNetworks: each network is registered by its name, its number and others.
Common == <<[name |-> "mainnet", networkId |-> 1, altNames |-> {"homestead"}]>> \o
  [i \in 1 .. 8 |-> [name |-> <<"ropsten", "rinkeby", "goerli", "kovan", "sepolia", "classic", "classicKotti", "xdai">>[i],
                     networkId |-> <<3, 4, 5, 42, 11155111, 61, 6, 100>>[i], altNames |-> {}]]
Registered(key) ==
  {c \in ToSet(Common) : (key.is = "name" /\ key.name \in {c.name} \cup c.altNames) \/ (key.is = "number" /\ key.networkId = c.networkId)}

networkFrom(network) ==
  LET found == Registered(IF network.is = "null" THEN Networkish("name", "mainnet", NoId) ELSE network)
  IN  CASE found # {} -> UNION {attachPlugin(NewNetwork(c.name, c.networkId), EnergyCostPlugin(0, <<>>)) : c \in found}
        [] found = {} /\ network.is = "number"  -> {NewNetwork("unknown", network.networkId)}
        [] found = {} /\ network.is = "network" -> clone(network)
        [] found = {} /\ network.is = "object"  ->
             IF network.name = NoName \/ network.networkId = NoId THEN {} ELSE {NewNetwork(network.name, network.networkId)}
        [] OTHER -> {}

-----------------------------------------------------------------------------
\* Each service: its hosts, its requests and its providers.  Who has no key of its own shares the
\* one of the program, and is told so when a request is retried.
Hosts(names, hosts) == [name \in ToSet(names) |-> hosts[CHOOSE i \in DOMAIN names : names[i] = name]]
Names == <<"mainnet", "goerli", "sepolia", "arbitrum", "arbitrum-goerli", "matic", "matic-mumbai", "optimism", "optimism-goerli">>
DefaultKey == "default"
OrDefault(key) == IF key = NoName THEN DefaultKey ELSE key
Request(host, key, secret) == [host |-> host, key |-> key, credentials |-> secret, gzip |-> TRUE, notice |-> key = DefaultKey]
Provider(service, hosts, networkish, key, secret, getRequest(_, _, _)) ==
  {[service |-> service, staticNetwork |-> network, polling |-> service = "ankr", key |-> OrDefault(key), secret |-> secret,
    request |-> getRequest(network, OrDefault(key), secret)] : network \in {n \in networkFrom(networkish) : n.name \in DOMAIN hosts}}

infuraHosts == Hosts(Names, <<"mainnet.infura.io", "goerli.infura.io", "sepolia.infura.io", "arbitrum-mainnet.infura.io",
  "arbitrum-goerli.infura.io", "polygon-mainnet.infura.io", "polygon-mumbai.infura.io", "optimism-mainnet.infura.io", "optimism-goerli.infura.io">>)
infuraRequest(network, key, secret) == Request(infuraHosts[network.name], key, secret)
InfuraProvider(networkish, key, secret) == Provider("infura", infuraHosts, networkish, key, secret, infuraRequest)

alchemyHosts == Hosts(Names, <<"eth-mainnet.alchemyapi.io", "eth-goerli.g.alchemy.com", "eth-sepolia.g.alchemy.com", "arb-mainnet.g.alchemy.com",
  "arb-goerli.g.alchemy.com", "polygon-mainnet.g.alchemy.com", "polygon-mumbai.g.alchemy.com", "opt-mainnet.g.alchemy.com", "opt-goerli.g.alchemy.com">>)
alchemyRequest(network, key, secret) == Request(alchemyHosts[network.name], key, NoName)
AlchemyProvider(networkish, key) == Provider("alchemy", alchemyHosts, networkish, key, NoName, alchemyRequest)

quicknodeHosts == Hosts(<<"mainnet", "arbitrum", "arbitrum-goerli", "matic", "matic-mumbai", "optimism", "optimism-goerli">>,
  <<"corebc.quiknode.pro", "corebc.arbitrum-mainnet.quiknode.pro", "corebc.arbitrum-goerli.quiknode.pro", "corebc.matic.quiknode.pro",
    "corebc.matic-testnet.quiknode.pro", "corebc.optimism.quiknode.pro", "corebc.optimism-goerli.quiknode.pro">>)
quicknodeRequest(network, key, secret) == Request(quicknodeHosts[network.name], key, NoName)
QuickNodeProvider(networkish, key) == Provider("quicknode", quicknodeHosts, networkish, key, NoName, quicknodeRequest)

ankrHosts == Hosts(<<"mainnet", "goerli", "matic", "arbitrum">>,
  <<"rpc.ankr.com/eth", "rpc.ankr.com/xcb_goerli", "rpc.ankr.com/polygon", "rpc.ankr.com/arbitrum">>)
ankrRequest(network, key, secret) == Request(ankrHosts[network.name], key, NoName)
AnkrProvider(networkish, key) == Provider("ankr", ankrHosts, networkish, key, NoName, ankrRequest)

pocketHosts == Hosts(<<"mainnet", "goerli", "matic", "matic-mumbai">>, <<"eth-mainnet.gateway.pokt.network", "eth-goerli.gateway.pokt.network",
  "poly-mainnet.gateway.pokt.network", "polygon-mumbai-rpc.gateway.pokt.network">>)
pocketRequest(network, key, secret) == Request(pocketHosts[network.name], key, secret)
PocketProvider(networkish, key, secret) == Provider("pocket", pocketHosts, networkish, key, secret, pocketRequest)

cloudflareHosts == Hosts(<<"mainnet">>, <<"cloudflare-eth.com">>)
cloudflareRequest(network, key, secret) == [Request(cloudflareHosts[network.name], NoName, NoName) EXCEPT !.gzip = FALSE]
CloudflareProvider(networkish) == Provider("cloudflare", cloudflareHosts, networkish, NoName, NoName, cloudflareRequest)

Services == {"infura", "alchemy", "quicknode", "ankr", "pocket", "cloudflare"}
ProviderOf(service, networkish, key, secret) ==
  CASE service = "infura"    -> InfuraProvider(networkish, key, secret)
    [] service = "alchemy"   -> AlchemyProvider(networkish, key)
    [] service = "quicknode" -> QuickNodeProvider(networkish, key)
    [] service = "ankr"      -> AnkrProvider(networkish, key)
    [] service = "pocket"    -> PocketProvider(networkish, key, secret)
    [] service = "cloudflare" -> CloudflareProvider(networkish)
isCommunityResource(provider) == provider.service # "cloudflare" /\ provider.key = DefaultKey

\* A provider for another network with the same key; cloudflare makes none.
_getProvider(provider, networkId) ==
  IF provider.service = "cloudflare" THEN {}
  ELSE ProviderOf(provider.service, Networkish("number", NoName, networkId), provider.key, provider.secret)

\* The web socket takes no secret, and detects its network if none is given.
InfuraWebSocket(networkish, key) ==
  {[key |-> p.key, host |-> p.request.host, network |-> IF networkish.is = "null" THEN {} ELSE networkFrom(networkish)] :
     p \in InfuraProvider(networkish, key, NoName)}

\* getDefaultProvider: options has the key of each service, "-" for none, and the secret.
DefaultServices == <<"alchemy", "ankr", "cloudflare", "infura", "quicknode">>
getDefaultProvider(network, options) ==
  LET Asked(s)  == options[s] # "-" /\ (s = "ankr" => options[s] # NoName)
      providers == FoldLeft(LAMBDA so, s : so \o SetToSeq(ProviderOf(s, network, options[s], IF s = "infura" THEN options.secret ELSE NoName)),
                            <<>>, SelectSeq(DefaultServices, Asked))
  IN  CASE network.is = "http" -> {[is |-> "json rpc", providers |-> <<>>]}
        [] network.is = "ws"   -> {[is |-> "web socket", providers |-> <<>>]}
        [] network.is \notin {"http", "ws"} /\ providers = <<>> -> {}
        [] OTHER -> {[is |-> IF Len(providers) = 1 THEN "one" ELSE "fallback", providers |-> providers]}

-----------------------------------------------------------------------------
\* A network matches its description, unless by its other name or none; it is its own
\* clone; its plugins change no energy, since none is found by the name looked up.
NetworkFound(networkish, tx) ==
  \A network \in networkFrom(networkish) :
    /\ matches(network, networkish) = (networkish.is # "null" /\ (networkish.is = "name" => networkish.name # "homestead"))
    /\ networkFrom(network) = {network}
    /\ \A c \in Registered(networkish) :
         networkFrom(Networkish("name", c.name, NoId)) = {network} /\ networkFrom(Networkish("number", NoName, c.networkId)) = {network}
    /\ \A block \in 0 .. 1 : \A n \in attachPlugin(network, EnergyCostPlugin(block, [txBase |-> 5])) :
         /\ clone(n) = {n} /\ Len(getPlugins(n, EnergyPlugin)) = Len(network.plugins) + 1
         /\ computeIntrinsicEnergy(n, tx) = computeIntrinsicEnergy(network, tx)
    /\ attachPlugin(network, EnergyCostPlugin(0, <<>>)) = {} <=> network.plugins # <<>>

\* Each provider is of the network described, no other network has its host, the others it
\* makes are of theirs with the same key, and only a shared key is retried with a notice.
ServiceConnects(networkish, key, secret) ==
  \A service \in Services : \A p \in ProviderOf(service, networkish, key, secret) :
    /\ {p.staticNetwork} = networkFrom(networkish)
    /\ \A name \in ToSet(Names) : \A q \in ProviderOf(service, Networkish("object", name, 7), key, secret) :
         q.request.host = p.request.host => name = p.staticNetwork.name
    /\ p.request.notice = isCommunityResource(p)
    /\ \A c \in ToSet(Common) : \A q \in _getProvider(p, c.networkId) :
         q.staticNetwork.networkId = c.networkId /\ q.request.key = p.request.key /\ q.request.credentials = p.request.credentials
    /\ service = "infura" => \A w \in InfuraWebSocket(networkish, key) :
         w.host = p.request.host /\ w.key = p.key /\ w.network \subseteq {p.staticNetwork}

\* The default provider asks each service once that knows the network and was not declined.
DefaultConnects(network, options) ==
  \A d \in getDefaultProvider(network, options) :
    /\ (d.providers = <<>>) = (network.is \in {"http", "ws"})
    /\ \A i, j \in DOMAIN d.providers :
         /\ d.providers[i].staticNetwork = d.providers[j].staticNetwork
         /\ d.providers[i].service = d.providers[j].service => i = j
    /\ d.providers # <<>> => {d.providers[i].service : i \in DOMAIN d.providers} =
         {s \in ToSet(DefaultServices) : options[s] # "-" /\ ProviderOf(s, network, options[s], NoName) # {} /\ (s = "ankr" => options[s] # NoName)}
    /\ (d.is = "fallback") = (Len(d.providers) > 1)
ConnectsTo(networkish, tx, options) ==
  /\ NetworkFound(networkish, tx)
  /\ ServiceConnects(networkish, options.infura, options.secret)
  /\ DefaultConnects(networkish, options)
=============================================================================
