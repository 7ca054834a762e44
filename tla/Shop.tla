----------------------------------- MODULE Shop -----------------------------------
(***************************************************************************)
(* The cart and the favourites of the shop: app/products keeps them in      *)
(* localStorage under two keys, app/products/[productId] under two others.  *)
(* Another tab of the browser has the same storage, and neither page hears  *)
(* of what it writes: `elsewhere` are the keys that another tab wrote after *)
(* this page last read or wrote them.                                       *)
(***************************************************************************)
EXTENDS PageShell

CONSTANTS
  Products,    \* the ids of the products
  MaxQuantity  \* bound on the quantity chosen

ASSUME ShopAssumption == MaxQuantity \in Nat \ {0}

NoKeys == [cart |-> <<>>, favorites |-> <<>>]
\* The page of the list is opened: loadCartFromStorage, loadFavoritesFromStorage.
ListOpened(stored) ==
  [view |-> "list", cart |-> stored.cart, favorites |-> stored.favorites, elsewhere |-> {}]
\* The page of a product: loadCartItems, loadFavorites.
ProductOpened(p, lines, marked) ==
  [view |-> "product", product |-> p, quantity |-> 1, lines |-> lines,
   favorite |-> p \in ToSet(marked), elsewhere |-> {}]
NoLines == [p \in Products |-> 0]

ShopInit ==
  page = ListOpened(NoKeys)
         ++ [name |-> "shop", clicks |-> 0, product |-> None, quantity |-> 1, lines |-> NoLines, favorite |-> FALSE,
             stored |-> NoKeys, storedLines |-> NoLines, marked |-> <<>>, doubled |-> FALSE]

OpenShop == Click(ListOpened(page.stored))
OpenProduct(p) == Click(ProductOpened(p, page.storedLines, page.marked))

-----------------------------------------------------------------------------
\* The list: a product is added, or added again; a heart is switched.

InList == page.view = "list"
AddProduct(p) ==
  LET cart == Append(page.cart, p) IN
    InList /\ Click([cart |-> cart, stored |-> [page.stored EXCEPT !.cart = cart],
                     elsewhere |-> page.elsewhere \ {"cart"}])
Switched(favorites, p) ==
  IF p \in ToSet(favorites) THEN Keep(favorites, Products \ {p}) ELSE Append(favorites, p)
ToggleListed(p) ==
  LET favorites == Switched(page.favorites, p) IN
    InList /\ Click([favorites |-> favorites, stored |-> [page.stored EXCEPT !.favorites = favorites],
                     elsewhere |-> page.elsewhere \ {"favorites"}])

-----------------------------------------------------------------------------
\* A product: its quantity is chosen and added to what the page has of the cart.

InProduct == page.view = "product"
ChooseQuantity(n) == InProduct /\ n # page.quantity /\ n \in 1 .. MaxQuantity /\ Click([quantity |-> n])
\* Wrong: what is added is not stored.
LinesNotStored(lines) == [lines |-> lines, elsewhere |-> page.elsewhere \ {"lines"}]
\* updateCartItems
LinesAdded(lines) == [lines |-> lines, storedLines |-> lines, elsewhere |-> page.elsewhere \ {"lines"}]
AddToCart == InProduct /\ Click(LinesAdded([page.lines EXCEPT ![page.product] = @ + page.quantity]))
\* A page marked, or unmarked, as its own mark says: one entry more, there already or
\* not, or the first one less.
MarkSwitched(p, marked) ==
  [marked |-> IF ~marked THEN Append(page.marked, p) ELSE RemoveFirst(page.marked, p),
   doubled |-> page.doubled \/ (~marked /\ p \in ToSet(page.marked))]
\* toggleFavorite reads the storage, but goes by the page's own mark.
ToggleFavorite ==
  InProduct /\ Click([favorite |-> ~page.favorite] ++ MarkSwitched(page.product, page.favorite))

-----------------------------------------------------------------------------
\* Another tab, opened on the same storage before or since, writes what it has: over
\* what this one wrote, unless it was opened since.
OtherTabAdds(p) ==
  \E old \in {<<>>, page.stored.cart} :
    Click([elsewhere |-> page.elsewhere \cup {"cart"},
           stored |-> [page.stored EXCEPT !.cart = Append(old, p)]])
OtherTabSwitches(p) ==
  \E old \in {<<>>, page.stored.favorites} :
    Click([elsewhere |-> page.elsewhere \cup {"favorites"},
           stored |-> [page.stored EXCEPT !.favorites = Switched(old, p)]])
OtherTabFills(p) ==
  \E old \in {NoLines, page.storedLines}, n \in 1 .. MaxQuantity :
    Click([elsewhere |-> page.elsewhere \cup {"lines"}, storedLines |-> [old EXCEPT ![p] = @ + n]])
OtherTabMarks(p) ==
  \E marked \in BOOLEAN : Click([elsewhere |-> page.elsewhere \cup {"marks"}] ++ MarkSwitched(p, marked))

ShopNext ==
  /\ On("shop")
  /\ \/ OpenShop \/ AddToCart \/ ToggleFavorite
     \/ \E p \in Products : \/ OpenProduct(p) \/ AddProduct(p) \/ ToggleListed(p)
                            \/ OtherTabAdds(p) \/ OtherTabSwitches(p) \/ OtherTabFills(p) \/ OtherTabMarks(p)
     \/ \E n \in 1 .. MaxQuantity : ChooseQuantity(n)

-----------------------------------------------------------------------------
\* Pages are opened over one another and another tab writes between: the cart, the
\* favourites and the mark that a page shows are those that the next visit will find,
\* key by key, unless another tab wrote the key after this page last read or wrote it:
\* the tab that writes last has its whole cart stored. A mark is also wrong once a
\* product was written twice by a mark older than this one's, of which
\* products/[productId]/page.tsx:187 removes one entry only. No product is a favourite
\* of the list twice, which one more switch would not undo.
ShopRemembers ==
  On("shop") =>
    /\ InList /\ "cart" \notin page.elsewhere => page.cart = page.stored.cart
    /\ InList /\ "favorites" \notin page.elsewhere => page.favorites = page.stored.favorites
    /\ InProduct /\ "lines" \notin page.elsewhere => page.lines = page.storedLines
    /\ InProduct /\ "marks" \notin page.elsewhere /\ ~page.doubled =>
         page.favorite = (page.product \in ToSet(page.marked))
    /\ IsInjective(page.stored.favorites)
=============================================================================
